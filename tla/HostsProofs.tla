----------------------------- MODULE HostsProofs -----------------------------
(***************************************************************************)
(* What stands around the codecs, for every file, picture and frame and    *)
(* every outcome of the allocations: the records of a PNG, the contexts of *)
(* FFmpeg's codec, the heap of the WebAssembly build, Qt's place in a file *)
(* and what pxltool holds at each of its stages.                           *)
(***************************************************************************)
EXTENDS PngMeta, PxlTool, PxlFfmpeg, PxlWasm, PxlHandler, CountingProofs, TLAPS

------------------------------------------------------------------------------
(* Ancillary chunks of the pictures that are saved                           *)

LEMMA AppendFacts ==
  ASSUME NEW S, NEW f \in Seq(S), NEW c \in S
  PROVE  /\ Append(f, c) \in Seq(S) /\ Append(f, c) # <<>>
         /\ \A n \in DOMAIN f : Append(f, c)[n] = f[n]
         /\ Append(f, c)[Len(f) + 1] = c
         /\ Len(f) \in Nat /\ DOMAIN f = 1..Len(f)
         /\ DOMAIN Append(f, c) = 1..(Len(f) + 1)
BY SMT

LEMMA EmptyFile == <<>> \in Seq(Chunk) /\ DOMAIN <<>> = {}
BY SMT

LEMMA NoFiles == <<>> \in Seq(Seq(Chunk))
BY SMT

\* Appending a chunk to a file in order.
LEMMA AppendOrdered ==
  ASSUME NEW f \in Seq(Chunk), NEW c \in Chunk, Ordered(f),
         \A n \in DOMAIN f : /\ f[n].type = "IDAT" => OfBase(c)
                             /\ f[n].type = "PLTE" => ~Early(c)
  PROVE  Ordered(Append(f, c))
<1> DEFINE g == Append(f, c)
<1>1. /\ g \in Seq(Chunk) /\ Len(g) = Len(f) + 1
      /\ \A n \in DOMAIN f : g[n] = f[n]
      /\ g[Len(f) + 1] = c
      /\ DOMAIN f = 1..Len(f) /\ DOMAIN g = 1..(Len(f) + 1) /\ Len(f) \in Nat
  BY SMT
<1> HIDE DEF g
<1>2. ASSUME NEW m \in DOMAIN g, NEW n \in DOMAIN g, m < n
      PROVE  /\ g[m].type = "IDAT" => OfBase(g[n])
             /\ g[m].type = "PLTE" => ~Early(g[n])
  <2>1. m \in DOMAIN f /\ g[m] = f[m]
    BY <1>1, <1>2, SMT
  <2>2. CASE n \in DOMAIN f
    <3>1. g[n] = f[n]
      BY <1>1, <2>2
    <3> QED
      BY <2>1, <2>2, <3>1, <1>2 DEF Ordered
  <2>3. CASE n \notin DOMAIN f
    <3>1. g[n] = c
      BY <1>1, <2>3, SMT
    <3> QED
      BY <2>1, <3>1
  <2> QED
    BY <2>2, <2>3
<1> QED
  BY <1>2 DEF Ordered, g

\* Appending a chunk keeps what no chunk is.
LEMMA AppendTypes ==
  ASSUME NEW f \in Seq(Chunk), NEW c \in Chunk, NEW T,
         \A n \in DOMAIN f : f[n].type \notin T, c.type \notin T
  PROVE  \A n \in DOMAIN Append(f, c) : Append(f, c)[n].type \notin T
<1> DEFINE g == Append(f, c)
<1>1. /\ \A n \in DOMAIN f : g[n] = f[n]
      /\ g[Len(f) + 1] = c
      /\ DOMAIN f = 1..Len(f) /\ DOMAIN g = 1..(Len(f) + 1) /\ Len(f) \in Nat
  BY SMT
<1> HIDE DEF g
<1>2. ASSUME NEW n \in DOMAIN g PROVE g[n].type \notin T
  <2>1. CASE n \in DOMAIN f
    BY <1>1, <2>1
  <2>2. CASE n \notin DOMAIN f
    <3>1. n = Len(f) + 1
      BY <1>1, <2>2, SMT
    <3> QED
      BY <1>1, <3>1
  <2> QED
    BY <2>1, <2>2
<1> QED
  BY <1>2 DEF g

LEMMA AppendHeader ==
  ASSUME NEW f \in Seq(Chunk), NEW c \in Chunk,
         IF f = <<>> THEN c.type = "IHDR" ELSE HeaderFirst(f)
  PROVE  HeaderFirst(Append(f, c))
<1>1. CASE f = <<>>
  BY <1>1, SMT DEF HeaderFirst
<1>2. CASE f # <<>>
  <2>1. 1 \in DOMAIN f
    BY <1>2, SMT
  <2> QED
    BY <1>2, <2>1, SMT DEF HeaderFirst
<1> QED
  BY <1>1, <1>2

\* What libpng writes is in order already.
LEMMA BaseOrdered ==
  ASSUME NEW f \in Seq(Chunk), IsBase(f)
  PROVE  HeaderFirst(f) /\ Ordered(f)
BY SMT DEF IsBase, HeaderFirst, Ordered, OfBase, Early, EarlyTypes, Structural

\* A file that is saved joins files in order.
LEMMA SavedOneMore ==
  ASSUME NEW ss \in Seq(Seq(Chunk)), NEW f \in Seq(Chunk), HeaderFirst(f), Ordered(f),
         \A k \in DOMAIN ss : HeaderFirst(ss[k]) /\ Ordered(ss[k])
  PROVE  /\ Append(ss, f) \in Seq(Seq(Chunk)) /\ Append(ss, f) # <<>>
         /\ \A k \in DOMAIN Append(ss, f) :
              HeaderFirst(Append(ss, f)[k]) /\ Ordered(Append(ss, f)[k])
<1> DEFINE g == Append(ss, f)
<1>1. /\ g \in Seq(Seq(Chunk)) /\ g # <<>>
      /\ \A n \in DOMAIN ss : g[n] = ss[n]
      /\ g[Len(ss) + 1] = f
      /\ DOMAIN ss = 1..Len(ss) /\ DOMAIN g = 1..(Len(ss) + 1) /\ Len(ss) \in Nat
  <2> DEFINE S == Seq(Chunk)
  <2>1. ss \in Seq(S) /\ f \in S
    OBVIOUS
  <2> HIDE DEF S
  <2>2. /\ g \in Seq(S) /\ g # <<>>
        /\ \A n \in DOMAIN ss : g[n] = ss[n]
        /\ g[Len(ss) + 1] = f
        /\ Len(ss) \in Nat /\ DOMAIN ss = 1..Len(ss)
        /\ DOMAIN g = 1..(Len(ss) + 1)
    BY <2>1, AppendFacts
  <2> QED
    BY <2>2 DEF S
<1> HIDE DEF g
<1>2. ASSUME NEW k \in DOMAIN g PROVE HeaderFirst(g[k]) /\ Ordered(g[k])
  <2>1. CASE k \in DOMAIN ss
    BY <1>1, <2>1
  <2>2. CASE k \notin DOMAIN ss
    <3>1. k = Len(ss) + 1
      BY <1>1, <2>2, SMT
    <3> QED
      BY <1>1, <3>1
  <2> QED
    BY <2>1, <2>2
<1> QED
  BY <1>1, <1>2 DEF g

-----------------------------------------------------------------------------
LEMMA InitMeta == Init => MetaInv
<1> SUFFICES ASSUME Init PROVE MetaInv
  OBVIOUS
<1>1. PICK p \in Pictures : png = p.png /\ base = p.base /\ keep_sbit = p.keep_sbit
  BY DEF Init
<1>2. /\ png \in Seq(Chunk) /\ base \in Seq(Chunk) /\ keep_sbit \in BOOLEAN
      /\ IsBase(base)
  BY <1>1, MetaAssumption
<1>3. metadata \in Seq(Chunk) /\ \A n \in DOMAIN metadata : ~OfBase(metadata[n])
  <2>1. CASE metadata = <<>>
    BY <2>1, EmptyFile, SMT
  <2>2. CASE metadata \in Blocks
    BY <2>2, MetaAssumption
  <2> QED
    BY <2>1, <2>2 DEF Init
<1>4. TypeOK
  <2>1. 1 \in Nat \ {0}
    BY SMT
  <2> QED
    BY <1>2, <1>3, <2>1, EmptyFile, NoFiles, Zenon DEF Init, TypeOK
<1> QED
  BY <1>2, <1>3, <1>4, SMT
  DEF Init, MetaInv, AncillaryOnly, BufferPlaced, SavedPlaced, Injecting

LEMMA ExtractKeeps == MetaInv /\ (ExtractChunk \/ ExtractDone \/ LoadSaved) => MetaInv'
<1> SUFFICES ASSUME MetaInv, ExtractChunk \/ ExtractDone \/ LoadSaved PROVE MetaInv'
  OBVIOUS
<1> USE DEF MetaInv
<1>1. CASE ExtractChunk
  <2>1. /\ pc = "extract" /\ pc' = "extract"
        /\ UNCHANGED <<png, keep_sbit, base, metadata, early_done, inserted, saved, mpos>>
    BY <1>1 DEF ExtractChunk
  <2>2. png[pos] \in Chunk /\ pos' \in Nat \ {0}
    BY <1>1, SMT DEF ExtractChunk, MoreChunks, TypeOK
  <2>3. /\ bb' \in Seq(Chunk) /\ failed' \in BOOLEAN /\ starved' \in BOOLEAN
        /\ \A n \in DOMAIN bb' : ~OfBase(bb'[n])
    <3>1. CASE UNCHANGED <<bb, failed, starved>>
      BY <2>1, <3>1 DEF TypeOK, AncillaryOnly
    <3>2. CASE ~IsDroppedType(png[pos].type, keep_sbit)
                 /\ \E oom \in OutOfMemory : Put(png[pos], oom)
      <4>1. png[pos].type \notin Structural \cup {"PLTE", "tRNS"}
        BY <3>2, SMT DEF IsDroppedType, LayoutDependent
      <4>2. bb' = bb \/ bb' = Append(bb, png[pos])
        BY <3>2 DEF Put
      <4>3. failed' \in BOOLEAN /\ starved' \in BOOLEAN
        BY <3>2, MetaAssumption DEF Put, TypeOK
      <4>4. \A n \in DOMAIN bb : bb[n].type \notin Structural \cup {"PLTE", "tRNS"}
        BY <2>1 DEF AncillaryOnly, OfBase
      <4>5. bb \in Seq(Chunk)
        BY DEF TypeOK
      <4>6. \A n \in DOMAIN Append(bb, png[pos]) :
              Append(bb, png[pos])[n].type \notin Structural \cup {"PLTE", "tRNS"}
        BY <2>2, <4>1, <4>4, <4>5, AppendTypes
      <4>7. Append(bb, png[pos]) \in Seq(Chunk)
        BY <2>2, <4>5, SMT
      <4> QED
        BY <4>2, <4>3, <4>4, <4>5, <4>6, <4>7 DEF OfBase
    <3> QED
      BY <1>1, <3>1, <3>2 DEF ExtractChunk
  <2> QED
    BY <2>1, <2>2, <2>3 DEF TypeOK, AncillaryOnly, BufferPlaced, SavedPlaced, Injecting
<1>2. CASE ExtractDone
  <2>1. metadata' \in Seq(Chunk) /\ \A n \in DOMAIN metadata' : ~OfBase(metadata'[n])
    BY <1>2, SMT DEF ExtractDone, TypeOK, AncillaryOnly
  <2> QED
    BY <1>2, <2>1 DEF ExtractDone, TypeOK, AncillaryOnly, BufferPlaced, SavedPlaced,
                      Injecting, loopVars
<1>3. CASE LoadSaved
  <2>1. /\ png' \in Seq(Chunk) /\ metadata' = <<>> /\ bb' = <<>> /\ pos' = 1
        /\ pc' = "extract" /\ failed' = FALSE /\ keep_sbit' = TRUE
        /\ UNCHANGED <<base, saved, starved, mpos, early_done, inserted>>
    BY <1>3, SMT DEF LoadSaved, TypeOK
  <2>2. 1 \in Nat \ {0}
    BY SMT
  <2>3. TypeOK'
    BY <2>1, <2>2, EmptyFile, Zenon DEF TypeOK
  <2>4. AncillaryOnly'
    BY <2>1, SMT DEF AncillaryOnly
  <2> QED
    BY <2>1, <2>3, <2>4 DEF BufferPlaced, SavedPlaced, Injecting
<1> QED
  BY <1>1, <1>2, <1>3

LEMMA SaveKeeps == MetaInv /\ (Save \/ InjectEarly \/ InjectLate \/ EmitDone) => MetaInv'
<1> SUFFICES ASSUME MetaInv, Save \/ InjectEarly \/ InjectLate \/ EmitDone PROVE MetaInv'
  OBVIOUS
<1> USE DEF MetaInv
<1>0. 1 \in Nat \ {0}
  BY SMT
<1>1. CASE Save
  <2>1. UNCHANGED <<png, keep_sbit, base, metadata, starved>> /\ pc = "loaded"
    BY <1>1 DEF Save
  <2>2. CASE metadata = <<>>
    <3>1. pc' = "saved" /\ saved' = Append(saved, base) /\ UNCHANGED loopVars
      BY <1>1, <2>2 DEF Save
    <3>2. HeaderFirst(base) /\ Ordered(base)
      BY BaseOrdered DEF TypeOK
    <3>3. /\ saved' \in Seq(Seq(Chunk)) /\ saved' # <<>>
          /\ SavedPlaced'
      BY <3>1, <3>2, SavedOneMore DEF TypeOK, SavedPlaced
    <3>4. TypeOK'
      BY <2>1, <3>1, <3>3, Zenon DEF TypeOK, loopVars
    <3> QED
      BY <2>1, <3>1, <3>3, <3>4 DEF AncillaryOnly, BufferPlaced, Injecting
  <2>3. CASE metadata # <<>>
    <3>1. /\ pc' = "copy" /\ UNCHANGED saved
          /\ pos' = 1 /\ mpos' = 1 /\ bb' = <<>> /\ failed' = FALSE
          /\ early_done' = FALSE /\ inserted' = FALSE
      BY <1>1, <2>3 DEF Save
    <3>2. TypeOK'
      BY <1>0, <2>1, <3>1, EmptyFile, Zenon DEF TypeOK
    <3>3. BufferPlaced'
      BY <3>1, EmptyFile, SMT DEF BufferPlaced, Injecting, Ordered
    <3> QED
      BY <2>1, <3>1, <3>2, <3>3 DEF AncillaryOnly, SavedPlaced
  <2> QED
    BY <2>2, <2>3
<1>2. CASE InjectEarly
  <2>1. /\ pc = "copy" /\ pos <= Len(base) /\ EarlyDue
        /\ pc' = "early" /\ mpos' = 1 /\ early_done' = TRUE
        /\ UNCHANGED <<png, keep_sbit, base, metadata, saved, starved, pos, bb, failed, inserted>>
    BY <1>2 DEF InjectEarly
  <2>2. TypeOK'
    BY <1>0, <2>1, Zenon DEF TypeOK
  <2>3. pos # 1
    BY <2>1, SMT DEF EarlyDue, IsBase
  <2>4. pos \in 2..Len(base)
    BY <2>1, <2>3, SMT DEF TypeOK
  <2>5. BufferPlaced'
    BY <2>1, <2>4, Zenon DEF BufferPlaced, Injecting, EarlyDue
  <2> QED
    BY <2>1, <2>2, <2>5 DEF AncillaryOnly, SavedPlaced
<1>3. CASE InjectLate
  <2>1. /\ pc = "copy" /\ pos <= Len(base) /\ ~EarlyDue /\ LateDue
        /\ pc' = "late" /\ mpos' = 1 /\ inserted' = TRUE
        /\ UNCHANGED <<png, keep_sbit, base, metadata, saved, starved, pos, bb, failed, early_done>>
    BY <1>3 DEF InjectLate
  <2>2. early_done
    BY <2>1, Zenon DEF EarlyDue, LateDue
  <2>3. TypeOK'
    BY <1>0, <2>1, <2>2, Zenon DEF TypeOK
  <2>4. pos # 1
    BY <2>1, SMT DEF LateDue, IsBase
  <2>5. pos \in 2..Len(base)
    BY <2>1, <2>4, SMT DEF TypeOK
  <2>6. BufferPlaced'
    BY <2>1, <2>2, <2>5, Zenon DEF BufferPlaced, Injecting, LateDue
  <2> QED
    BY <2>1, <2>3, <2>6 DEF AncillaryOnly, SavedPlaced
<1>4. CASE EmitDone
  <2>1. /\ pc \in {"early", "late"}
        /\ pc' = IF pc = "early" THEN "copy" ELSE "put"
        /\ UNCHANGED <<png, keep_sbit, base, metadata, saved, starved, loopVars>>
    BY <1>4 DEF EmitDone
  <2>2. TypeOK'
    BY <2>1, Zenon DEF TypeOK, loopVars
  <2>3. BufferPlaced'
    BY <2>1, Zenon DEF BufferPlaced, Injecting, loopVars
  <2> QED
    BY <2>1, <2>2, <2>3 DEF AncillaryOnly, SavedPlaced, loopVars
<1> QED
  BY <1>1, <1>2, <1>3, <1>4

\* What a step that puts a chunk leaves of the buffer.
LEMMA PutCases ==
  ASSUME NEW c \in Chunk, MetaInv, \E oom \in OutOfMemory : Put(c, oom)
  PROVE  /\ bb' \in Seq(Chunk) /\ failed' \in BOOLEAN /\ starved' \in BOOLEAN
         /\ bb' = bb \/ bb' = Append(bb, c)
         /\ ~failed' => ~failed /\ bb' = Append(bb, c)
<1>1. PICK oom \in OutOfMemory : Put(c, oom)
  OBVIOUS
<1>2. oom \in BOOLEAN /\ failed \in BOOLEAN /\ starved \in BOOLEAN /\ bb \in Seq(Chunk)
  BY MetaAssumption DEF MetaInv, TypeOK
<1>3. Append(bb, c) \in Seq(Chunk)
  BY <1>2, SMT
<1>4. CASE failed \/ oom
  BY <1>1, <1>2, <1>4, Zenon DEF Put
<1>5. CASE ~(failed \/ oom)
  BY <1>1, <1>2, <1>3, <1>5, Zenon DEF Put
<1> QED
  BY <1>4, <1>5

LEMMA CopyKeeps == MetaInv /\ CopyChunk => MetaInv'
<1> SUFFICES ASSUME MetaInv, CopyChunk PROVE MetaInv'
  OBVIOUS
<1> USE DEF MetaInv
<1> DEFINE c == base[pos]
<1>1. /\ pc = "put" \/ (pc = "copy" /\ pos <= Len(base) /\ ~EarlyDue /\ ~LateDue)
      /\ \E oom \in OutOfMemory : Put(c, oom)
      /\ pos' = pos + 1 /\ pc' = "copy"
      /\ UNCHANGED <<png, keep_sbit, base, metadata, saved, mpos, early_done, inserted>>
  BY DEF CopyChunk
<1>2. pos \in DOMAIN base /\ c \in Chunk
  <2>1. pos \in 1..Len(base)
    BY <1>1, SMT DEF TypeOK, BufferPlaced, Injecting
  <2> QED
    BY <2>1, SMT DEF TypeOK
<1>3. OfBase(c) /\ ~Early(c)
  BY <1>2, SMT DEF IsBase, OfBase, Early, EarlyTypes, Structural
<1>4. /\ bb' \in Seq(Chunk) /\ failed' \in BOOLEAN /\ starved' \in BOOLEAN
      /\ bb' = bb \/ bb' = Append(bb, c)
      /\ ~failed' => ~failed /\ bb' = Append(bb, c)
  BY <1>1, <1>2, PutCases
<1>5. bb \in Seq(Chunk) /\ Ordered(bb)
  BY <1>1 DEF TypeOK, BufferPlaced, Injecting
<1>6. pos' \in Nat \ {0} /\ pos' # 1 /\ pos \in Nat \ {0}
  BY <1>1, SMT DEF TypeOK
<1>7. TypeOK'
  BY <1>1, <1>4, <1>6, Zenon DEF TypeOK
<1>8. Ordered(bb')
  BY <1>2, <1>3, <1>4, <1>5, AppendOrdered, Zenon
<1>9. ASSUME ~inserted' PROVE \A n \in DOMAIN bb' : bb'[n].type \notin {"IDAT"}
  <2>1. ~inserted /\ pc # "put"
    BY <1>1, <1>9, Zenon DEF BufferPlaced, Injecting
  <2>2. c.type \notin {"IDAT"}
    BY <1>1, <2>1, Zenon DEF LateDue
  <2>3. \A n \in DOMAIN bb : bb[n].type \notin {"IDAT"}
    BY <1>1, <2>1, Zenon DEF BufferPlaced, Injecting
  <2> QED
    BY <1>2, <1>4, <1>5, <2>2, <2>3, AppendTypes, Zenon
<1>10. ASSUME ~early_done' PROVE \A n \in DOMAIN bb' : bb'[n].type \notin {"PLTE", "IDAT"}
  <2>1. ~early_done /\ ~inserted /\ pc # "put"
    BY <1>1, <1>10, Zenon DEF BufferPlaced, Injecting, TypeOK
  <2>2. c.type \notin {"PLTE", "IDAT"}
    BY <1>1, <2>1, Zenon DEF EarlyDue
  <2>3. \A n \in DOMAIN bb : bb[n].type \notin {"PLTE", "IDAT"}
    BY <1>1, <2>1, Zenon DEF BufferPlaced, Injecting
  <2> QED
    BY <1>2, <1>4, <1>5, <2>2, <2>3, AppendTypes, Zenon
<1>11. ASSUME ~failed' PROVE HeaderFirst(bb')
  <2>1. ~failed /\ bb' = Append(bb, c)
    BY <1>4, <1>11
  <2>2. CASE pos = 1
    <3>1. bb = <<>> /\ c.type = "IHDR"
      BY <1>1, <2>2, SMT DEF BufferPlaced, Injecting, IsBase
    <3> QED
      BY <1>2, <1>5, <2>1, <3>1, AppendHeader, Zenon
  <2>3. CASE pos # 1
    <3>1. pos > 1
      BY <1>6, <2>3, SMT
    <3>2. HeaderFirst(bb)
      BY <1>1, <2>1, <3>1, Zenon DEF BufferPlaced, Injecting
    <3>3. bb # <<>>
      BY <3>2 DEF HeaderFirst
    <3> QED
      BY <1>2, <1>5, <2>1, <3>2, <3>3, AppendHeader, Zenon
  <2> QED
    BY <2>2, <2>3
<1>12. BufferPlaced'
  BY <1>1, <1>6, <1>8, <1>9, <1>10, <1>11, Zenon DEF BufferPlaced, Injecting
<1> QED
  BY <1>1, <1>7, <1>12 DEF AncillaryOnly, SavedPlaced

LEMMA RecordKeeps == MetaInv /\ EmitRecord => MetaInv'
<1> SUFFICES ASSUME MetaInv, EmitRecord PROVE MetaInv'
  OBVIOUS
<1> USE DEF MetaInv
<1> DEFINE c == metadata[mpos]
<1>1. /\ pc \in {"early", "late"} /\ MoreRecords
      /\ mpos' = mpos + 1
      /\ UNCHANGED <<pc, png, keep_sbit, base, metadata, saved, pos, early_done, inserted>>
  BY DEF EmitRecord
<1>2. mpos \in DOMAIN metadata /\ c \in Chunk /\ mpos' \in Nat \ {0}
  BY <1>1, SMT DEF MoreRecords, TypeOK
<1>3. ~OfBase(c)
  BY <1>2 DEF AncillaryOnly
<1>4. c.type \notin {"PLTE", "IDAT"} /\ c.type \notin {"IDAT"}
  BY <1>3, SMT DEF OfBase, Structural
<1>5. CASE UNCHANGED <<bb, failed, starved>>
  <2>1. TypeOK'
    BY <1>1, <1>2, <1>5, Zenon DEF TypeOK
  <2>2. BufferPlaced'
    BY <1>1, <1>5, Zenon DEF BufferPlaced, Injecting
  <2> QED
    BY <1>1, <1>5, <2>1, <2>2 DEF AncillaryOnly, SavedPlaced
<1>6. CASE MustPrecedePlte(c.type) = (pc = "early") /\ \E oom \in OutOfMemory : Put(c, oom)
  <2>1. /\ bb' \in Seq(Chunk) /\ failed' \in BOOLEAN /\ starved' \in BOOLEAN
        /\ bb' = bb \/ bb' = Append(bb, c)
        /\ ~failed' => ~failed /\ bb' = Append(bb, c)
    BY <1>2, <1>6, PutCases
  <2>2. bb \in Seq(Chunk) /\ Ordered(bb)
    BY <1>1, Zenon DEF TypeOK, BufferPlaced, Injecting
  <2>3. TypeOK'
    BY <1>1, <1>2, <2>1, Zenon DEF TypeOK
  <2>4. /\ \A n \in DOMAIN bb : bb[n].type # "IDAT"
        /\ pc = "early" => \A n \in DOMAIN bb : bb[n].type \notin {"PLTE", "IDAT"}
    BY <1>1, Zenon DEF BufferPlaced, Injecting
  <2>5. pc = "late" => ~Early(c)
    BY <1>6, SMT DEF MustPrecedePlte, Early
  <2>6. \A n \in DOMAIN bb : /\ bb[n].type = "IDAT" => OfBase(c)
                             /\ bb[n].type = "PLTE" => ~Early(c)
    BY <1>1, <2>4, <2>5, Zenon
  <2>7. Ordered(bb')
    BY <1>2, <2>1, <2>2, <2>6, AppendOrdered, Zenon
  <2>8. \A n \in DOMAIN bb' : bb'[n].type \notin {"IDAT"}
    BY <1>2, <1>4, <2>1, <2>2, <2>4, AppendTypes, Zenon
  <2>9. pc = "early" => \A n \in DOMAIN bb' : bb'[n].type \notin {"PLTE", "IDAT"}
    BY <1>2, <1>4, <2>1, <2>2, <2>4, AppendTypes, Zenon
  <2>10. early_done \/ pc = "early"
    BY <1>1, Zenon DEF BufferPlaced, Injecting, TypeOK
  <2>11. ASSUME ~failed' PROVE HeaderFirst(bb')
    <3>1. ~failed /\ bb' = Append(bb, c)
      BY <2>1, <2>11
    <3>2. pos > 1
      BY <1>1, SMT DEF BufferPlaced, Injecting
    <3>3. HeaderFirst(bb) /\ bb # <<>>
      BY <1>1, <3>1, <3>2, Zenon DEF BufferPlaced, Injecting, HeaderFirst
    <3> QED
      BY <1>2, <2>2, <3>1, <3>3, AppendHeader, Zenon
  <2>12. pos # 1
    BY <1>1, SMT DEF BufferPlaced, Injecting
  <2>13. BufferPlaced'
    BY <1>1, <2>7, <2>8, <2>9, <2>10, <2>11, <2>12, Zenon DEF BufferPlaced, Injecting
  <2> QED
    BY <1>1, <2>3, <2>13 DEF AncillaryOnly, SavedPlaced
<1> QED
  BY <1>5, <1>6 DEF EmitRecord

LEMMA DoneKeeps == MetaInv /\ InjectDone => MetaInv'
<1> SUFFICES ASSUME MetaInv, InjectDone PROVE MetaInv'
  OBVIOUS
<1> USE DEF MetaInv
<1> DEFINE f == IF failed THEN base ELSE bb
<1>1. /\ pc = "copy" /\ pos > Len(base)
      /\ saved' = Append(saved, f) /\ pc' = "saved"
      /\ UNCHANGED <<png, keep_sbit, base, metadata, starved, loopVars>>
  BY DEF InjectDone
<1>2. pos > 1
  BY <1>1, SMT DEF IsBase, TypeOK
<1>3. f \in Seq(Chunk) /\ HeaderFirst(f) /\ Ordered(f)
  <2>1. CASE failed
    BY <2>1, BaseOrdered DEF TypeOK
  <2>2. CASE ~failed
    BY <1>1, <1>2, <2>2, Zenon DEF TypeOK, BufferPlaced, Injecting
  <2> QED
    BY <2>1, <2>2
<1>4. saved' \in Seq(Seq(Chunk)) /\ saved' # <<>> /\ SavedPlaced'
  <2> HIDE DEF f
  <2> QED
    BY <1>1, <1>3, SavedOneMore DEF TypeOK, SavedPlaced
<1>5. TypeOK'
  BY <1>1, <1>4, Zenon DEF TypeOK, loopVars
<1> QED
  BY <1>1, <1>4, <1>5 DEF AncillaryOnly, BufferPlaced, Injecting

-----------------------------------------------------------------------------
\* The inductive invariant, and with it the types.
THEOREM MetaInvariant == Spec => []MetaInv
<1>1. MetaInv /\ UNCHANGED vars => MetaInv'
  BY DEF MetaInv, TypeOK, AncillaryOnly, BufferPlaced, SavedPlaced, Injecting, vars, loopVars
<1>2. MetaInv /\ [Next]_vars => MetaInv'
  BY <1>1, ExtractKeeps, SaveKeeps, CopyKeeps, RecordKeeps, DoneKeeps DEF Next
<1> QED
  BY InitMeta, <1>2, PTL DEF Spec

\* In every file that is saved the ancillary chunks lie between the header and
\* the data, and those about colour before the palette.
THEOREM ChunksAreWellPlaced == Spec => []WellPlaced
<1>1. MetaInv => WellPlaced
  <2> SUFFICES ASSUME MetaInv, pc = "saved" PROVE WellPlaced
    BY DEF WellPlaced
  <2>1. saved \in Seq(Seq(Chunk)) /\ saved # <<>>
    BY DEF MetaInv, TypeOK
  <2>2. Len(saved) \in DOMAIN saved
    <3> DEFINE S == Seq(Chunk)
    <3>1. saved \in Seq(S)
      BY <2>1
    <3> HIDE DEF S
    <3> QED
      BY <2>1, <3>1, SMT
  <2> QED
    BY <2>2 DEF MetaInv, SavedPlaced, WellPlaced
<1> QED
  BY <1>1, MetaInvariant, PTL

------------------------------------------------------------------------------
(* The records in the pictures that are saved                                *)

\* Sequences put together, and parts of one.
LEMMA Joined ==
  ASSUME NEW S, NEW x \in Seq(S), NEW y \in Seq(S), NEW c \in S
  PROVE  /\ x \o y \in Seq(S) /\ Len(x \o y) = Len(x) + Len(y)
         /\ x \o Append(y, c) = Append(x \o y, c) /\ Append(y, c) \in Seq(S)
         /\ x \o <<>> = x /\ <<>> \o x = x /\ <<>> \in Seq(S)
         /\ \A n \in 1..Len(x) : (x \o y)[n] = x[n]
         /\ \A n \in 1..Len(y) : (x \o y)[Len(x) + n] = y[n]
<1>1. /\ x \o y \in Seq(S) /\ Len(x \o y) = Len(x) + Len(y)
      /\ \A n \in 1..Len(x) : (x \o y)[n] = x[n]
      /\ \A n \in 1..Len(y) : (x \o y)[Len(x) + n] = y[n]
  BY SMT
<1>2. x \o <<>> = x /\ <<>> \o x = x /\ <<>> \in Seq(S) /\ Append(y, c) \in Seq(S)
  BY SMT
<1>3. x \o Append(y, c) = Append(x \o y, c)
  BY SMT
<1> QED
  BY <1>1, <1>2, <1>3

LEMMA PartOf ==
  ASSUME NEW S, NEW b \in Seq(S), NEW m \in Nat \ {0}, NEW n \in Nat, n <= Len(b)
  PROVE  /\ SubSeq(b, m, n) \in Seq(S)
         /\ Len(SubSeq(b, m, n)) = IF m <= n THEN (n - m) + 1 ELSE 0
         /\ n < m => SubSeq(b, m, n) = <<>>
         /\ \A k \in 1..Len(SubSeq(b, m, n)) : SubSeq(b, m, n)[k] = b[(m + k) - 1]
         /\ SubSeq(b, 1, Len(b)) = b
BY SMT

LEMMA PartGrows ==
  ASSUME NEW S, NEW b \in Seq(S), NEW m \in Nat \ {0}, NEW n \in Nat, n < Len(b), m <= n + 1
  PROVE  SubSeq(b, m, n + 1) = Append(SubSeq(b, m, n), b[n + 1])
BY SMT

\* Places are finite sets of numbers.
Places(f, group) == { n \in 1..Len(f) : Kind(f[n]) = group }

LEMMA PlacesAre ==
  ASSUME NEW f \in Seq(Chunk), NEW group
  PROVE  /\ Places(f, group) \in SUBSET Nat /\ IsFiniteSet(Places(f, group))
         /\ Places(f, group) \subseteq 1..Len(f)
         /\ Cardinality(Places(f, group)) \in Nat
         /\ OfKind(f, group) = [n \in 1..Cardinality(Places(f, group)) |-> f[Nth(Places(f, group), n)]]
<1>1. Len(f) \in Nat
  OBVIOUS
<1>2. IsFiniteSet(1..Len(f))
  BY <1>1, FS_Interval
<1>3. Places(f, group) \subseteq 1..Len(f) /\ Places(f, group) \in SUBSET Nat
  BY <1>1 DEF Places
<1>4. IsFiniteSet(Places(f, group)) /\ Cardinality(Places(f, group)) \in Nat
  BY <1>2, <1>3, FS_Subset, FS_CardinalityType
<1> QED
  BY <1>3, <1>4, Zenon DEF OfKind, Places, Those

\* What is picked is of its group and comes from the file.
LEMMA KindPicks ==
  ASSUME NEW f \in Seq(Chunk), NEW group
  PROVE  /\ OfKind(f, group) \in Seq(Chunk)
         /\ Len(OfKind(f, group)) = Cardinality(Places(f, group))
         /\ \A n \in 1..Len(OfKind(f, group)) :
              \E m \in 1..Len(f) : OfKind(f, group)[n] = f[m] /\ Kind(f[m]) = group
<1> DEFINE P == Places(f, group)
           c == Cardinality(P)
<1>1. /\ P \in SUBSET Nat /\ IsFiniteSet(P) /\ P \subseteq 1..Len(f) /\ c \in Nat
      /\ OfKind(f, group) = [n \in 1..c |-> f[Nth(P, n)]]
  BY PlacesAre
<1>2. \A n \in 1..c : Nth(P, n) \in P
  BY <1>1, NthWorks
<1>3. \A m \in P : m \in 1..Len(f) /\ f[m] \in Chunk /\ Kind(f[m]) = group
  BY DEF Places
<1> HIDE DEF P, c
<1>4. \A n \in 1..c : f[Nth(P, n)] \in Chunk
  BY <1>2, <1>3
<1>5. OfKind(f, group) \in Seq(Chunk) /\ Len(OfKind(f, group)) = c
  <2> DEFINE x == OfKind(f, group)
             C == Chunk
  <2>1. x = [n \in 1..c |-> f[Nth(P, n)]] /\ \A n \in 1..c : f[Nth(P, n)] \in C
    BY <1>1, <1>4
  <2> HIDE DEF x, C
  <2>2. x \in [1..c -> C]
    BY <2>1
  <2>3. x \in Seq(C) /\ Len(x) = c
    BY <1>1, <2>2
  <2> QED
    BY <2>3 DEF x, C
<1>6. \A n \in 1..c : OfKind(f, group)[n] = f[Nth(P, n)]
  BY <1>1
<1> QED
  BY <1>2, <1>3, <1>5, <1>6 DEF c, P

LEMMA KindOfNone == \A group : OfKind(<<>>, group) = <<>>
<1> SUFFICES ASSUME NEW group PROVE OfKind(<<>>, group) = <<>>
  OBVIOUS
<1>1. <<>> \in Seq(Chunk) /\ Len(<<>>) = 0
  OBVIOUS
<1>2. Places(<<>>, group) = {}
  BY <1>1 DEF Places
<1>3. Len(OfKind(<<>>, group)) = 0 /\ OfKind(<<>>, group) \in Seq(Chunk)
  BY <1>1, <1>2, KindPicks, FS_EmptySet
<1> QED
  BY <1>3, SMT

\* One more chunk.
LEMMA KindGrows ==
  ASSUME NEW f \in Seq(Chunk), NEW c \in Chunk, NEW group
  PROVE  OfKind(Append(f, c), group) = IF Kind(c) = group THEN Append(OfKind(f, group), c)
                                                        ELSE OfKind(f, group)
<1> DEFINE g == Append(f, c)
           P == Places(f, group)
           Q == Places(g, group)
           m == Cardinality(P)
           e == Len(f) + 1
<1>1. /\ g \in Seq(Chunk) /\ Len(g) = e /\ Len(f) \in Nat /\ e \in Nat
      /\ g[e] = c /\ \A n \in 1..Len(f) : g[n] = f[n]
  BY SMT
<1>2. /\ P \in SUBSET Nat /\ IsFiniteSet(P) /\ P \subseteq 1..Len(f) /\ m \in Nat
      /\ OfKind(f, group) = [n \in 1..m |-> f[Nth(P, n)]]
  BY PlacesAre
<1> HIDE DEF g
<1>3. OfKind(g, group) = [n \in 1..Cardinality(Q) |-> g[Nth(Q, n)]]
  BY <1>1, PlacesAre
<1>4. \A n \in 1..m : Nth(P, n) \in P /\ Nth(P, n) \in 1..Len(f)
  BY <1>2, NthWorks
<1>5. 1..e = (1..Len(f)) \cup {e} /\ e \notin 1..Len(f)
  BY <1>1
<1>6. CASE Kind(c) = group
  <2>1. Q = P \cup {e}
    BY <1>1, <1>5, <1>6, Zenon DEF Places
  <2>2. \A x \in P : x < e
    BY <1>1, <1>2
  <2> HIDE DEF P, Q, m, e
  <2>3. /\ Cardinality(P \cup {e}) = Cardinality(P) + 1 /\ Nth(P \cup {e}, Cardinality(P) + 1) = e
        /\ \A n \in 1..Cardinality(P) : Nth(P \cup {e}, n) = Nth(P, n)
    BY <1>1, <1>2, <2>2, NthGrown
  <2>4. /\ Cardinality(Q) = m + 1 /\ Nth(Q, m + 1) = e
        /\ \A n \in 1..m : Nth(Q, n) = Nth(P, n)
    BY <2>1, <2>3 DEF m
  <2> DEFINE F == [n \in 1..(m + 1) |-> f[Nth(P, n)]]
             G == [n \in 1..(m + 1) |-> g[Nth(Q, n)]]
  <2>5. \A n \in 1..m : G[n] = F[n] /\ n \in 1..(m + 1)
    <3>1. \A n \in 1..m : n \in 1..(m + 1)
      BY <1>2
    <3>2. \A n \in 1..m : g[Nth(Q, n)] = f[Nth(P, n)]
      BY <1>1, <1>4, <2>4
    <3> QED
      BY <3>1, <3>2
  <2>6. G[m + 1] = c
    <3>1. m + 1 \in 1..(m + 1)
      BY <1>2
    <3> QED
      BY <1>1, <2>4, <3>1
  <2>7. OfKind(f, group) = [n \in 1..m |-> F[n]]
    BY <1>2, <2>5
  <2>8. OfKind(g, group) = [n \in 1..(m + 1) |-> G[n]]
    BY <1>3, <2>4
  <2> HIDE DEF F, G
  <2> DEFINE x == OfKind(f, group)
  <2>9. Append(x, G[m + 1]) = [n \in 1..(m + 1) |-> G[n]]
    <3>1. x = [n \in 1..m |-> F[n]] /\ m \in Nat /\ \A n \in 1..m : G[n] = F[n]
      BY <1>2, <2>5, <2>7
    <3> HIDE DEF x
    <3> QED
      BY <3>1, SeqAppended
  <2> QED
    BY <1>6, <2>6, <2>8, <2>9 DEF g
<1>7. CASE Kind(c) # group
  <2>1. Q = P
    BY <1>1, <1>5, <1>7, Zenon DEF Places
  <2>2. \A n \in 1..m : g[Nth(P, n)] = f[Nth(P, n)]
    BY <1>1, <1>4
  <2> HIDE DEF P, Q, m, e
  <2>3. OfKind(g, group) = [n \in 1..m |-> g[Nth(P, n)]]
    BY <1>3, <2>1 DEF m
  <2>4. [n \in 1..m |-> g[Nth(P, n)]] = [n \in 1..m |-> f[Nth(P, n)]]
    BY <2>2
  <2> QED
    BY <1>2, <1>7, <2>3, <2>4 DEF g
<1> QED
  BY <1>6, <1>7

\* Two files put together: first for the first n chunks of the second.
LEMMA KindJoins ==
  \A f, h \in Seq(Chunk) : \A group :
    OfKind(f \o h, group) = OfKind(f, group) \o OfKind(h, group)
<1> SUFFICES ASSUME NEW f \in Seq(Chunk), NEW h \in Seq(Chunk), NEW group
             PROVE  OfKind(f \o h, group) = OfKind(f, group) \o OfKind(h, group)
  OBVIOUS
<1> DEFINE Holds(n) == OfKind(f \o SubSeq(h, 1, n), group)
                         = OfKind(f, group) \o OfKind(SubSeq(h, 1, n), group)
           N == { n \in 0..Len(h) : ~Holds(n) }
<1>0. Len(h) \in Nat
  OBVIOUS
<1>1. N = {}
  <2> SUFFICES ASSUME N # {} PROVE FALSE
    OBVIOUS
  <2>1. N \in SUBSET Nat
    OBVIOUS
  <2> HIDE DEF N
  <2>2. PICK n \in N : \A x \in N : n <= x
    BY <2>1, LeastOf
  <2>3. n \in 0..Len(h) /\ ~Holds(n)
    BY <2>2 DEF N
  <2>4. CASE n = 0
    <3>1. SubSeq(h, 1, 0) = <<>>
      BY PartOf, <1>0
    <3>2. f \o <<>> = f /\ OfKind(f, group) \o <<>> = OfKind(f, group)
      <4>1. OfKind(f, group) \in Seq(Chunk)
        BY KindPicks
      <4> QED
        BY <4>1, SMT
    <3> QED
      BY <2>3, <2>4, <3>1, <3>2, KindOfNone
  <2>5. CASE n # 0
    <3> DEFINE k == n - 1
               x == SubSeq(h, 1, k)
               c == h[n]
    <3>1. k \in 0..Len(h) /\ k \in Nat /\ k < Len(h) /\ 1 <= k + 1 /\ k + 1 = n /\ ~(n <= k)
          /\ n \in 1..Len(h)
      BY <2>3, <2>5, <1>0
    <3>2. Holds(k)
      BY <2>2, <3>1 DEF N
    <3>3. SubSeq(h, 1, n) = Append(x, c) /\ x \in Seq(Chunk) /\ c \in Chunk
      <4>1. SubSeq(h, 1, k + 1) = Append(SubSeq(h, 1, k), h[k + 1])
        BY <3>1, PartGrows
      <4>2. x \in Seq(Chunk)
        BY <3>1, PartOf
      <4>3. c \in Chunk
        BY <3>1
      <4> HIDE DEF k
      <4> QED
        BY <3>1, <4>1, <4>2, <4>3
    <3> HIDE DEF x, c, k
    <3>4. f \o x \in Seq(Chunk) /\ f \o Append(x, c) = Append(f \o x, c)
      BY <3>3, Joined
    <3>5. OfKind(Append(f \o x, c), group) = IF Kind(c) = group THEN Append(OfKind(f \o x, group), c)
                                                              ELSE OfKind(f \o x, group)
      BY <3>3, <3>4, KindGrows
    <3>6. OfKind(Append(x, c), group) = IF Kind(c) = group THEN Append(OfKind(x, group), c)
                                                         ELSE OfKind(x, group)
      BY <3>3, KindGrows
    <3>7. OfKind(f \o x, group) = OfKind(f, group) \o OfKind(x, group)
      BY <3>2 DEF x
    <3>8. OfKind(f, group) \o Append(OfKind(x, group), c)
            = Append(OfKind(f, group) \o OfKind(x, group), c)
      BY <3>3, KindPicks, Joined, SMTT(30)
    <3>9. OfKind(f \o Append(x, c), group) = OfKind(f, group) \o OfKind(Append(x, c), group)
      BY <3>4, <3>5, <3>6, <3>7, <3>8, Zenon
    <3> QED
      BY <2>3, <3>3, <3>9
  <2> QED
    BY <2>4, <2>5
<1>2. Holds(Len(h))
  BY <1>0, <1>1
<1>3. SubSeq(h, 1, Len(h)) = h
  BY <1>0, PartOf
<1> QED
  BY <1>2, <1>3

\* A file of one group.
OneKind(f, group) == \A n \in 1..Len(f) : Kind(f[n]) = group

LEMMA KindOfOne ==
  ASSUME NEW f \in Seq(Chunk), NEW group, OneKind(f, group)
  PROVE  OfKind(f, group) = f /\ \A other : other # group => OfKind(f, other) = <<>>
<1>1. Places(f, group) = 1..Len(f) /\ Len(f) \in Nat
  BY DEF Places, OneKind
<1>2. OfKind(f, group) = Those(f, 1..Len(f))
  BY <1>1, Zenon DEF OfKind, Places
<1>3. Those(f, 1..Len(f)) = [n \in 1..Len(f) |-> f[n]]
  BY <1>1, ThoseAll
<1>4. f = [n \in 1..Len(f) |-> f[n]]
  OBVIOUS
<1>5. ASSUME NEW other, other # group PROVE OfKind(f, other) = <<>>
  <2>1. Places(f, other) = {}
    BY <1>5 DEF Places, OneKind
  <2>3. Cardinality(Places(f, other)) = 0
    BY <2>1, FS_EmptySet
  <2>2. Len(OfKind(f, other)) = 0 /\ OfKind(f, other) \in Seq(Chunk)
    BY <2>3, KindPicks
  <2> QED
    BY <2>2, SMT
<1> QED
  BY <1>2, <1>3, <1>4, <1>5

LEMMA KindIsOne ==
  ASSUME NEW f \in Seq(Chunk), NEW group
  PROVE  OneKind(OfKind(f, group), group)
<1> SUFFICES ASSUME NEW n \in 1..Len(OfKind(f, group)) PROVE Kind(OfKind(f, group)[n]) = group
  BY DEF OneKind
<1>1. PICK m \in 1..Len(f) : OfKind(f, group)[n] = f[m] /\ Kind(f[m]) = group
  BY KindPicks
<1> QED
  BY <1>1

LEMMA JoinsGrown ==
  ASSUME NEW S, NEW x \in Seq(S), NEW y \in Seq(S), NEW c \in S
  PROVE  x \o Append(y, c) = Append(x \o y, c)
BY SMT

\* The first chunk of some types, when there is one.
LEMMA FirstIs ==
  ASSUME NEW f \in Seq(Chunk), NEW T, \E n \in DOMAIN f : f[n].type \in T
  PROVE  /\ FirstOf(f, T) \in 1..Len(f) /\ f[FirstOf(f, T)].type \in T
         /\ \A m \in 1..(FirstOf(f, T) - 1) : f[m].type \notin T
<1> DEFINE N == { n \in DOMAIN f : f[n].type \in T }
<1>1. DOMAIN f = 1..Len(f) /\ Len(f) \in Nat
  OBVIOUS
<1>2. N \in SUBSET Nat /\ N # {}
  BY <1>1
<1> HIDE DEF N
<1>3. PICK n \in N : \A x \in N : n <= x
  BY <1>2, LeastOf
<1>4. n \in DOMAIN f /\ f[n].type \in T
  BY <1>3 DEF N
<1>5. ASSUME NEW m \in 1..(n - 1) PROVE f[m].type \notin T
  <2>1. m \in DOMAIN f /\ ~(n <= m)
    BY <1>1, <1>4
  <2> QED
    BY <1>3, <2>1 DEF N
<1>6. \E k \in DOMAIN f : f[k].type \in T /\ \A m \in 1..(k - 1) : f[m].type \notin T
  BY <1>4, <1>5
<1> QED
  BY <1>1, <1>6, Zenon DEF FirstOf

\* Where the palette, or the data, and the data begin in what libpng writes.
Begins(b, p, i) ==
  /\ p \in 2..Len(b) /\ i \in p..Len(b)
  /\ b[p].type \in {"PLTE", "IDAT"} /\ \A m \in 1..(p - 1) : b[m].type \notin {"PLTE", "IDAT"}
  /\ b[i].type = "IDAT" /\ \A m \in 1..(i - 1) : b[m].type # "IDAT"

LEMMA BaseBegins ==
  ASSUME NEW b \in Seq(Chunk), IsBase(b)
  PROVE  Begins(b, FirstOf(b, {"PLTE", "IDAT"}), FirstOf(b, {"IDAT"}))
<1> DEFINE p == FirstOf(b, {"PLTE", "IDAT"})
           i == FirstOf(b, {"IDAT"})
<1>1. PICK n \in DOMAIN b : b[n].type = "IDAT"
  BY DEF IsBase
<1>2. /\ p \in 1..Len(b) /\ b[p].type \in {"PLTE", "IDAT"}
      /\ \A m \in 1..(p - 1) : b[m].type \notin {"PLTE", "IDAT"}
  BY <1>1, FirstIs
<1>3. i \in 1..Len(b) /\ b[i].type \in {"IDAT"} /\ \A m \in 1..(i - 1) : b[m].type \notin {"IDAT"}
  BY <1>1, FirstIs
<1>4. b[1].type = "IHDR" /\ Len(b) \in Nat
  BY DEF IsBase
<1> HIDE DEF p, i
<1>5. p # 1
  BY <1>2, <1>4
<1>6. ~(i < p)
  <2>1. i < p => i \in 1..(p - 1)
    BY <1>2, <1>3
  <2> QED
    BY <1>2, <1>3, <2>1
<1>7. p \in 2..Len(b) /\ i \in p..Len(b)
  BY <1>2, <1>3, <1>4, <1>5, <1>6
<1> QED
  BY <1>2, <1>3, <1>7 DEF Begins, p, i

\* The chunks written so far, when it is known where the palette and the data begin.
FilledIn(b, n, p, i, early, late) ==
  (((SubSeq(b, 1, IF n < p THEN n ELSE p - 1) \o early)
      \o SubSeq(b, p, IF n < i THEN n ELSE i - 1)) \o late) \o SubSeq(b, i, n)

LEMMA InjectedIs ==
  ASSUME NEW b, NEW n, NEW early, NEW late
  PROVE  Injected(b, n, early, late)
           = FilledIn(b, n, FirstOf(b, {"PLTE", "IDAT"}), FirstOf(b, {"IDAT"}), early, late)
BY Zenon DEF Injected, FilledIn

Setting(b, n, p, i) ==
  /\ b \in Seq(Chunk) /\ n \in 0..Len(b) /\ p \in 2..Len(b) /\ i \in p..Len(b)

\* Its five parts.
LEMMA InjectParts ==
  ASSUME NEW b, NEW n, NEW p, NEW i, Setting(b, n, p, i)
  PROVE  /\ SubSeq(b, 1, IF n < p THEN n ELSE p - 1) \in Seq(Chunk)
         /\ SubSeq(b, p, IF n < i THEN n ELSE i - 1) \in Seq(Chunk)
         /\ SubSeq(b, i, n) \in Seq(Chunk)
         /\ n < p => SubSeq(b, p, IF n < i THEN n ELSE i - 1) = <<>>
         /\ n < i => SubSeq(b, i, n) = <<>>
<1> USE DEF Setting
<1>1. /\ b \in Seq(Chunk) /\ Len(b) \in Nat /\ n \in Nat /\ n <= Len(b)
      /\ p \in Nat \ {0} /\ i \in Nat \ {0} /\ p <= i /\ i <= Len(b) /\ i - 1 \in Nat /\ p - 1 \in Nat
  OBVIOUS
<1>2. n < p => SubSeq(b, p, n) = <<>> /\ n < i
  BY <1>1, PartOf
<1>3. n < i => SubSeq(b, i, n) = <<>>
  BY <1>1, PartOf
<1>4. \A x \in Nat \ {0} : \A y \in Nat : y <= Len(b) => SubSeq(b, x, y) \in Seq(Chunk)
  BY <1>1, PartOf
<1>5. /\ (IF n < p THEN n ELSE p - 1) \in Nat /\ (IF n < p THEN n ELSE p - 1) <= Len(b)
      /\ (IF n < i THEN n ELSE i - 1) \in Nat /\ (IF n < i THEN n ELSE i - 1) <= Len(b)
  BY <1>1
<1> HIDE DEF Setting
<1>6. 1 \in Nat \ {0}
  OBVIOUS
<1> QED
  BY <1>1, <1>2, <1>3, <1>4, <1>5, <1>6, Zenon

\* One more of libpng's chunks.
LEMMA InjectCopies ==
  ASSUME NEW b, NEW n, NEW p, NEW i, Setting(b, n, p, i), n < Len(b),
         NEW early \in Seq(Chunk), NEW late \in Seq(Chunk),
         n + 1 < p => early = <<>>, n + 1 < i => late = <<>>
  PROVE  FilledIn(b, n + 1, p, i, early, late) = Append(FilledIn(b, n, p, i, early, late), b[n + 1])
<1> DEFINE A(k) == SubSeq(b, 1, IF k < p THEN k ELSE p - 1)
           B(k) == SubSeq(b, p, IF k < i THEN k ELSE i - 1)
           C(k) == SubSeq(b, i, k)
           S == Chunk
           c == b[n + 1]
<1>1. /\ b \in Seq(Chunk) /\ Len(b) \in Nat /\ n \in Nat /\ n + 1 \in 1..Len(b) /\ n < Len(b)
      /\ p \in Nat \ {0} /\ i \in Nat \ {0} /\ p <= i /\ i <= Len(b) /\ 1 <= n + 1 /\ 1 \in Nat \ {0}
      /\ c \in S /\ n + 1 \in 0..Len(b)
  BY DEF Setting
<1>2. Setting(b, n + 1, p, i)
  BY <1>1 DEF Setting
<1>3. /\ A(n) \in Seq(S) /\ B(n) \in Seq(S) /\ C(n) \in Seq(S)
      /\ n < p => B(n) = <<>>
      /\ n < i => C(n) = <<>>
      /\ A(n + 1) \in Seq(S) /\ B(n + 1) \in Seq(S) /\ C(n + 1) \in Seq(S)
      /\ n + 1 < p => B(n + 1) = <<>>
      /\ n + 1 < i => C(n + 1) = <<>>
  BY <1>1, <1>2, InjectParts
<1>4. \A m \in Nat \ {0} : m <= n + 1 => SubSeq(b, m, n + 1) = Append(SubSeq(b, m, n), c)
  BY <1>1, PartGrows
<1>5. CASE n + 1 < p
  <2>1. A(n + 1) = Append(A(n), c)
    <3>1. A(n + 1) = SubSeq(b, 1, n + 1) /\ A(n) = SubSeq(b, 1, n)
      BY <1>1, <1>5
    <3> QED
      BY <1>1, <1>4, <3>1
  <2>2. /\ early = <<>> /\ late = <<>> /\ B(n) = <<>> /\ C(n) = <<>>
        /\ B(n + 1) = <<>> /\ C(n + 1) = <<>>
    BY <1>1, <1>3, <1>5
  <2> HIDE DEF A, B, C, c, S
  <2>3. \A x \in Seq(S) : x \o <<>> = x
    BY SMT
  <2>4. Append(A(n), c) \in Seq(S)
    BY <1>1, <1>3
  <2>5. /\ FilledIn(b, n, p, i, early, late) = A(n)
        /\ FilledIn(b, n + 1, p, i, early, late) = A(n + 1)
    BY <1>3, <2>2, <2>3, Zenon DEF FilledIn, A, B, C
  <2> QED
    BY <2>1, <2>5 DEF c
<1>6. CASE ~(n + 1 < p) /\ n + 1 < i
  <2>1. B(n + 1) = Append(B(n), c) /\ A(n + 1) = A(n)
    <3>1. B(n + 1) = SubSeq(b, p, n + 1) /\ B(n) = SubSeq(b, p, n) /\ p <= n + 1
      BY <1>1, <1>6
    <3>2. A(n + 1) = A(n)
      <4>1. (IF n + 1 < p THEN n + 1 ELSE p - 1) = (IF n < p THEN n ELSE p - 1)
        BY <1>1, <1>6
      <4> QED
        BY <4>1
    <3> QED
      BY <1>1, <1>4, <3>1, <3>2
  <2>2. late = <<>> /\ C(n) = <<>> /\ C(n + 1) = <<>>
    BY <1>1, <1>3, <1>6
  <2> HIDE DEF A, B, C, c, S
  <2>3. \A x \in Seq(S) : x \o <<>> = x
    BY SMT
  <2>4. A(n) \o early \in Seq(S)
    BY <1>3 DEF S
  <2>5. (A(n) \o early) \o Append(B(n), c) = Append((A(n) \o early) \o B(n), c)
    <3>1. c \in S
      BY <1>1
    <3>2. B(n) \in Seq(S)
      BY <1>3
    <3> QED
      BY <2>4, <3>1, <3>2, JoinsGrown
  <2>6. (A(n) \o early) \o B(n) \in Seq(S) /\ (A(n) \o early) \o B(n + 1) \in Seq(S)
    BY <1>3, <2>4
  <2>7. /\ FilledIn(b, n, p, i, early, late) = (A(n) \o early) \o B(n)
        /\ FilledIn(b, n + 1, p, i, early, late) = (A(n + 1) \o early) \o B(n + 1)
    BY <2>1, <2>2, <2>3, <2>6, Zenon DEF FilledIn, A, B, C
  <2> QED
    BY <2>1, <2>5, <2>7 DEF c
<1>7. CASE ~(n + 1 < i)
  <2>1. C(n + 1) = Append(C(n), c) /\ A(n + 1) = A(n) /\ B(n + 1) = B(n)
    <3>1. i <= n + 1
      BY <1>1, <1>7
    <3>2. /\ (IF n + 1 < p THEN n + 1 ELSE p - 1) = (IF n < p THEN n ELSE p - 1)
          /\ (IF n + 1 < i THEN n + 1 ELSE i - 1) = (IF n < i THEN n ELSE i - 1)
      BY <1>1, <1>7
    <3> QED
      BY <1>1, <1>4, <3>1, <3>2
  <2> DEFINE X == ((A(n) \o early) \o B(n)) \o late
  <2> HIDE DEF A, B, C, c, S
  <2>2. A(n) \o early \in Seq(S)
    BY <1>3 DEF S
  <2>3. (A(n) \o early) \o B(n) \in Seq(S)
    BY <1>3, <2>2
  <2>4. X \in Seq(S)
    BY <2>3 DEF S
  <2> HIDE DEF X
  <2>5. X \o Append(C(n), c) = Append(X \o C(n), c)
    <3>1. c \in S
      BY <1>1
    <3>2. C(n) \in Seq(S)
      BY <1>3
    <3> QED
      BY <2>4, <3>1, <3>2, JoinsGrown
  <2>6. /\ FilledIn(b, n, p, i, early, late) = X \o C(n)
        /\ FilledIn(b, n + 1, p, i, early, late) = X \o C(n + 1)
    BY <2>1, Zenon DEF FilledIn, A, B, C, X
  <2> QED
    BY <2>1, <2>5, <2>6 DEF c
<1> QED
  BY <1>5, <1>6, <1>7

\* One more record, before the palette or before the data.
LEMMA InjectPuts ==
  ASSUME NEW b, NEW p, NEW i, Setting(b, p - 1, p, i), Setting(b, i - 1, p, i),
         NEW early \in Seq(Chunk), NEW late \in Seq(Chunk), NEW c \in Chunk
  PROVE  /\ FilledIn(b, p - 1, p, i, Append(early, c), <<>>)
              = Append(FilledIn(b, p - 1, p, i, early, <<>>), c)
         /\ FilledIn(b, i - 1, p, i, early, Append(late, c))
              = Append(FilledIn(b, i - 1, p, i, early, late), c)
<1> DEFINE A(k) == SubSeq(b, 1, IF k < p THEN k ELSE p - 1)
           B(k) == SubSeq(b, p, IF k < i THEN k ELSE i - 1)
           C(k) == SubSeq(b, i, k)
           S == Chunk
           a == p - 1
           z == i - 1
<1>1. p \in Nat /\ i \in Nat /\ p <= i /\ a < p /\ a < i /\ z < i
  BY DEF Setting
<1>2. /\ A(a) \in Seq(S) /\ B(a) = <<>> /\ C(a) = <<>>
      /\ A(z) \in Seq(S) /\ B(z) \in Seq(S) /\ C(z) = <<>>
  BY <1>1, InjectParts
<1> HIDE DEF A, B, C, a, z
<1>3. A(a) \o Append(early, c) = Append(A(a) \o early, c) /\ A(a) \o early \in Seq(S)
  BY <1>2, Joined
<1>4. A(z) \o early \in Seq(S)
  BY <1>2
<1>5. (A(z) \o early) \o B(z) \in Seq(S)
  <2> HIDE DEF S
  <2> QED
    BY <1>2, <1>4
<1>6. /\ ((A(z) \o early) \o B(z)) \o Append(late, c) = Append(((A(z) \o early) \o B(z)) \o late, c)
      /\ ((A(z) \o early) \o B(z)) \o late \in Seq(S)
  BY <1>5, Joined
<1>7. \A x \in Seq(S) : x \o <<>> = x /\ Append(x, c) \in Seq(S)
  OBVIOUS
<1> HIDE DEF S
<1>8. /\ FilledIn(b, a, p, i, Append(early, c), <<>>) = A(a) \o Append(early, c)
      /\ FilledIn(b, a, p, i, early, <<>>) = A(a) \o early
  <2>1. A(a) \in Seq(S) /\ Append(A(a) \o early, c) \in Seq(S)
    BY <1>2, <1>3, <1>7
  <2>2. \A x \in Seq(S) : ((x \o <<>>) \o <<>>) \o <<>> = x
    BY <1>7
  <2>3. /\ FilledIn(b, a, p, i, Append(early, c), <<>>)
             = (((A(a) \o Append(early, c)) \o B(a)) \o <<>>) \o C(a)
        /\ FilledIn(b, a, p, i, early, <<>>) = (((A(a) \o early) \o B(a)) \o <<>>) \o C(a)
    BY Zenon DEF FilledIn, A, B, C
  <2> QED
    BY <1>2, <1>3, <2>1, <2>2, <2>3, Zenon
<1>9. /\ FilledIn(b, z, p, i, early, Append(late, c))
           = ((A(z) \o early) \o B(z)) \o Append(late, c)
      /\ FilledIn(b, z, p, i, early, late) = ((A(z) \o early) \o B(z)) \o late
  BY <1>2, <1>6, <1>7, Zenon DEF FilledIn, A, B, C
<1> QED
  BY <1>3, <1>6, <1>8, <1>9 DEF a, z

LEMMA JoinedPoints ==
  ASSUME NEW S, NEW x \in Seq(S), NEW y \in Seq(S)
  PROVE  /\ x \o y \in Seq(S) /\ Len(x \o y) = Len(x) + Len(y)
         /\ \A k \in 1..Len(x) : (x \o y)[k] = x[k]
         /\ \A k \in 1..Len(y) : (x \o y)[Len(x) + k] = y[k]
BY SMT

\* Nothing is written at first; a whole file has libpng's chunks and the records.
LEMMA PartsJoin ==
  ASSUME NEW S, NEW b \in Seq(S), NEW m \in 1..(Len(b) + 1), NEW n \in 0..Len(b), m <= n + 1
  PROVE  SubSeq(b, 1, m - 1) \o SubSeq(b, m, n) = SubSeq(b, 1, n)
<1> DEFINE x == SubSeq(b, 1, m - 1)
           y == SubSeq(b, m, n)
           z == SubSeq(b, 1, n)
<1>1. /\ x \in Seq(S) /\ Len(x) = m - 1 /\ \A k \in 1..Len(x) : x[k] = b[k]
  <2>1. m - 1 \in Nat /\ m - 1 <= Len(b)
    OBVIOUS
  <2> QED
    BY <2>1, SMT
<1>2. /\ y \in Seq(S) /\ Len(y) = (n - m) + 1 /\ \A k \in 1..Len(y) : y[k] = b[(m + k) - 1]
  BY SMT
<1>3. /\ z \in Seq(S) /\ Len(z) = n /\ \A k \in 1..Len(z) : z[k] = b[k]
  BY SMT
<1>4. n \in Nat /\ m \in Nat \ {0} /\ m <= n + 1
  OBVIOUS
<1> HIDE DEF x, y, z
<1>5. /\ x \o y \in Seq(S) /\ Len(x \o y) = Len(x) + Len(y)
      /\ \A k \in 1..Len(x) : (x \o y)[k] = x[k]
      /\ \A k \in 1..Len(y) : (x \o y)[Len(x) + k] = y[k]
  <2>1. x \in Seq(S) /\ y \in Seq(S)
    BY <1>1, <1>2
  <2> QED
    BY <2>1, JoinedPoints
<1>6. Len(x \o y) = n /\ Len(x) = m - 1 /\ (m - 1) + ((n - m) + 1) = n
  BY <1>1, <1>2, <1>4, <1>5
<1>7. ASSUME NEW k \in 1..n PROVE (x \o y)[k] = z[k]
  <2>1. CASE k <= m - 1
    <3>1. k \in 1..Len(x) /\ k \in 1..Len(z)
      BY <1>1, <1>3, <1>4, <2>1
    <3>2. (x \o y)[k] = x[k]
      BY <1>5, <3>1
    <3>3. x[k] = b[k]
      BY <1>1, <3>1
    <3>4. z[k] = b[k]
      BY <1>3, <3>1
    <3> QED
      BY <3>2, <3>3, <3>4
  <2>2. CASE m <= k
    <3> DEFINE j == (k - m) + 1
    <3>1. j \in 1..Len(y) /\ (m - 1) + j = k /\ (m + j) - 1 = k /\ k \in 1..Len(z)
      BY <1>2, <1>3, <1>4, <2>2
    <3>2. (x \o y)[k] = y[j] /\ y[j] = b[k] /\ z[k] = b[k]
      <4> HIDE DEF j
      <4>1. (x \o y)[Len(x) + j] = y[j] /\ Len(x) + j = k
        BY <1>1, <1>5, <3>1
      <4>2. y[j] = b[(m + j) - 1] /\ z[k] = b[k]
        BY <1>2, <1>3, <3>1
      <4> QED
        BY <3>1, <4>1, <4>2
    <3> QED
      BY <3>2
  <2>3. k <= m - 1 \/ m <= k
    BY <1>4
  <2> QED
    BY <2>1, <2>2, <2>3
<1> QED
  <2>1. x \o y = z
    BY <1>3, <1>5, <1>6, <1>7, SMTT(30)
  <2> QED
    BY <2>1 DEF x, y, z

LEMMA InjectNothing ==
  ASSUME NEW b, NEW p, NEW i, Setting(b, 0, p, i)
  PROVE  FilledIn(b, 0, p, i, <<>>, <<>>) = <<>>
<1>1. 0 < p /\ 0 < i /\ b \in Seq(Chunk) /\ 1 \in Nat \ {0} /\ 0 \in Nat /\ 0 <= Len(b)
  BY DEF Setting
<1>2. SubSeq(b, p, IF 0 < i THEN 0 ELSE i - 1) = <<>> /\ SubSeq(b, i, 0) = <<>>
  BY <1>1, InjectParts
<1>3. SubSeq(b, 1, 0) = <<>>
  BY <1>1, PartOf
<1>4. (IF 0 < p THEN 0 ELSE p - 1) = 0
  BY <1>1
<1>5. <<>> \o <<>> = <<>>
  OBVIOUS
<1>6. FilledIn(b, 0, p, i, <<>>, <<>>)
        = (((SubSeq(b, 1, 0) \o <<>>) \o SubSeq(b, p, IF 0 < i THEN 0 ELSE i - 1)) \o <<>>)
             \o SubSeq(b, i, 0)
  BY <1>4, Zenon DEF FilledIn
<1> QED
  BY <1>2, <1>3, <1>5, <1>6, Zenon

\* A whole file: its parts are libpng's chunks.
InParts(b, p, i, x, y, z) ==
  /\ x \in Seq(Chunk) /\ y \in Seq(Chunk) /\ z \in Seq(Chunk) /\ (x \o y) \o z = b
  /\ \A early, late \in Seq(Chunk) :
       FilledIn(b, Len(b), p, i, early, late) = (((x \o early) \o y) \o late) \o z

LEMMA InjectAll ==
  ASSUME NEW b, NEW p, NEW i, Setting(b, Len(b), p, i)
  PROVE  \E x, y, z : InParts(b, p, i, x, y, z)
<1> DEFINE x == SubSeq(b, 1, p - 1)
           y == SubSeq(b, p, i - 1)
           z == SubSeq(b, i, Len(b))
<1>1. /\ b \in Seq(Chunk) /\ Len(b) \in Nat /\ ~(Len(b) < p) /\ ~(Len(b) < i)
      /\ p \in 1..(Len(b) + 1) /\ i \in 1..(Len(b) + 1) /\ p <= i
      /\ i - 1 \in 0..Len(b) /\ Len(b) \in 0..Len(b) /\ p <= (i - 1) + 1 /\ i <= Len(b) + 1
  BY DEF Setting
<1>2. x \in Seq(Chunk) /\ y \in Seq(Chunk) /\ z \in Seq(Chunk)
  <2>1. /\ (IF Len(b) < p THEN Len(b) ELSE p - 1) = p - 1
        /\ (IF Len(b) < i THEN Len(b) ELSE i - 1) = i - 1
    BY <1>1
  <2> QED
    BY <2>1, InjectParts
<1>3. x \o y = SubSeq(b, 1, i - 1)
  BY <1>1, PartsJoin
<1>4. SubSeq(b, 1, i - 1) \o z = SubSeq(b, 1, Len(b))
  BY <1>1, PartsJoin
<1>5. SubSeq(b, 1, Len(b)) = b
  BY <1>1, PartOf
<1>6. \A early, late \in Seq(Chunk) :
         FilledIn(b, Len(b), p, i, early, late) = (((x \o early) \o y) \o late) \o z
  BY <1>1, Zenon DEF FilledIn
<1> HIDE DEF x, y, z
<1> QED
  <2>1. (x \o y) \o z = b
    BY <1>3, <1>4, <1>5, Zenon
  <2>2. InParts(b, p, i, x, y, z)
    BY <1>2, <1>6, <2>1, Zenon DEF InParts
  <2> QED
    BY <2>2, Zenon

FiveJoined(x, e, y, l, z) == (((x \o e) \o y) \o l) \o z

LEMMA FiveKinds ==
  \A k : \A x, e, y, l, z \in Seq(Chunk) :
    OfKind(FiveJoined(x, e, y, l, z), k)
      = FiveJoined(OfKind(x, k), OfKind(e, k), OfKind(y, k), OfKind(l, k), OfKind(z, k))
<1> SUFFICES ASSUME NEW k
             PROVE  \A x, e, y, l, z \in Seq(Chunk) :
                      OfKind(FiveJoined(x, e, y, l, z), k)
                        = FiveJoined(OfKind(x, k), OfKind(e, k), OfKind(y, k), OfKind(l, k),
                                     OfKind(z, k))
  OBVIOUS
<1>0. /\ \A u, v \in Seq(Chunk) : OfKind(u \o v, k) = OfKind(u, k) \o OfKind(v, k)
      /\ \A u, v \in Seq(Chunk) : u \o v \in Seq(Chunk)
  BY KindJoins, JoinedPoints
<1> SUFFICES ASSUME NEW x \in Seq(Chunk), NEW e \in Seq(Chunk), NEW y \in Seq(Chunk),
                    NEW l \in Seq(Chunk), NEW z \in Seq(Chunk)
             PROVE  OfKind(FiveJoined(x, e, y, l, z), k)
                      = FiveJoined(OfKind(x, k), OfKind(e, k), OfKind(y, k), OfKind(l, k),
                                   OfKind(z, k))
  OBVIOUS
<1> DEFINE f1 == x \o e
           f2 == f1 \o y
           f3 == f2 \o l
<1> HIDE DEF f1, f2, f3
<1>1. f1 \in Seq(Chunk) /\ OfKind(f1, k) = OfKind(x, k) \o OfKind(e, k)
  BY <1>0, Zenon DEF f1
<1>2. f2 \in Seq(Chunk) /\ OfKind(f2, k) = OfKind(f1, k) \o OfKind(y, k)
  BY <1>0, <1>1, Zenon DEF f2
<1>3. f3 \in Seq(Chunk) /\ OfKind(f3, k) = OfKind(f2, k) \o OfKind(l, k)
  BY <1>0, <1>2, Zenon DEF f3
<1>4. OfKind(f3 \o z, k) = OfKind(f3, k) \o OfKind(z, k)
  BY <1>0, <1>3, Zenon
<1> QED
  BY <1>1, <1>2, <1>3, <1>4, Zenon DEF f1, f2, f3, FiveJoined

\* All of a file is of one kind.
LEMMA KindAlone ==
  ASSUME NEW u \in Seq(Chunk), NEW g \in {"base", "early", "late"}, OneKind(u, g)
  PROVE  \A k \in {"base", "early", "late"} : OfKind(u, k) = IF k = g THEN u ELSE <<>>
<1> SUFFICES ASSUME NEW k \in {"base", "early", "late"}
             PROVE  OfKind(u, k) = IF k = g THEN u ELSE <<>>
  OBVIOUS
<1>1. OfKind(u, g) = u
  BY KindOfOne
<1>2. k # g => OfKind(u, k) = <<>>
  BY KindOfOne
<1> QED
  BY <1>1, <1>2

\* What of each kind is in such a file.
LEMMA KindsInFile ==
  ASSUME NEW b \in Seq(Chunk), IsBase(b), NEW early \in Seq(Chunk), NEW late \in Seq(Chunk),
         OneKind(early, "early"), OneKind(late, "late")
  PROVE  LET f == Injected(b, Len(b), early, late)
         IN  /\ f \in Seq(Chunk) /\ OfKind(f, "base") = b
             /\ OfKind(f, "early") = early /\ OfKind(f, "late") = late
<1> DEFINE p == FirstOf(b, {"PLTE", "IDAT"})
           i == FirstOf(b, {"IDAT"})
<1>1. Setting(b, Len(b), p, i)
  <2>1. Begins(b, p, i)
    BY BaseBegins
  <2> HIDE DEF p, i
  <2> QED
    BY <2>1 DEF Begins, Setting
<1>2. PICK x, y, z : InParts(b, p, i, x, y, z)
  BY <1>1, InjectAll, Zenon
<1> HIDE DEF p, i
<1>3. Injected(b, Len(b), early, late) = (((x \o early) \o y) \o late) \o z
  BY <1>2, InjectedIs, Zenon DEF p, i, InParts
<1>0. x \in Seq(Chunk) /\ y \in Seq(Chunk) /\ z \in Seq(Chunk) /\ (x \o y) \o z = b
  BY <1>2, Zenon DEF InParts
<1>4. OneKind(b, "base")
  <2>1. \A n \in DOMAIN b : OfBase(b[n])
    BY DEF IsBase, OfBase
  <2> QED
    BY <2>1 DEF OneKind, Kind
<1>5. OneKind(x, "base") /\ OneKind(y, "base") /\ OneKind(z, "base")
  <2>1. \A u \in Seq(Chunk) : \A v \in Seq(Chunk) :
          OneKind(u \o v, "base") => OneKind(u, "base") /\ OneKind(v, "base")
    <3> SUFFICES ASSUME NEW u \in Seq(Chunk), NEW v \in Seq(Chunk), OneKind(u \o v, "base")
                 PROVE  OneKind(u, "base") /\ OneKind(v, "base")
      OBVIOUS
    <3>1. /\ Len(u \o v) = Len(u) + Len(v) /\ Len(u) \in Nat /\ Len(v) \in Nat
          /\ \A n \in 1..Len(u) : (u \o v)[n] = u[n]
          /\ \A n \in 1..Len(v) : (u \o v)[Len(u) + n] = v[n]
      BY JoinedPoints
    <3>2. ASSUME NEW n \in 1..Len(u) PROVE Kind(u[n]) = "base"
      <4>1. n \in 1..Len(u \o v)
        BY <3>1
      <4> QED
        BY <3>1, <4>1 DEF OneKind
    <3>3. ASSUME NEW n \in 1..Len(v) PROVE Kind(v[n]) = "base"
      <4>1. Len(u) + n \in 1..Len(u \o v)
        BY <3>1
      <4> QED
        BY <3>1, <4>1 DEF OneKind
    <3> QED
      BY <3>2, <3>3 DEF OneKind
  <2>2. x \o y \in Seq(Chunk)
    BY <1>0, JoinedPoints
  <2> QED
    BY <1>0, <1>4, <2>1, <2>2, Zenon
<1>7. \A k : OfKind(FiveJoined(x, early, y, late, z), k)
                = FiveJoined(OfKind(x, k), OfKind(early, k), OfKind(y, k), OfKind(late, k),
                             OfKind(z, k))
  BY <1>0, FiveKinds
<1>8. /\ \A k \in {"base", "early", "late"} :
           \A u \in {x, y, z} : OfKind(u, k) = IF k = "base" THEN u ELSE <<>>
      /\ \A k \in {"base", "early", "late"} :
           OfKind(early, k) = IF k = "early" THEN early ELSE <<>>
      /\ \A k \in {"base", "early", "late"} :
           OfKind(late, k) = IF k = "late" THEN late ELSE <<>>
  BY <1>0, <1>5, KindAlone
<1>9. /\ OfKind(x, "base") = x /\ OfKind(x, "early") = <<>> /\ OfKind(x, "late") = <<>>
      /\ OfKind(y, "base") = y /\ OfKind(y, "early") = <<>> /\ OfKind(y, "late") = <<>>
      /\ OfKind(z, "base") = z /\ OfKind(z, "early") = <<>> /\ OfKind(z, "late") = <<>>
      /\ OfKind(early, "base") = <<>> /\ OfKind(early, "early") = early
      /\ OfKind(early, "late") = <<>>
      /\ OfKind(late, "base") = <<>> /\ OfKind(late, "early") = <<>>
      /\ OfKind(late, "late") = late
  BY <1>8, SMT
<1>10. \A u \in Seq(Chunk) : u \o <<>> = u /\ <<>> \o u = u
  OBVIOUS
<1>11. <<>> \in Seq(Chunk) /\ x \o y \in Seq(Chunk)
  BY <1>0, JoinedPoints
<1> DEFINE f == FiveJoined(x, early, y, late, z)
<1> HIDE DEF f
<1>12. OfKind(f, "base") = b
  <2>1. OfKind(f, "base") = (((x \o <<>>) \o y) \o <<>>) \o z
    BY <1>7, <1>9, Zenon DEF f, FiveJoined
  <2> QED
    BY <1>0, <1>10, <1>11, <2>1, Zenon
<1>13. OfKind(f, "early") = early /\ OfKind(f, "late") = late
  <2>1. OfKind(f, "early") = (((<<>> \o early) \o <<>>) \o <<>>) \o <<>>
    BY <1>7, <1>9, Zenon DEF f, FiveJoined
  <2>2. OfKind(f, "late") = (((<<>> \o <<>>) \o <<>>) \o late) \o <<>>
    BY <1>7, <1>9, Zenon DEF f, FiveJoined
  <2> QED
    BY <1>10, <1>11, <2>1, <2>2, Zenon
<1>14. f \in Seq(Chunk)
  <2>1. x \o early \in Seq(Chunk)
    BY <1>0, JoinedPoints
  <2>2. (x \o early) \o y \in Seq(Chunk)
    BY <1>0, <2>1, JoinedPoints
  <2>3. ((x \o early) \o y) \o late \in Seq(Chunk)
    BY <2>2, JoinedPoints
  <2> QED
    BY <1>0, <2>3, JoinedPoints DEF f, FiveJoined
<1> QED
  BY <1>3, <1>12, <1>13, <1>14, Zenon DEF f, FiveJoined

\* Without records the file is as libpng wrote it.
LEMMA InjectNone ==
  ASSUME NEW b \in Seq(Chunk), IsBase(b)
  PROVE  Injected(b, Len(b), <<>>, <<>>) = b
<1> DEFINE p == FirstOf(b, {"PLTE", "IDAT"})
           i == FirstOf(b, {"IDAT"})
<1>1. Setting(b, Len(b), p, i)
  <2>1. Begins(b, p, i)
    BY BaseBegins
  <2> HIDE DEF p, i
  <2> QED
    BY <2>1 DEF Begins, Setting
<1>2. PICK x, y, z : InParts(b, p, i, x, y, z)
  BY <1>1, InjectAll, Zenon
<1> HIDE DEF p, i
<1>0. x \in Seq(Chunk) /\ y \in Seq(Chunk) /\ z \in Seq(Chunk) /\ (x \o y) \o z = b
  BY <1>2, Zenon DEF InParts
<1>3. <<>> \in Seq(Chunk) /\ x \o <<>> = x /\ x \o y \in Seq(Chunk)
  BY <1>0
<1>4. (x \o y) \o <<>> = x \o y
  BY <1>3, SMT
<1>5. Injected(b, Len(b), <<>>, <<>>) = (((x \o <<>>) \o y) \o <<>>) \o z
  BY <1>2, <1>3, InjectedIs, Zenon DEF p, i, InParts
<1> QED
  BY <1>0, <1>3, <1>4, <1>5, Zenon

\* The records up to the one that is cut off.
LEMMA WholeIs ==
  ASSUME NEW s \in Seq(Chunk)
  PROVE  \E w \in 0..Len(s) :
            /\ Whole(s) = SubSeq(s, 1, w) /\ \A n \in 1..w : s[n].type # "cut"
            /\ w = Len(s) \/ (w + 1 \in 1..Len(s) /\ s[w + 1].type = "cut")
<1> DEFINE cut == { n \in DOMAIN s : s[n].type = "cut" }
<1>1. DOMAIN s = 1..Len(s) /\ Len(s) \in Nat
  OBVIOUS
<1>2. CASE cut = {}
  <2>1. Whole(s) = SubSeq(s, 1, Len(s)) /\ Len(s) \in 0..Len(s)
    BY <1>1, <1>2 DEF Whole
  <2>2. \A n \in 1..Len(s) : s[n].type # "cut"
    BY <1>1, <1>2
  <2> QED
    BY <2>1, <2>2
<1>3. CASE cut # {}
  <2> DEFINE c == CHOOSE n \in cut : \A m \in cut : n <= m
  <2>1. cut \in SUBSET Nat
    BY <1>1
  <2>2. Whole(s) = SubSeq(s, 1, c - 1)
    BY <1>3 DEF Whole
  <2>3. \A n : n \in cut <=> n \in DOMAIN s /\ s[n].type = "cut"
    OBVIOUS
  <2> HIDE DEF cut
  <2>4. \E n \in cut : \A m \in cut : n <= m
    BY <1>3, <2>1, LeastOf
  <2>5. c \in cut /\ \A m \in cut : c <= m
    BY <2>4
  <2> HIDE DEF c
  <2>6. c \in 1..Len(s) /\ s[c].type = "cut" /\ c - 1 \in 0..Len(s) /\ (c - 1) + 1 = c
    BY <1>1, <2>3, <2>5
  <2>7. ASSUME NEW n \in 1..(c - 1), s[n].type = "cut" PROVE FALSE
    <3>1. n \in DOMAIN s /\ ~(c <= n)
      BY <1>1, <2>6
    <3> QED
      BY <2>3, <2>5, <2>7, <3>1
  <2>8. (c - 1) + 1 \in 1..Len(s) /\ s[(c - 1) + 1].type = "cut"
    BY <2>6
  <2> QED
    BY <2>2, <2>6, <2>7, <2>8
<1> QED
  BY <1>2, <1>3

------------------------------------------------------------------------------
(* What the saved files are made of                                          *)

\* The lemmas of the last section, for the base that is being copied.
LEMMA BaseSet ==
  ASSUME MetaInv
  PROVE  /\ base \in Seq(Chunk) /\ Len(base) \in Nat
         /\ Begins(base, FirstOf(base, {"PLTE", "IDAT"}), FirstOf(base, {"IDAT"}))
         /\ \A n \in 0..Len(base) :
              Setting(base, n, FirstOf(base, {"PLTE", "IDAT"}), FirstOf(base, {"IDAT"}))
<1>1. base \in Seq(Chunk) /\ IsBase(base)
  BY DEF MetaInv, TypeOK
<1>2. Begins(base, FirstOf(base, {"PLTE", "IDAT"}), FirstOf(base, {"IDAT"}))
  BY <1>1, BaseBegins
<1>3. \A b, p, i, n : b \in Seq(Chunk) /\ Begins(b, p, i) /\ n \in 0..Len(b) => Setting(b, n, p, i)
  BY DEF Begins, Setting
<1> QED
  BY <1>1, <1>2, <1>3

\* The records that are put are records.
LEMMA PutsAre ==
  ASSUME MetaInv, Making
  PROVE  EarlyPut \in Seq(Chunk) /\ LatePut \in Seq(Chunk)
<1>1. metadata \in Seq(Chunk) /\ mpos \in Nat \ {0}
  BY DEF MetaInv, TypeOK
<1>2. Whole(metadata) \in Seq(Chunk)
  <2>1. PICK w \in 0..Len(metadata) : Whole(metadata) = SubSeq(metadata, 1, w)
    BY <1>1, WholeIs
  <2> QED
    BY <1>1, <2>1, PartOf
<1>3. \A s \in Seq(Chunk) : \A k : OfKind(s, k) \in Seq(Chunk)
  BY KindPicks
<1>4. <<>> \in Seq(Chunk)
  OBVIOUS
<1>5. SubSeq(metadata, 1, mpos - 1) \in Seq(Chunk) \/ pc \notin {"early", "late"}
  <2> SUFFICES ASSUME pc \in {"early", "late"}
               PROVE  SubSeq(metadata, 1, mpos - 1) \in Seq(Chunk)
    OBVIOUS
  <2>1. PICK w \in 0..Len(metadata) : Whole(metadata) = SubSeq(metadata, 1, w)
    BY <1>1, WholeIs
  <2>2. mpos <= Len(Whole(metadata)) + 1
    BY DEF Making, Injecting, PlacedIn
  <2>3. Len(Whole(metadata)) = w
    BY <1>1, <2>1, PartOf
  <2>4. mpos - 1 \in Nat /\ mpos - 1 <= Len(metadata)
    BY <1>1, <2>2, <2>3
  <2> QED
    BY <1>1, <2>4, PartOf
<1> QED
  BY <1>2, <1>3, <1>4, <1>5 DEF EarlyPut, LatePut

LEMMA InitMaking == Init => Making
BY DEF Init, Making, Injecting

LEMMA LoadingMakes ==
  MetaInv /\ Making /\ (ExtractChunk \/ ExtractDone \/ LoadSaved) => Making'
<1> SUFFICES ASSUME MetaInv, Making, ExtractChunk \/ ExtractDone \/ LoadSaved
             PROVE  Making'
  OBVIOUS
<1>1. pc' \in {"extract", "loaded"}
  BY DEF ExtractChunk, ExtractDone, LoadSaved
<1>2. failed' => starved'
  BY DEF Making, ExtractChunk, ExtractDone, LoadSaved, Put, loopVars
<1> QED
  BY <1>1, <1>2 DEF Making, Injecting

LEMMA SaveMakes ==
  ASSUME MetaInv, Making, Save
  PROVE  Making'
<1> DEFINE p == FirstOf(base, {"PLTE", "IDAT"})
           i == FirstOf(base, {"IDAT"})
<1>1. /\ base \in Seq(Chunk) /\ Len(base) \in Nat /\ Begins(base, p, i) /\ Setting(base, 0, p, i)
      /\ IsBase(base) /\ saved \in Seq(Seq(Chunk)) /\ base' = base /\ metadata' = metadata
      /\ starved' = starved
  BY BaseSet DEF MetaInv, TypeOK, Save
<1>2. CASE metadata = <<>>
  <2>1. pc' = "saved" /\ saved' = Append(saved, base) /\ failed' = failed
    BY <1>2 DEF Save, loopVars
  <2>2. saved'[Len(saved')] = base
    BY <1>1, <2>1
  <2>3. Whole(metadata) = <<>>
    <3>1. <<>> \in Seq(Chunk) /\ Len(<<>>) = 0
      OBVIOUS
    <3>2. PICK w \in 0..Len(metadata) : Whole(metadata) = SubSeq(metadata, 1, w)
      BY <1>2, <3>1, WholeIs
    <3>3. SubSeq(metadata, 1, w) = <<>>
      BY <1>2, <3>1, <3>2, PartOf
    <3> QED
      BY <3>2, <3>3
  <2>4. \A k : OfKind(Whole(metadata), k) = <<>>
    BY <2>3, KindOfNone
  <2>5. Injected(base, Len(base), <<>>, <<>>) = base
    BY <1>1, InjectNone
  <2> QED
    BY <1>1, <2>1, <2>2, <2>4, <2>5 DEF Making, Injecting
<1>3. CASE metadata # <<>>
  <2>1. /\ pc' = "copy" /\ pos' = 1 /\ bb' = <<>> /\ failed' = FALSE
        /\ early_done' = FALSE /\ inserted' = FALSE
    BY <1>3 DEF Save
  <2> HIDE DEF p, i
  <2>2. EarlyPut' = <<>> /\ LatePut' = <<>>
    BY <2>1 DEF EarlyPut, LatePut
  <2>3. FilledIn(base, 0, p, i, <<>>, <<>>) = <<>>
    BY <1>1, InjectNothing
  <2>4. Injected(base, 0, <<>>, <<>>) = <<>>
    BY <2>3, InjectedIs, Zenon DEF p, i
  <2>5. bb' = Injected(base', pos' - 1, EarlyPut', LatePut')
    <3>1. pos' - 1 = 0
      BY <2>1
    <3> QED
      BY <1>1, <2>1, <2>2, <2>4, <3>1
  <2>6. 1 <= Len(base) + 1 /\ 1 <= p /\ 1 <= i
    BY <1>1 DEF Begins
  <2>7. PlacedIn'
    BY <1>1, <2>1, <2>6 DEF PlacedIn, p, i
  <2> QED
    BY <2>1, <2>5, <2>7 DEF Making, Injecting
<1> QED
  BY <1>2, <1>3

LEMMA InjectionMakes ==
  ASSUME MetaInv, Making, InjectEarly \/ InjectLate
  PROVE  Making'
<1> DEFINE p == FirstOf(base, {"PLTE", "IDAT"})
           i == FirstOf(base, {"IDAT"})
<1>1. Begins(base, p, i)
  BY BaseSet
<1>2. /\ base \in Seq(Chunk) /\ Len(base) \in Nat /\ metadata \in Seq(Chunk) /\ pos \in Nat \ {0}
      /\ base' = base /\ metadata' = metadata /\ pos' = pos /\ bb' = bb /\ failed' = failed
      /\ starved' = starved /\ mpos' = 1 /\ pc = "copy" /\ pos <= Len(base)
      /\ (inserted => early_done) /\ early_done \in BOOLEAN /\ inserted \in BOOLEAN
  BY BaseSet DEF MetaInv, TypeOK, InjectEarly, InjectLate
<1>3. /\ IF early_done THEN pos >= p ELSE pos <= p
      /\ IF inserted THEN pos >= i ELSE pos <= i
      /\ ~failed => bb = Injected(base, pos - 1, EarlyPut, LatePut)
      /\ failed => starved
  BY <1>2 DEF Making, Injecting, PlacedIn
<1> HIDE DEF p, i
<1>4. SubSeq(metadata, 1, mpos' - 1) = <<>>
  <2>1. mpos' - 1 = 0 /\ 0 <= Len(metadata) /\ 1 \in Nat \ {0} /\ 0 \in Nat
    BY <1>2
  <2> QED
    BY <1>2, <2>1, PartOf
<1>5. \A k : OfKind(<<>>, k) = <<>>
  BY KindOfNone
<1>6. mpos' <= Len(Whole(metadata)) + 1
  <2>1. PICK w \in 0..Len(metadata) : Whole(metadata) = SubSeq(metadata, 1, w)
    BY <1>2, WholeIs
  <2>2. Len(Whole(metadata)) = w
    BY <1>2, <2>1, PartOf
  <2> QED
    BY <1>2, <2>2
<1>7. CASE InjectEarly
  <2>1. /\ pc' = "early" /\ early_done' = TRUE /\ inserted' = inserted /\ ~early_done
        /\ base[pos].type \in {"PLTE", "IDAT"}
    BY <1>7 DEF InjectEarly, EarlyDue
  <2>2. pos = p /\ ~inserted
    BY <1>1, <1>2, <1>3, <2>1 DEF Begins
  <2>3. PlacedIn'
    <3>1. pos <= Len(base) + 1 /\ pos >= p /\ pos <= i
      BY <1>1, <1>2, <2>2 DEF Begins
    <3> QED
      BY <1>2, <1>6, <2>1, <2>2, <3>1 DEF PlacedIn, p, i
  <2>4. EarlyPut' = <<>> /\ LatePut' = <<>> /\ EarlyPut = <<>> /\ LatePut = <<>>
    BY <1>2, <1>4, <1>5, <2>1, <2>2 DEF EarlyPut, LatePut
  <2> QED
    BY <1>2, <1>3, <2>1, <2>3, <2>4 DEF Making, Injecting
<1>8. CASE InjectLate
  <2>1. /\ pc' = "late" /\ inserted' = TRUE /\ early_done' = early_done /\ ~inserted
        /\ base[pos].type = "IDAT" /\ ~EarlyDue
    BY <1>8 DEF InjectLate, LateDue
  <2>2. early_done
    BY <1>2, <2>1 DEF EarlyDue
  <2>3. pos = i
    BY <1>1, <1>2, <1>3, <2>1 DEF Begins
  <2>4. PlacedIn'
    <3>1. pos <= Len(base) + 1 /\ pos >= p /\ pos >= i
      BY <1>1, <1>2, <2>3 DEF Begins
    <3> QED
      BY <1>2, <1>6, <2>1, <2>2, <2>3, <3>1 DEF PlacedIn, p, i
  <2>5. EarlyPut' = EarlyPut /\ LatePut' = <<>> /\ LatePut = <<>>
    BY <1>2, <1>4, <1>5, <2>1, <2>2 DEF EarlyPut, LatePut
  <2> QED
    BY <1>2, <1>3, <2>1, <2>4, <2>5 DEF Making, Injecting
<1> QED
  BY <1>7, <1>8

LEMMA CopyMakes ==
  ASSUME MetaInv, Making, CopyChunk
  PROVE  Making'
<1> DEFINE p == FirstOf(base, {"PLTE", "IDAT"})
           i == FirstOf(base, {"IDAT"})
<1>1. /\ Begins(base, p, i) /\ \A n \in 0..Len(base) : Setting(base, n, p, i)
  BY BaseSet
<1>2. /\ base \in Seq(Chunk) /\ Len(base) \in Nat /\ pos \in Nat \ {0}
      /\ base' = base /\ metadata' = metadata /\ pos' = pos + 1 /\ pc' = "copy"
      /\ early_done' = early_done /\ inserted' = inserted
      /\ (inserted => early_done) /\ early_done \in BOOLEAN /\ inserted \in BOOLEAN
      /\ pc \in {"copy", "put"} /\ bb \in Seq(Chunk)
  BY BaseSet DEF MetaInv, TypeOK, CopyChunk
<1>3. /\ IF early_done THEN pos >= p ELSE pos <= p
      /\ IF inserted THEN pos >= i ELSE pos <= i
      /\ pc = "put" => pos = i /\ inserted
      /\ ~failed => bb = Injected(base, pos - 1, EarlyPut, LatePut)
      /\ failed => starved
  BY <1>2 DEF Making, Injecting, PlacedIn
<1> HIDE DEF p, i
<1>4. pos <= Len(base)
  BY <1>1, <1>2, <1>3 DEF Begins, CopyChunk
<1>5. /\ ~early_done => pos + 1 <= p
      /\ ~inserted => pos + 1 <= i
  <2>1. CASE pc = "put"
    BY <1>2, <1>3, <2>1
  <2>2. CASE pc = "copy"
    <3>1. ~EarlyDue /\ ~LateDue
      BY <2>2 DEF CopyChunk
    <3>2. ~early_done => pos # p
      BY <1>1, <3>1 DEF EarlyDue, Begins
    <3>3. ~inserted => pos # i
      BY <1>1, <3>1 DEF LateDue, Begins
    <3>4. p \in Nat /\ i \in Nat
      BY <1>1, <1>2 DEF Begins
    <3> QED
      BY <1>2, <1>3, <3>2, <3>3, <3>4
  <2> QED
    BY <1>2, <2>1, <2>2
<1>6. PlacedIn'
  <2>1. p \in Nat /\ i \in Nat
    BY <1>1, <1>2 DEF Begins
  <2>2. /\ pos + 1 <= Len(base) + 1
        /\ early_done => pos + 1 >= p
        /\ inserted => pos + 1 >= i
    BY <1>2, <1>3, <1>4, <2>1
  <2> QED
    BY <1>2, <1>5, <2>2 DEF PlacedIn, p, i
<1>7. EarlyPut' = EarlyPut /\ LatePut' = LatePut
  BY <1>2 DEF EarlyPut, LatePut
<1>8. base[pos] \in Chunk
  BY <1>2, <1>4
<1>9. /\ ~failed' => ~failed /\ bb' = Append(bb, base[pos])
      /\ failed' => starved'
  <2>1. \E oom \in OutOfMemory : Put(base[pos], oom)
    BY DEF CopyChunk
  <2>2. failed' => starved'
    BY <1>3, <2>1 DEF Put
  <2> QED
    BY <1>8, <2>1, <2>2, PutCases
<1>10. ~failed' => bb' = Injected(base', pos' - 1, EarlyPut', LatePut')
  <2> SUFFICES ASSUME ~failed'
               PROVE  bb' = Injected(base', pos' - 1, EarlyPut', LatePut')
    OBVIOUS
  <2> DEFINE n == pos - 1
             e == EarlyPut
             l == LatePut
  <2>1. n \in 0..Len(base) /\ n < Len(base) /\ n + 1 = pos /\ pos' - 1 = pos
    BY <1>2, <1>4
  <2>2. bb = Injected(base, n, e, l) /\ bb' = Append(bb, base[pos])
    BY <1>3, <1>9
  <2>3. e \in Seq(Chunk) /\ l \in Seq(Chunk)
    BY PutsAre
  <2>4. pos < p => e = <<>>
    <3>1. pos < p => ~early_done
      BY <1>1, <1>2, <1>3 DEF Begins
    <3> QED
      BY <3>1 DEF EarlyPut
  <2>5. pos < i => l = <<>>
    <3>1. pos < i => ~inserted
      BY <1>1, <1>2, <1>3 DEF Begins
    <3> QED
      BY <3>1 DEF LatePut
  <2>6. Setting(base, n, p, i)
    BY <1>1, <2>1
  <2> HIDE DEF n, e, l
  <2>7. FilledIn(base, n + 1, p, i, e, l) = Append(FilledIn(base, n, p, i, e, l), base[n + 1])
    BY <2>1, <2>3, <2>4, <2>5, <2>6, InjectCopies
  <2>8. \A m : Injected(base, m, e, l) = FilledIn(base, m, p, i, e, l)
    BY InjectedIs, Zenon DEF p, i
  <2>9. bb' = Injected(base, n + 1, e, l)
    BY <2>1, <2>2, <2>7, <2>8
  <2> QED
    BY <1>2, <1>7, <2>1, <2>9 DEF e, l
<1> QED
  BY <1>2, <1>6, <1>9, <1>10 DEF Making, Injecting

\* The records that a group has been through, and those that are in it.
LEMMA RecordsOf ==
  ASSUME MetaInv, Making, pc \in {"early", "late"}
  PROVE  /\ metadata \in Seq(Chunk) /\ mpos \in Nat \ {0} /\ Len(metadata) \in Nat
         /\ SubSeq(metadata, 1, mpos - 1) \in Seq(Chunk)
         /\ MoreRecords => /\ mpos \in 1..Len(metadata) /\ metadata[mpos] \in Chunk
                           /\ mpos + 1 <= Len(Whole(metadata)) + 1
                           /\ SubSeq(metadata, 1, mpos)
                                = Append(SubSeq(metadata, 1, mpos - 1), metadata[mpos])
                           /\ MustPrecedePlte(metadata[mpos].type)
                                <=> Kind(metadata[mpos]) = "early"
                           /\ ~MustPrecedePlte(metadata[mpos].type)
                                <=> Kind(metadata[mpos]) = "late"
         /\ ~MoreRecords => SubSeq(metadata, 1, mpos - 1) = Whole(metadata)
<1>1. metadata \in Seq(Chunk) /\ mpos \in Nat \ {0} /\ Len(metadata) \in Nat
  BY DEF MetaInv, TypeOK
<1>2. PICK w \in 0..Len(metadata) :
        /\ Whole(metadata) = SubSeq(metadata, 1, w) /\ \A n \in 1..w : metadata[n].type # "cut"
        /\ w = Len(metadata) \/ (w + 1 \in 1..Len(metadata) /\ metadata[w + 1].type = "cut")
  BY <1>1, WholeIs
<1>3. Len(Whole(metadata)) = w
  BY <1>1, <1>2, PartOf
<1>4. mpos <= w + 1
  BY <1>3 DEF Making, Injecting, PlacedIn
<1>5. mpos - 1 \in Nat /\ mpos - 1 <= Len(metadata) /\ 1 \in Nat \ {0}
  BY <1>1, <1>2, <1>4
<1>6. SubSeq(metadata, 1, mpos - 1) \in Seq(Chunk)
  BY <1>1, <1>5, PartOf
<1>7. ASSUME MoreRecords
      PROVE  /\ mpos \in 1..Len(metadata) /\ metadata[mpos] \in Chunk
             /\ mpos + 1 <= w + 1
             /\ SubSeq(metadata, 1, mpos) = Append(SubSeq(metadata, 1, mpos - 1), metadata[mpos])
             /\ MustPrecedePlte(metadata[mpos].type) <=> Kind(metadata[mpos]) = "early"
             /\ ~MustPrecedePlte(metadata[mpos].type) <=> Kind(metadata[mpos]) = "late"
  <2>1. mpos \in 1..Len(metadata) /\ metadata[mpos].type # "cut"
    BY <1>1, <1>7 DEF MoreRecords
  <2>2. metadata[mpos] \in Chunk
    BY <1>1, <2>1
  <2>3. mpos # w + 1
    BY <1>2, <2>1
  <2>4. mpos + 1 <= w + 1
    BY <1>1, <1>2, <1>4, <2>3
  <2>5. SubSeq(metadata, 1, mpos) = Append(SubSeq(metadata, 1, mpos - 1), metadata[mpos])
    <3> DEFINE n == mpos - 1
    <3>1. n \in Nat /\ n < Len(metadata) /\ 1 <= n + 1 /\ n + 1 = mpos
      BY <1>1, <2>1
    <3>2. SubSeq(metadata, 1, n + 1) = Append(SubSeq(metadata, 1, n), metadata[n + 1])
      <4> HIDE DEF n
      <4> QED
        BY <1>1, <1>5, <3>1, PartGrows
    <3> QED
      BY <3>1, <3>2
  <2>6. ~OfBase(metadata[mpos])
    BY <1>1, <2>1 DEF MetaInv, AncillaryOnly
  <2>7. /\ MustPrecedePlte(metadata[mpos].type) <=> Kind(metadata[mpos]) = "early"
        /\ ~MustPrecedePlte(metadata[mpos].type) <=> Kind(metadata[mpos]) = "late"
    BY <2>6 DEF Kind, Early, MustPrecedePlte
  <2> QED
    BY <2>1, <2>2, <2>4, <2>5, <2>7
<1>8. ASSUME ~MoreRecords PROVE mpos - 1 = w
  <2>1. mpos <= Len(metadata) => metadata[mpos].type = "cut"
    BY <1>8 DEF MoreRecords
  <2>2. ~(mpos <= w)
    <3>1. mpos <= w => mpos \in 1..w /\ mpos <= Len(metadata)
      BY <1>1, <1>2
    <3> QED
      BY <1>2, <2>1, <3>1
  <2> QED
    BY <1>1, <1>2, <1>4, <2>2
<1> QED
  BY <1>1, <1>2, <1>3, <1>6, <1>7, <1>8

LEMMA RecordMakes ==
  ASSUME MetaInv, Making, EmitRecord
  PROVE  Making'
<1> DEFINE p == FirstOf(base, {"PLTE", "IDAT"})
           i == FirstOf(base, {"IDAT"})
           r == metadata[mpos]
           before == SubSeq(metadata, 1, mpos - 1)
           now == SubSeq(metadata, 1, mpos)
<1>1. /\ Begins(base, p, i) /\ \A n \in 0..Len(base) : Setting(base, n, p, i)
  BY BaseSet
<1>2. /\ base \in Seq(Chunk) /\ Len(base) \in Nat /\ pos \in Nat \ {0} /\ mpos \in Nat \ {0}
      /\ base' = base /\ metadata' = metadata /\ pos' = pos /\ pc' = pc /\ mpos' = mpos + 1
      /\ early_done' = early_done /\ inserted' = inserted
      /\ early_done \in BOOLEAN /\ inserted \in BOOLEAN
      /\ pc \in {"early", "late"} /\ bb \in Seq(Chunk) /\ MoreRecords
  BY BaseSet DEF MetaInv, TypeOK, EmitRecord
<1>3. /\ r \in Chunk /\ before \in Seq(Chunk) /\ now = Append(before, r)
      /\ mpos + 1 <= Len(Whole(metadata)) + 1
      /\ MustPrecedePlte(r.type) <=> Kind(r) = "early"
      /\ ~MustPrecedePlte(r.type) <=> Kind(r) = "late"
  BY <1>2, RecordsOf
<1>4. /\ pos <= Len(base) + 1
      /\ IF early_done THEN pos >= p ELSE pos <= p
      /\ IF inserted THEN pos >= i ELSE pos <= i
      /\ pc = "early" => pos = p /\ early_done /\ ~inserted
      /\ pc = "late" => pos = i /\ inserted
      /\ ~failed => bb = Injected(base, pos - 1, EarlyPut, LatePut)
      /\ failed => starved
  BY <1>2 DEF Making, Injecting, PlacedIn
<1>5. (mpos + 1) - 1 = mpos
  BY <1>2
<1> HIDE DEF p, i, r, before, now
<1>6. PlacedIn'
  BY <1>2, <1>3, <1>4 DEF PlacedIn, p, i
<1>7. \A k : OfKind(now, k) = IF Kind(r) = k THEN Append(OfKind(before, k), r)
                                            ELSE OfKind(before, k)
  BY <1>3, KindGrows
<1>8. /\ IF MustPrecedePlte(r.type) = (pc = "early")
           THEN /\ ~failed' => ~failed /\ bb' = Append(bb, r)
                /\ failed' => starved'
           ELSE bb' = bb /\ failed' = failed /\ starved' = starved
  <2>1. IF MustPrecedePlte(r.type) = (pc = "early")
          THEN \E oom \in OutOfMemory : Put(r, oom)
          ELSE UNCHANGED <<bb, failed, starved>>
    BY DEF EmitRecord, r
  <2>2. (\E oom \in OutOfMemory : Put(r, oom)) =>
          /\ ~failed' => ~failed /\ bb' = Append(bb, r)
          /\ failed' => starved'
    <3> SUFFICES ASSUME \E oom \in OutOfMemory : Put(r, oom)
                 PROVE  /\ ~failed' => ~failed /\ bb' = Append(bb, r)
                        /\ failed' => starved'
      OBVIOUS
    <3>1. failed' => starved'
      BY <1>4 DEF Put
    <3> QED
      BY <1>3, <3>1, PutCases
  <2> QED
    BY <2>1, <2>2
<1>9. failed' => starved'
  BY <1>4, <1>8
<1>10. \A n, e, l : Injected(base, n, e, l) = FilledIn(base, n, p, i, e, l)
  BY InjectedIs, Zenon DEF p, i
<1>11. /\ Setting(base, p - 1, p, i) /\ Setting(base, i - 1, p, i)
  <2>1. p - 1 \in 0..Len(base) /\ i - 1 \in 0..Len(base)
    BY <1>1, <1>2 DEF Begins
  <2> QED
    BY <1>1, <2>1
<1>12. CASE pc = "early"
  <2>1. /\ EarlyPut = OfKind(before, "early") /\ LatePut = <<>>
        /\ EarlyPut' = OfKind(now, "early") /\ LatePut' = <<>>
    BY <1>2, <1>4, <1>5, <1>12 DEF EarlyPut, LatePut, before, now
  <2> DEFINE e == OfKind(before, "early")
  <2>2. e \in Seq(Chunk) /\ <<>> \in Seq(Chunk)
    BY <1>3, KindPicks
  <2>3. FilledIn(base, p - 1, p, i, Append(e, r), <<>>)
          = Append(FilledIn(base, p - 1, p, i, e, <<>>), r)
    <3> HIDE DEF e
    <3> QED
      BY <1>3, <1>11, <2>2, InjectPuts
  <2>4. MustPrecedePlte(r.type) = (pc = "early") <=> Kind(r) = "early"
    BY <1>3, <1>12 DEF MustPrecedePlte
  <2>5. ~failed' => bb' = Injected(base, p - 1, OfKind(now, "early"), <<>>)
    <3>1. CASE Kind(r) = "early"
      <4>1. OfKind(now, "early") = Append(e, r)
        BY <1>7, <3>1
      <4>2. ~failed' => bb' = Append(bb, r) /\ bb = Injected(base, p - 1, e, <<>>)
        BY <1>4, <1>8, <1>12, <2>1, <2>4, <3>1
      <4> QED
        BY <1>10, <2>3, <4>1, <4>2
    <3>2. CASE Kind(r) # "early"
      <4>1. OfKind(now, "early") = e
        BY <1>7, <3>2
      <4>2. bb' = bb /\ failed' = failed
        BY <1>8, <2>4, <3>2
      <4> QED
        BY <1>4, <1>12, <2>1, <4>1, <4>2
    <3> QED
      BY <3>1, <3>2
  <2> QED
    BY <1>2, <1>4, <1>6, <1>9, <1>12, <2>1, <2>5 DEF Making, Injecting
<1>13. CASE pc = "late"
  <2>1. /\ LatePut = OfKind(before, "late") /\ LatePut' = OfKind(now, "late")
        /\ EarlyPut' = EarlyPut /\ EarlyPut \in Seq(Chunk)
    BY <1>2, <1>4, <1>5, <1>13, PutsAre DEF EarlyPut, LatePut, before, now
  <2> DEFINE e == EarlyPut
             l == OfKind(before, "late")
  <2>2. l \in Seq(Chunk)
    BY <1>3, KindPicks
  <2>3. FilledIn(base, i - 1, p, i, e, Append(l, r)) = Append(FilledIn(base, i - 1, p, i, e, l), r)
    <3>1. e \in Seq(Chunk)
      BY <2>1
    <3> HIDE DEF e, l
    <3> QED
      BY <1>3, <1>11, <2>2, <3>1, InjectPuts
  <2>4. MustPrecedePlte(r.type) = (pc = "early") <=> Kind(r) = "late"
    BY <1>3, <1>13 DEF MustPrecedePlte
  <2>5. ~failed' => bb' = Injected(base, i - 1, e, OfKind(now, "late"))
    <3>1. CASE Kind(r) = "late"
      <4>1. OfKind(now, "late") = Append(l, r)
        BY <1>7, <3>1
      <4>2. ~failed' => bb' = Append(bb, r) /\ bb = Injected(base, i - 1, e, l)
        BY <1>4, <1>8, <1>13, <2>1, <2>4, <3>1
      <4> QED
        BY <1>10, <2>3, <4>1, <4>2
    <3>2. CASE Kind(r) # "late"
      <4>1. OfKind(now, "late") = l
        BY <1>7, <3>2
      <4>2. bb' = bb /\ failed' = failed
        BY <1>8, <2>4, <3>2
      <4> QED
        BY <1>4, <1>13, <2>1, <4>1, <4>2
    <3> QED
      BY <3>1, <3>2
  <2> QED
    BY <1>2, <1>4, <1>6, <1>9, <1>13, <2>1, <2>5 DEF Making, Injecting
<1> QED
  BY <1>2, <1>12, <1>13

LEMMA GroupMakes ==
  ASSUME MetaInv, Making, EmitDone
  PROVE  Making'
<1> DEFINE p == FirstOf(base, {"PLTE", "IDAT"})
           i == FirstOf(base, {"IDAT"})
<1>1. Begins(base, p, i)
  BY BaseSet
<1>2. /\ base' = base /\ metadata' = metadata /\ pos' = pos /\ mpos' = mpos /\ bb' = bb
      /\ failed' = failed /\ starved' = starved
      /\ early_done' = early_done /\ inserted' = inserted
      /\ pc \in {"early", "late"} /\ ~MoreRecords
      /\ pc' = IF pc = "early" THEN "copy" ELSE "put"
  BY DEF EmitDone, loopVars
<1>3. /\ pos <= Len(base) + 1
      /\ IF early_done THEN pos >= p ELSE pos <= p
      /\ IF inserted THEN pos >= i ELSE pos <= i
      /\ pc = "early" => pos = p /\ early_done /\ ~inserted
      /\ pc = "late" => pos = i /\ inserted
      /\ ~failed => bb = Injected(base, pos - 1, EarlyPut, LatePut)
      /\ failed => starved
  BY <1>2 DEF Making, Injecting, PlacedIn
<1>4. SubSeq(metadata, 1, mpos - 1) = Whole(metadata)
  BY <1>2, RecordsOf
<1> HIDE DEF p, i
<1>5. EarlyPut' = EarlyPut /\ LatePut' = LatePut
  BY <1>2, <1>3, <1>4 DEF EarlyPut, LatePut
<1>6. PlacedIn'
  BY <1>2, <1>3 DEF PlacedIn, p, i
<1> QED
  BY <1>2, <1>3, <1>5, <1>6 DEF Making, Injecting

LEMMA DoneMakes ==
  ASSUME MetaInv, Making, InjectDone
  PROVE  Making'
<1> DEFINE p == FirstOf(base, {"PLTE", "IDAT"})
           i == FirstOf(base, {"IDAT"})
<1>1. Begins(base, p, i)
  BY BaseSet
<1>2. /\ base \in Seq(Chunk) /\ Len(base) \in Nat /\ pos \in Nat \ {0}
      /\ base' = base /\ metadata' = metadata /\ failed' = failed /\ starved' = starved
      /\ pc = "copy" /\ pos > Len(base) /\ pc' = "saved"
      /\ saved' = Append(saved, IF failed THEN base ELSE bb)
      /\ saved \in Seq(Seq(Chunk)) /\ bb \in Seq(Chunk)
      /\ early_done \in BOOLEAN /\ inserted \in BOOLEAN
  BY BaseSet DEF MetaInv, TypeOK, InjectDone, loopVars
<1>3. /\ pos <= Len(base) + 1
      /\ IF early_done THEN pos >= p ELSE pos <= p
      /\ IF inserted THEN pos >= i ELSE pos <= i
      /\ ~failed => bb = Injected(base, pos - 1, EarlyPut, LatePut)
      /\ failed => starved
  BY <1>2 DEF Making, Injecting, PlacedIn
<1> HIDE DEF p, i
<1>4. pos - 1 = Len(base) /\ early_done /\ inserted
  <2>1. p \in Nat /\ i \in Nat /\ p <= Len(base) /\ i <= Len(base)
    BY <1>1, <1>2 DEF Begins
  <2>2. pos = Len(base) + 1
    BY <1>2, <1>3
  <2>3. early_done /\ inserted
    BY <1>2, <1>3, <2>1, <2>2
  <2> QED
    BY <1>2, <2>2, <2>3
<1>5. /\ EarlyPut = OfKind(Whole(metadata), "early") /\ LatePut = OfKind(Whole(metadata), "late")
  BY <1>2, <1>4 DEF EarlyPut, LatePut
<1>6. saved'[Len(saved')] = IF failed THEN base ELSE bb
  BY <1>2
<1> QED
  BY <1>2, <1>3, <1>4, <1>5, <1>6 DEF Making, Injecting

\* What the saved files are made of.
LEMMA MakingStep == MetaInv /\ Making /\ [Next]_vars => Making'
<1>1. MetaInv /\ Making /\ UNCHANGED vars => Making'
  BY DEF vars, loopVars, Making, Injecting, PlacedIn, EarlyPut, LatePut
<1> QED
  BY <1>1, LoadingMakes, SaveMakes, InjectionMakes, CopyMakes, RecordMakes, GroupMakes, DoneMakes,
     Zenon DEF Next

\* A saved file is libpng's with the records of each group at its place, or, without
\* memory, libpng's alone; and until it is saved the buffer is the beginning of it.
THEOREM FilesAreMade == Spec => []Making
<1>1. MetaInv /\ MetaInv' /\ Making /\ [Next]_vars => Making'
  BY MakingStep
<1> QED
  BY <1>1, InitMaking, MetaInvariant, PTL DEF Spec

LEMMA MadeLosesNothing ==
  ASSUME MetaInv, Making
  PROVE  NothingLost
<1> SUFFICES ASSUME pc = "saved" PROVE NothingLost
  BY DEF NothingLost
<1> DEFINE f == saved[Len(saved)]
           w == Whole(metadata)
<1>1. /\ base \in Seq(Chunk) /\ IsBase(base) /\ metadata \in Seq(Chunk)
  BY DEF MetaInv, TypeOK
<1>2. \/ f = Injected(base, Len(base), OfKind(w, "early"), OfKind(w, "late"))
      \/ failed /\ f = base
  BY DEF Making
<1>3. w \in Seq(Chunk)
  <2>1. PICK n \in 0..Len(metadata) : Whole(metadata) = SubSeq(metadata, 1, n)
    BY <1>1, WholeIs
  <2> QED
    BY <1>1, <2>1, PartOf
<1> HIDE DEF f, w
<1>4. \A k : OfKind(w, k) \in Seq(Chunk) /\ OneKind(OfKind(w, k), k)
  BY <1>3, KindPicks, KindIsOne
<1>5. CASE f = Injected(base, Len(base), OfKind(w, "early"), OfKind(w, "late"))
  <2>1. /\ OfKind(f, "base") = base
        /\ OfKind(f, "early") = OfKind(w, "early") /\ OfKind(f, "late") = OfKind(w, "late")
    BY <1>1, <1>4, <1>5, KindsInFile
  <2> QED
    BY <2>1 DEF NothingLost, f, w
<1> QED
  BY <1>2, <1>5 DEF NothingLost, f

\* A picture comes out of saving as libpng wrote it, with all its records, each group in
\* its order (pxl_meta_inject); or without records, when memory was short.
THEOREM RecordsAreKept == Spec => []NothingLost
BY FilesAreMade, MetaInvariant, MadeLosesNothing, PTL

------------------------------------------------------------------------------
(* The end of the saved files                                                *)

LEMMA EndStep == MetaInv /\ EndComesLast /\ [Next]_vars => EndComesLast'
<1> SUFFICES ASSUME MetaInv, EndComesLast, [Next]_vars PROVE EndComesLast'
  OBVIOUS
<1>1. /\ base \in Seq(Chunk) /\ IsBase(base) /\ saved \in Seq(Seq(Chunk)) /\ bb \in Seq(Chunk)
      /\ Len(base) \in Nat /\ pos \in Nat \ {0} /\ metadata \in Seq(Chunk) /\ mpos \in Nat \ {0}
  BY DEF MetaInv, TypeOK
<1>2. \A n \in DOMAIN base : base[n].type = "IEND" => n = Len(base)
  BY <1>1 DEF IsBase
<1>3. CASE UNCHANGED vars
  BY <1>3 DEF vars, loopVars, EndComesLast, Injecting
<1>4. CASE ExtractChunk \/ ExtractDone \/ LoadSaved
  <2>1. saved' = saved /\ pc' \in {"extract", "loaded"}
    BY <1>4 DEF ExtractChunk, ExtractDone, LoadSaved
  <2> QED
    BY <2>1 DEF EndComesLast, Injecting
<1>5. ASSUME NEW f \in Seq(Chunk), \A n \in DOMAIN f : f[n].type = "IEND" => n = Len(f),
             saved' = Append(saved, f), pc' = "saved"
      PROVE  EndComesLast'
  <2>1. \A k \in DOMAIN saved' : (k \in DOMAIN saved /\ saved'[k] = saved[k]) \/ saved'[k] = f
    <3>1. /\ DOMAIN saved' = 1..(Len(saved) + 1) /\ saved'[Len(saved) + 1] = f
          /\ \A k \in DOMAIN saved : saved'[k] = saved[k]
          /\ DOMAIN saved = 1..Len(saved) /\ Len(saved) \in Nat
      BY <1>1, <1>5, AppendFacts
    <3> QED
      BY <3>1
  <2>2. ~Injecting'
    BY <1>5 DEF Injecting
  <2> QED
    BY <1>5, <2>1, <2>2, Zenon DEF EndComesLast
<1>6. CASE Save
  <2>1. CASE metadata = <<>>
    <3>1. saved' = Append(saved, base) /\ pc' = "saved"
      BY <1>6, <2>1 DEF Save
    <3> QED
      BY <1>1, <1>2, <1>5, <3>1
  <2>2. CASE metadata # <<>>
    <3>1. saved' = saved /\ bb' = <<>>
      BY <1>6, <2>2 DEF Save
    <3>2. DOMAIN <<>> = {}
      BY EmptyFile
    <3> QED
      BY <3>1, <3>2 DEF EndComesLast
  <2> QED
    BY <2>1, <2>2
<1>7. CASE InjectEarly \/ InjectLate \/ EmitDone
  <2>1. Injecting /\ saved' = saved /\ bb' = bb /\ pos' = pos /\ base' = base
    BY <1>7 DEF Injecting, InjectEarly, InjectLate, EmitDone, loopVars
  <2> QED
    BY <2>1 DEF EndComesLast
\* A chunk is put.
<1>8. ASSUME NEW c \in Chunk, bb' = bb \/ bb' = Append(bb, c), Injecting, saved' = saved,
             base' = base, pos' >= pos, pos' \in Nat, c.type = "IEND" => pos' > Len(base),
             pos <= Len(base)
      PROVE  EndComesLast'
  <2>1. \A n \in DOMAIN bb : bb[n].type # "IEND"
    <3>1. ~(pos > Len(base))
      BY <1>1, <1>8
    <3> QED
      BY <1>8, <3>1 DEF EndComesLast
  <2>2. \A n \in DOMAIN bb' : bb'[n].type = "IEND" => n = Len(bb') /\ c.type = "IEND"
    <3>1. CASE bb' = bb
      BY <2>1, <3>1
    <3>2. CASE bb' = Append(bb, c)
      <4>1. /\ DOMAIN bb' = 1..(Len(bb) + 1) /\ bb'[Len(bb) + 1] = c
            /\ \A n \in DOMAIN bb : bb'[n] = bb[n]
            /\ DOMAIN bb = 1..Len(bb) /\ Len(bb) \in Nat
        BY <1>1, <1>8, <3>2, AppendFacts
      <4>2. Len(bb') = Len(bb) + 1
        BY <1>1, <1>8, <3>2
      <4> QED
        BY <2>1, <4>1, <4>2
    <3> QED
      BY <1>8, <3>1, <3>2
  <2> QED
    BY <1>8, <2>2 DEF EndComesLast
<1>9. CASE CopyChunk
  <2>1. pos <= Len(base) /\ Injecting
    BY <1>9 DEF CopyChunk, MetaInv, BufferPlaced, Injecting
  <2>2. /\ pos' = pos + 1 /\ base' = base /\ saved' = saved
        /\ \E oom \in OutOfMemory : Put(base[pos], oom)
    BY <1>9 DEF CopyChunk
  <2>3. pos \in DOMAIN base /\ base[pos] \in Chunk
    BY <1>1, <2>1
  <2>4. bb' = bb \/ bb' = Append(bb, base[pos])
    BY <2>2, <2>3, PutCases
  <2>5. base[pos].type = "IEND" => pos' > Len(base)
    BY <1>1, <1>2, <2>2, <2>3
  <2>6. pos' >= pos /\ pos' \in Nat
    BY <1>1, <2>2
  <2> QED
    BY <1>8, <2>1, <2>2, <2>3, <2>4, <2>5, <2>6
<1>10. CASE EmitRecord
  <2>1. pos <= Len(base) /\ Injecting
    BY <1>10 DEF EmitRecord, MetaInv, BufferPlaced, Injecting
  <2>2. /\ pos' = pos /\ base' = base /\ saved' = saved /\ mpos <= Len(metadata)
        /\ (\E oom \in OutOfMemory : Put(metadata[mpos], oom)) \/ bb' = bb
    BY <1>10 DEF EmitRecord, MoreRecords
  <2>3. mpos \in DOMAIN metadata /\ metadata[mpos] \in Chunk
    BY <1>1, <2>2
  <2>4. metadata[mpos].type # "IEND"
    BY <2>3 DEF MetaInv, AncillaryOnly, OfBase, Structural
  <2>5. bb' = bb \/ bb' = Append(bb, metadata[mpos])
    BY <2>2, <2>3, PutCases
  <2>6. pos' >= pos /\ pos' \in Nat
    BY <1>1, <2>2
  <2> QED
    BY <1>8, <2>1, <2>2, <2>3, <2>4, <2>5, <2>6
<1>11. CASE InjectDone
  <2>1. /\ pc = "copy" /\ pc' = "saved" /\ saved' = Append(saved, IF failed THEN base ELSE bb)
    BY <1>11 DEF InjectDone
  <2>2. \A n \in DOMAIN bb : bb[n].type = "IEND" => n = Len(bb)
    BY <2>1 DEF EndComesLast, Injecting
  <2>3. CASE failed
    BY <1>1, <1>2, <1>5, <2>1, <2>3
  <2>4. CASE ~failed
    BY <1>1, <1>5, <2>1, <2>2, <2>4
  <2> QED
    BY <2>3, <2>4
<1> QED
  BY <1>3, <1>4, <1>6, <1>7, <1>9, <1>10, <1>11 DEF Next

LEMMA EndsAreLast == Spec => []EndComesLast
<1>1. Init => EndComesLast
  <2>1. DOMAIN <<>> = {}
    BY EmptyFile
  <2> QED
    BY <2>1 DEF Init, EndComesLast
<1> QED
  BY <1>1, EndStep, MetaInvariant, PTL DEF Spec

------------------------------------------------------------------------------
(* A file that is loaded and saved again                                     *)

\* Every chunk is among those of its kind.
LEMMA KindFinds ==
  ASSUME NEW f \in Seq(Chunk), NEW m \in 1..Len(f)
  PROVE  \E n \in 1..Len(OfKind(f, Kind(f[m]))) : OfKind(f, Kind(f[m]))[n] = f[m]
<1> DEFINE g == Kind(f[m])
           P == Places(f, g)
<1>1. /\ P \in SUBSET Nat /\ IsFiniteSet(P) /\ Cardinality(P) \in Nat
      /\ OfKind(f, g) = [n \in 1..Cardinality(P) |-> f[Nth(P, n)]]
  BY PlacesAre
<1>2. m \in P
  BY DEF Places
<1>3. Len(OfKind(f, g)) = Cardinality(P)
  BY KindPicks
<1> HIDE DEF P, g
<1>4. PICK n \in 1..Cardinality(P) : m = Nth(P, n)
  BY <1>1, <1>2, NthOrders
<1>5. OfKind(f, g)[n] = f[m]
  BY <1>1, <1>4
<1> QED
  BY <1>3, <1>5 DEF g

\* The records of a whole block.
LEMMA WholeRecords ==
  ASSUME NEW s \in Seq(Chunk)
  PROVE  /\ Whole(s) \in Seq(Chunk)
         /\ \A n \in 1..Len(Whole(s)) :
              \E m \in DOMAIN s : Whole(s)[n] = s[m] /\ s[m].type # "cut"
         /\ (\A n \in DOMAIN s : s[n].type # "cut") => Whole(s) = s
<1>1. PICK w \in 0..Len(s) :
        /\ Whole(s) = SubSeq(s, 1, w) /\ \A n \in 1..w : s[n].type # "cut"
        /\ w = Len(s) \/ (w + 1 \in 1..Len(s) /\ s[w + 1].type = "cut")
  BY WholeIs
<1>2. DOMAIN s = 1..Len(s) /\ Len(s) \in Nat
  OBVIOUS
<1>3. /\ Whole(s) \in Seq(Chunk) /\ Len(Whole(s)) = w
      /\ \A n \in 1..w : Whole(s)[n] = s[n] /\ n \in DOMAIN s
  <2>1. /\ SubSeq(s, 1, w) \in Seq(Chunk) /\ Len(SubSeq(s, 1, w)) = w
    <3>1. w \in Nat /\ w <= Len(s) /\ 1 \in Nat \ {0} /\ (1 <= w \/ w = 0)
      BY <1>2
    <3>2. /\ SubSeq(s, 1, w) \in Seq(Chunk)
          /\ Len(SubSeq(s, 1, w)) = IF 1 <= w THEN (w - 1) + 1 ELSE 0
      BY <3>1, PartOf
    <3> QED
      BY <3>1, <3>2
  <2>2. \A n \in 1..w : SubSeq(s, 1, w)[n] = s[(1 + n) - 1]
    <3>1. w \in Nat /\ w <= Len(s) /\ 1 \in Nat \ {0}
      BY <1>2
    <3> QED
      BY <2>1, <3>1, PartOf
  <2>3. \A n \in 1..w : (1 + n) - 1 = n /\ n \in 1..Len(s)
    BY <1>2
  <2> QED
    BY <1>1, <1>2, <2>1, <2>2, <2>3
<1>4. (\A n \in DOMAIN s : s[n].type # "cut") => w = Len(s)
  BY <1>1, <1>2
<1>5. SubSeq(s, 1, Len(s)) = s
  BY <1>2, PartOf
<1> QED
  BY <1>1, <1>3, <1>4, <1>5

\* What a file is made of that records are injected in which were extracted.
LEMMA FileMade ==
  ASSUME NEW b \in Seq(Chunk), IsBase(b), NEW s \in Seq(Chunk), \A n \in DOMAIN s : Kept(s[n]),
         NEW f, f = Injected(b, Len(b), OfKind(Whole(s), "early"), OfKind(Whole(s), "late"))
  PROVE  /\ f = Injected(b, Len(b), OfKind(f, "early"), OfKind(f, "late"))
         /\ \A n \in DOMAIN f : OfBase(f[n]) \/ (Kept(f[n]) /\ f[n].type # "cut")
<1> DEFINE w == Whole(s)
           e == OfKind(w, "early")
           l == OfKind(w, "late")
<1>1. b \in Seq(Chunk) /\ IsBase(b) /\ s \in Seq(Chunk)
  OBVIOUS
<1>2. /\ w \in Seq(Chunk)
      /\ \A n \in 1..Len(w) : \E m \in DOMAIN s :
           w[n] = s[m] /\ s[m].type # "cut"
  BY <1>1, WholeRecords
<1>3. f = Injected(b, Len(b), e, l)
  OBVIOUS
<1> HIDE DEF w
<1>4. e \in Seq(Chunk) /\ OneKind(e, "early") /\ l \in Seq(Chunk) /\ OneKind(l, "late")
  BY <1>2, KindPicks, KindIsOne
<1>5. \A k : \A n \in 1..Len(OfKind(w, k)) : \E m \in DOMAIN s :
         OfKind(w, k)[n] = s[m] /\ s[m].type # "cut"
  <2> SUFFICES ASSUME NEW k, NEW n \in 1..Len(OfKind(w, k))
               PROVE  \E m \in DOMAIN s :
                         OfKind(w, k)[n] = s[m] /\ s[m].type # "cut"
    OBVIOUS
  <2>1. PICK j \in 1..Len(w) : OfKind(w, k)[n] = w[j]
    BY <1>2, KindPicks
  <2> QED
    BY <1>2, <2>1
<1> HIDE DEF e, l
<1>6. f \in Seq(Chunk) /\ OfKind(f, "early") = e /\ OfKind(f, "late") = l
  BY <1>1, <1>3, <1>4, KindsInFile
<1>7. ASSUME NEW n \in DOMAIN f, ~OfBase(f[n])
      PROVE  Kept(f[n]) /\ f[n].type # "cut"
  <2>1. Kind(f[n]) = "early" \/ Kind(f[n]) = "late"
    BY <1>7 DEF Kind
  <2>2. n \in 1..Len(f)
    BY <1>6
  <2>3. \E j \in 1..Len(OfKind(f, Kind(f[n]))) : OfKind(f, Kind(f[n]))[j] = f[n]
    BY <1>6, <2>2, KindFinds
  <2>4. OfKind(f, Kind(f[n])) = OfKind(w, Kind(f[n]))
    BY <1>6, <2>1 DEF e, l
  <2>5. PICK m \in DOMAIN s : f[n] = s[m] /\ s[m].type # "cut"
    BY <1>5, <2>3, <2>4
  <2> QED
    BY <2>5
<1> QED
  BY <1>3, <1>6, <1>7

LEMMA RemadeInit == BlocksExtracted /\ Init => Remade
<1> SUFFICES ASSUME BlocksExtracted, Init PROVE Remade
  OBVIOUS
<1>1. saved = <<>> /\ bb = <<>> /\ Len(<<>>) = 0 /\ DOMAIN <<>> = {}
  BY EmptyFile DEF Init
<1>2. metadata = <<>> \/ metadata \in Blocks
  BY DEF Init
<1>3. \A n \in DOMAIN metadata : Kept(metadata[n])
  BY <1>1, <1>2 DEF BlocksExtracted
<1>4. 0 <= (IF pc = "saved" THEN 2 ELSE 1)
  OBVIOUS
<1> QED
  BY <1>1, <1>3, <1>4 DEF Remade

\* While records are injected, what was saved and what is to be saved stay.
LEMMA InjectingRemakes ==
  ASSUME Remade, pc \in {"copy", "early", "late", "put"}, pc' \in {"copy", "early", "late", "put"},
         saved' = saved, metadata' = metadata, base' = base, ~starved' => ~starved
  PROVE  Remade'
BY DEF Remade

\* A chunk is extracted, or dropped.
LEMMA ExtractRemakes ==
  ASSUME MetaInv, Making, Remade, ExtractChunk
  PROVE  Remade'
<1> DEFINE c == png[pos]
           f == saved[1]
<1>1. /\ png \in Seq(Chunk) /\ Len(png) \in Nat /\ pos \in Nat \ {0} /\ bb \in Seq(Chunk)
      /\ failed \in BOOLEAN /\ starved \in BOOLEAN
  BY DEF MetaInv, TypeOK
<1>2. /\ pc = "extract" /\ pc' = "extract" /\ pos' = pos + 1 /\ pos <= Len(png)
      /\ c.type \notin {"IEND", "cut"}
      /\ png' = png /\ keep_sbit' = keep_sbit /\ base' = base /\ metadata' = metadata
      /\ saved' = saved
      /\ IF IsDroppedType(c.type, keep_sbit)
           THEN UNCHANGED <<bb, failed, starved>>
           ELSE \E oom \in OutOfMemory : Put(c, oom)
  BY DEF ExtractChunk, MoreChunks
<1>3. pos \in DOMAIN png /\ c \in Chunk
  BY <1>1, <1>2
<1> HIDE DEF c
<1>4. ~starved' => ~starved /\ ~failed
  BY <1>2 DEF Making, Put
<1>5. ~IsDroppedType(c.type, keep_sbit) =>
        /\ bb' = bb \/ bb' = Append(bb, c)
        /\ ~starved' => bb' = Append(bb, c)
  <2>1. MetaAssumption /\ OutOfMemory \subseteq BOOLEAN
    BY MetaAssumption DEF MetaAssumption
  <2> QED
    BY <1>1, <1>2, <1>4, <2>1 DEF Put
<1>6. ~IsDroppedType(c.type, keep_sbit) => Kept(c)
  BY DEF IsDroppedType, Kept
<1>7. \A n \in DOMAIN bb : Kept(bb[n])
  BY <1>2 DEF Remade
\* With the chunk, or without it.
<1>8. /\ DOMAIN Append(bb, c) = 1..(Len(bb) + 1) /\ Append(bb, c)[Len(bb) + 1] = c
      /\ \A n \in DOMAIN bb : Append(bb, c)[n] = bb[n]
      /\ DOMAIN bb = 1..Len(bb) /\ Len(bb) \in Nat
  BY <1>1, <1>3, AppendFacts
<1>9. \A n \in DOMAIN bb' : Kept(bb'[n])
  <2>1. bb' = bb \/ (bb' = Append(bb, c) /\ Kept(c))
    BY <1>2, <1>5, <1>6
  <2> QED
    BY <1>7, <1>8, <2>1
<1>10. ASSUME Len(saved) = 1, ~starved'
       PROVE  /\ png = f /\ keep_sbit /\ pos + 1 <= Len(png) + 1
              /\ \A n \in DOMAIN bb' : bb'[n].type # "cut"
              /\ SameRecords(bb', SubSeq(png, 1, pos))
  <2>1. /\ png = f /\ keep_sbit
        /\ \A n \in DOMAIN bb : bb[n].type # "cut"
        /\ SameRecords(bb, SubSeq(png, 1, pos - 1))
        /\ \A n \in DOMAIN f : OfBase(f[n]) \/ (Kept(f[n]) /\ f[n].type # "cut")
    <3>1. saved # <<>>
      BY <1>10
    <3> QED
      BY <1>2, <1>4, <1>10, <3>1 DEF Remade
  <2>2. IsDroppedType(c.type, keep_sbit) <=> OfBase(c)
    <3>1. OfBase(c) \/ Kept(c)
      BY <1>3, <2>1 DEF c
    <3>2. OfBase(c) => IsDroppedType(c.type, keep_sbit)
      BY DEF OfBase, IsDroppedType, LayoutDependent
    <3>3. Kept(c) => ~IsDroppedType(c.type, keep_sbit)
      BY <2>1 DEF Kept
    <3> QED
      BY <3>1, <3>2, <3>3
  <2>3. bb' = IF OfBase(c) THEN bb ELSE Append(bb, c)
    BY <1>2, <1>5, <1>10, <2>2
  <2>4. \A n \in DOMAIN bb' : bb'[n].type # "cut"
    <3>1. c.type # "cut" /\ (bb' = bb \/ bb' = Append(bb, c))
      BY <1>2, <2>3
    <3>2. \A n \in DOMAIN Append(bb, c) : Append(bb, c)[n].type # "cut"
      BY <1>8, <2>1, <3>1
    <3> QED
      BY <2>1, <3>1, <3>2
  <2>5. SubSeq(png, 1, pos) = Append(SubSeq(png, 1, pos - 1), c)
    <3> DEFINE n == pos - 1
    <3>1. n \in Nat /\ n < Len(png) /\ 1 <= n + 1 /\ n + 1 = pos /\ 1 \in Nat \ {0}
      BY <1>1, <1>2
    <3>2. SubSeq(png, 1, n + 1) = Append(SubSeq(png, 1, n), png[n + 1])
      <4> HIDE DEF n
      <4> QED
        BY <1>1, <3>1, PartGrows
    <3> QED
      BY <3>1, <3>2 DEF c
  <2>6. SubSeq(png, 1, pos - 1) \in Seq(Chunk)
    <3>1. pos - 1 \in Nat /\ pos - 1 <= Len(png) /\ 1 \in Nat \ {0}
      BY <1>1, <1>2
    <3> QED
      BY <1>1, <3>1, PartOf
  <2> DEFINE h == SubSeq(png, 1, pos - 1)
  <2>7. SameRecords(bb', Append(h, c))
    <3> SUFFICES ASSUME NEW k \in {"early", "late"}
                 PROVE  OfKind(bb', k) = OfKind(Append(h, c), k)
      BY DEF SameRecords
    <3>1. OfKind(bb, k) = OfKind(h, k)
      BY <2>1 DEF SameRecords
    <3>2. h \in Seq(Chunk)
      BY <2>6
    <3> HIDE DEF h
    <3>3. OfKind(Append(h, c), k) = IF Kind(c) = k THEN Append(OfKind(h, k), c) ELSE OfKind(h, k)
      BY <1>3, <3>2, KindGrows
    <3>4. OfKind(Append(bb, c), k) = IF Kind(c) = k THEN Append(OfKind(bb, k), c)
                                                    ELSE OfKind(bb, k)
      BY <1>1, <1>3, KindGrows
    <3>5. OfBase(c) => Kind(c) # k
      BY DEF Kind
    <3> QED
      BY <2>3, <3>1, <3>3, <3>4, <3>5
  <2>8. pos + 1 <= Len(png) + 1
    BY <1>1, <1>2
  <2> QED
    BY <2>1, <2>4, <2>5, <2>7, <2>8
<1>11. (pos + 1) - 1 = pos
  BY <1>1
<1>12. \A n \in DOMAIN metadata : Kept(metadata[n])
  BY DEF Remade
<1>13. (saved # <<>> /\ ~starved') =>
           /\ f = Injected(base, Len(base), OfKind(f, "early"), OfKind(f, "late"))
           /\ \A n \in DOMAIN f : OfBase(f[n]) \/ (Kept(f[n]) /\ f[n].type # "cut")
  BY <1>4 DEF Remade
<1>14. Len(saved) <= 1 /\ ~(Len(saved) = 2)
  <2>1. Len(saved) <= 1 /\ Len(saved) \in Nat
    <3>1. Len(saved) <= 1
      BY <1>2 DEF Remade
    <3>2. saved \in Seq(Seq(Chunk))
      BY DEF MetaInv, TypeOK
    <3> QED
      BY <3>1, <3>2
  <2> DEFINE n == Len(saved)
  <2>2. n <= 1 /\ n \in Nat
    BY <2>1
  <2> HIDE DEF n
  <2>3. n <= 1 /\ ~(n = 2)
    BY <2>2
  <2> QED
    BY <2>3 DEF n
<1> QED
  BY <1>2, <1>9, <1>10, <1>11, <1>12, <1>13, <1>14 DEF Remade

\* All chunks have been looked at.
LEMMA ExtractedRemakes ==
  ASSUME MetaInv, Making, EndComesLast, Remade, ExtractDone
  PROVE  Remade'
<1> DEFINE f == saved[1]
<1>1. /\ png \in Seq(Chunk) /\ Len(png) \in Nat /\ pos \in Nat \ {0} /\ bb \in Seq(Chunk)
      /\ saved \in Seq(Seq(Chunk)) /\ Len(saved) \in Nat
  BY DEF MetaInv, TypeOK
<1>2. /\ pc = "extract" /\ pc' = "loaded" /\ ~MoreChunks
      /\ metadata' = IF failed THEN <<>> ELSE bb
      /\ base' = base /\ saved' = saved /\ starved' = starved
  BY DEF ExtractDone
<1>3. \A n \in DOMAIN metadata' : Kept(metadata'[n])
  <2>1. \A n \in DOMAIN bb : Kept(bb[n])
    BY <1>2 DEF Remade
  <2> QED
    BY <1>2, <2>1, EmptyFile
<1>4. Len(saved) <= 1 /\ ~(Len(saved) = 2)
  <2> DEFINE n == Len(saved)
  <2>1. n <= 1 /\ n \in Nat
    BY <1>1, <1>2 DEF Remade
  <2> HIDE DEF n
  <2>2. n <= 1 /\ ~(n = 2)
    BY <2>1
  <2> QED
    BY <2>2 DEF n
<1>5. ASSUME Len(saved) = 1, ~starved
      PROVE  /\ \A n \in DOMAIN metadata' : metadata'[n].type # "cut"
             /\ SameRecords(metadata', f)
  <2>1. /\ png = f /\ pos <= Len(png) + 1
        /\ \A n \in DOMAIN bb : bb[n].type # "cut"
        /\ SameRecords(bb, SubSeq(png, 1, pos - 1))
        /\ \A n \in DOMAIN f : OfBase(f[n]) \/ (Kept(f[n]) /\ f[n].type # "cut")
    <3>1. saved # <<>>
      BY <1>5
    <3> QED
      BY <1>2, <1>5, <3>1 DEF Remade
  <2>2. metadata' = bb
    BY <1>2, <1>5 DEF Making
  <2>3. SameRecords(SubSeq(png, 1, pos - 1), png)
    <3>1. CASE pos > Len(png)
      <4>1. pos - 1 = Len(png)
        BY <1>1, <2>1, <3>1
      <4>2. SubSeq(png, 1, Len(png)) = png
        BY <1>1, PartOf
      <4> QED
        BY <4>1, <4>2 DEF SameRecords
    <3>2. CASE pos <= Len(png)
      <4>1. pos \in DOMAIN png /\ png[pos] \in Chunk /\ png[pos].type \in {"IEND", "cut"}
        BY <1>1, <1>2, <3>2 DEF MoreChunks
      <4>2. OfBase(png[pos]) /\ png[pos].type = "IEND"
        <5>1. png[pos].type = "cut" => ~OfBase(png[pos])
          BY DEF OfBase, Structural
        <5> QED
          BY <2>1, <4>1, <5>1 DEF OfBase, Structural
      <4>3. pos = Len(png)
        <5>1. 1 \in DOMAIN saved
          BY <1>1, <1>5
        <5> QED
          BY <2>1, <4>1, <4>2, <5>1 DEF EndComesLast
      <4> DEFINE n == pos - 1
                 h == SubSeq(png, 1, n)
      <4>4. n \in Nat /\ n < Len(png) /\ n <= Len(png) /\ 1 <= n + 1 /\ n + 1 = pos
            /\ 1 \in Nat \ {0}
        BY <1>1, <4>3
      <4>5. SubSeq(png, 1, n + 1) = Append(h, png[n + 1]) /\ h \in Seq(Chunk)
        <5> HIDE DEF n
        <5>1. SubSeq(png, 1, n + 1) = Append(SubSeq(png, 1, n), png[n + 1])
          BY <1>1, <4>4, PartGrows
        <5>2. SubSeq(png, 1, n) \in Seq(Chunk)
          BY <1>1, <4>4, PartOf
        <5> QED
          BY <5>1, <5>2
      <4>6. SubSeq(png, 1, Len(png)) = png
        BY <1>1, PartOf
      <4>7. png = Append(h, png[pos])
        BY <4>3, <4>4, <4>5, <4>6
      <4>8. SameRecords(h, png)
        <5> SUFFICES ASSUME NEW k \in {"early", "late"} PROVE OfKind(h, k) = OfKind(png, k)
          BY DEF SameRecords
        <5>1. h \in Seq(Chunk)
          BY <4>5
        <5> HIDE DEF h, n
        <5>2. OfKind(Append(h, png[pos]), k)
                = IF Kind(png[pos]) = k THEN Append(OfKind(h, k), png[pos]) ELSE OfKind(h, k)
          BY <4>1, <5>1, KindGrows
        <5>3. Kind(png[pos]) # k
          BY <4>2 DEF Kind
        <5>4. OfKind(Append(h, png[pos]), k) = OfKind(h, k)
          BY <5>2, <5>3
        <5> QED
          BY <4>7, <5>4, Zenon
      <4> QED
        BY <4>8
    <3> QED
      BY <1>1, <3>1, <3>2
  <2>4. SameRecords(bb, f)
    BY <2>1, <2>3 DEF SameRecords
  <2> QED
    BY <2>1, <2>2, <2>4
<1>6. (saved # <<>> /\ ~starved') =>
           /\ f = Injected(base, Len(base), OfKind(f, "early"), OfKind(f, "late"))
           /\ \A n \in DOMAIN f : OfBase(f[n]) \/ (Kept(f[n]) /\ f[n].type # "cut")
  BY <1>2 DEF Remade
<1> QED
  BY <1>2, <1>3, <1>4, <1>5, <1>6 DEF Remade

\* Saving starts, when there are records to inject.
LEMMA SaveRemakes ==
  ASSUME MetaInv, Remade, Save, metadata # <<>>
  PROVE  Remade'
BY DEF Save, Remade

\* A file has been saved.
LEMMA SavedRemakes ==
  ASSUME MetaInv, MetaInv', Making', Remade, pc \notin {"extract", "saved"}, pc' = "saved",
         \E f \in Seq(Chunk) : saved' = Append(saved, f),
         base' = base, metadata' = metadata, starved' = starved
  PROVE  Remade'
<1>1. PICK f \in Seq(Chunk) : saved' = Append(saved, f)
  OBVIOUS
<1>2. saved \in Seq(Seq(Chunk)) /\ Len(saved) \in Nat
  BY DEF MetaInv, TypeOK
<1>3. Len(saved) <= 1
  BY DEF Remade
<1>4. /\ Len(saved') = Len(saved) + 1 /\ saved'[Len(saved) + 1] = f
      /\ \A n \in 1..Len(saved) : saved'[n] = saved[n]
  BY <1>1, <1>2
<1>5. \A n \in DOMAIN metadata : Kept(metadata[n])
  BY DEF Remade
<1>6. CASE Len(saved) = 0
  <2>1. Len(saved') = 1 /\ saved'[1] = saved'[Len(saved')]
    BY <1>4, <1>6
  <2> DEFINE g == saved'[1]
  <2>2. ~starved' =>
           /\ g = Injected(base', Len(base'), OfKind(g, "early"), OfKind(g, "late"))
           /\ \A n \in DOMAIN g : OfBase(g[n]) \/ (Kept(g[n]) /\ g[n].type # "cut")
    <3> SUFFICES ASSUME ~starved'
                 PROVE  /\ g = Injected(base', Len(base'), OfKind(g, "early"), OfKind(g, "late"))
                        /\ \A n \in DOMAIN g : OfBase(g[n]) \/ (Kept(g[n]) /\ g[n].type # "cut")
      OBVIOUS
    <3>1. g = f
      BY <1>4, <1>6
    <3>2. /\ f = Injected(base, Len(base), OfKind(f, "early"), OfKind(f, "late"))
          /\ \A n \in DOMAIN f : OfBase(f[n]) \/ (Kept(f[n]) /\ f[n].type # "cut")
      <4> DEFINE w == Whole(metadata)
      <4>1. f = Injected(base, Len(base), OfKind(w, "early"), OfKind(w, "late"))
        BY <1>4, <2>1 DEF Making
      <4> QED
        BY <1>5, <4>1, FileMade DEF MetaInv, TypeOK
    <3> HIDE DEF g
    <3> QED
      BY <3>1, <3>2, ZenonT(40)
  <2> QED
    BY <1>5, <2>1, <2>2 DEF Remade
<1>7. CASE Len(saved) = 1
  <2>1. Len(saved') = 2 /\ saved'[1] = saved[1] /\ saved # <<>> /\ saved' # <<>>
    BY <1>2, <1>4, <1>7
  <2>2. ~starved =>
           /\ \A n \in DOMAIN metadata : metadata[n].type # "cut"
           /\ SameRecords(metadata, saved[1])
    BY <1>7 DEF Remade
  <2>3. ~starved =>
           /\ saved[1] = Injected(base, Len(base), OfKind(saved[1], "early"),
                                  OfKind(saved[1], "late"))
           /\ \A n \in DOMAIN saved[1] :
                OfBase(saved[1][n]) \/ (Kept(saved[1][n]) /\ saved[1][n].type # "cut")
    BY <2>1 DEF Remade
  <2>4. (saved' # <<>> /\ ~starved') =>
           /\ saved'[1] = Injected(base', Len(base'), OfKind(saved'[1], "early"),
                                   OfKind(saved'[1], "late"))
           /\ \A n \in DOMAIN saved'[1] :
                OfBase(saved'[1][n]) \/ (Kept(saved'[1][n]) /\ saved'[1][n].type # "cut")
    BY <2>1, <2>3
  <2>5. ~starved' =>
           /\ \A n \in DOMAIN metadata' : metadata'[n].type # "cut"
           /\ SameRecords(metadata', saved'[1])
    BY <2>1, <2>2
  <2>6. Len(saved') # 1 /\ Len(saved') <= 2 /\ pc' = "saved"
    BY <2>1
  <2> QED
    BY <1>5, <2>4, <2>5, <2>6 DEF Remade
<1>8. Len(saved) = 0 \/ Len(saved) = 1
  <2> DEFINE n == Len(saved)
  <2>1. n \in Nat /\ n <= 1
    BY <1>2, <1>3
  <2> HIDE DEF n
  <2>2. n = 0 \/ n = 1
    BY <2>1
  <2> QED
    BY <2>2 DEF n
<1> QED
  BY <1>6, <1>7, <1>8

\* It is loaded again.
LEMMA ReloadRemakes ==
  ASSUME MetaInv, Remade, LoadSaved
  PROVE  Remade'
<1>1. /\ pc = "saved" /\ Len(saved) = 1 /\ png' = saved[1] /\ keep_sbit' = TRUE
      /\ pc' = "extract" /\ metadata' = <<>> /\ pos' = 1 /\ bb' = <<>>
      /\ base' = base /\ saved' = saved /\ starved' = starved
  BY DEF LoadSaved
<1>2. DOMAIN <<>> = {}
  BY EmptyFile
<1>3. saved \in Seq(Seq(Chunk)) /\ saved[1] \in Seq(Chunk) /\ Len(saved[1]) \in Nat /\ saved # <<>>
  BY <1>1 DEF MetaInv, TypeOK
<1>4. SubSeq(png', 1, pos' - 1) = <<>>
  <2>1. pos' - 1 = 0 /\ 0 <= Len(saved[1]) /\ 1 \in Nat \ {0} /\ 0 \in Nat
    BY <1>1, <1>3
  <2>2. SubSeq(saved[1], 1, 0) = <<>>
    BY <1>3, <2>1, PartOf
  <2> QED
    BY <1>1, <2>1, <2>2
<1>5. SameRecords(<<>>, <<>>)
  BY DEF SameRecords
<1>6. 1 <= Len(png') + 1
  BY <1>1, <1>3
<1>7. ~starved' =>
        /\ saved'[1] = Injected(base', Len(base'), OfKind(saved'[1], "early"),
                                OfKind(saved'[1], "late"))
        /\ \A n \in DOMAIN saved'[1] :
             OfBase(saved'[1][n]) \/ (Kept(saved'[1][n]) /\ saved'[1][n].type # "cut")
  <2>1. ~starved =>
           /\ saved[1] = Injected(base, Len(base), OfKind(saved[1], "early"),
                                  OfKind(saved[1], "late"))
           /\ \A n \in DOMAIN saved[1] :
                OfBase(saved[1][n]) \/ (Kept(saved[1][n]) /\ saved[1][n].type # "cut")
    BY <1>3 DEF Remade
  <2> QED
    BY <1>1, <2>1
<1>8. /\ png' = saved'[1] /\ keep_sbit' /\ pos' <= Len(png') + 1
      /\ \A n \in DOMAIN bb' : bb'[n].type # "cut"
      /\ SameRecords(bb', SubSeq(png', 1, pos' - 1))
  BY <1>1, <1>2, <1>4, <1>5, <1>6
<1>9. /\ \A n \in DOMAIN metadata' : Kept(metadata'[n])
      /\ \A n \in DOMAIN bb' : Kept(bb'[n])
      /\ Len(saved') = 1 /\ Len(saved') # 2 /\ pc' = "extract"
  BY <1>1, <1>2
<1> QED
  BY <1>7, <1>8, <1>9 DEF Remade

LEMMA RemadeStep ==
  MetaInv /\ MetaInv' /\ Making /\ Making' /\ EndComesLast /\ Remade /\ [Next]_vars => Remade'
<1> SUFFICES ASSUME MetaInv, MetaInv', Making, Making', EndComesLast, Remade, [Next]_vars
             PROVE  Remade'
  OBVIOUS
<1>1. CASE UNCHANGED vars
  BY <1>1 DEF vars, loopVars, Remade
<1>2. CASE InjectEarly \/ InjectLate \/ EmitDone
  <2>1. /\ pc \in {"copy", "early", "late", "put"} /\ pc' \in {"copy", "early", "late", "put"}
        /\ saved' = saved /\ metadata' = metadata /\ base' = base /\ starved' = starved
    BY <1>2 DEF InjectEarly, InjectLate, EmitDone
  <2> QED
    BY <2>1, InjectingRemakes
<1>3. CASE CopyChunk \/ EmitRecord
  <2>1. /\ pc \in {"copy", "early", "late", "put"} /\ pc' \in {"copy", "early", "late", "put"}
        /\ saved' = saved /\ metadata' = metadata /\ base' = base /\ (~starved' => ~starved)
    BY <1>3 DEF CopyChunk, EmitRecord, Put
  <2> QED
    BY <2>1, InjectingRemakes
<1>4. CASE Save
  <2>1. CASE metadata = <<>>
    <3>1. /\ pc = "loaded" /\ pc' = "saved" /\ saved' = Append(saved, base)
          /\ base' = base /\ metadata' = metadata /\ starved' = starved
      BY <1>4, <2>1 DEF Save
    <3>2. base \in Seq(Chunk)
      BY DEF MetaInv, TypeOK
    <3> QED
      BY <3>1, <3>2, SavedRemakes
  <2> QED
    BY <1>4, <2>1, SaveRemakes
<1>5. CASE InjectDone
  <2>1. /\ pc = "copy" /\ pc' = "saved" /\ saved' = Append(saved, IF failed THEN base ELSE bb)
        /\ base' = base /\ metadata' = metadata /\ starved' = starved
    BY <1>5 DEF InjectDone
  <2>2. (IF failed THEN base ELSE bb) \in Seq(Chunk)
    BY DEF MetaInv, TypeOK
  <2> QED
    BY <2>1, <2>2, SavedRemakes
<1> QED
  BY <1>1, <1>2, <1>3, <1>4, <1>5, ExtractRemakes, ExtractedRemakes, ReloadRemakes, Zenon DEF Next

LEMMA RemadeIsStable ==
  ASSUME MetaInv, Making, Remade
  PROVE  SavingIsStable
<1> SUFFICES ASSUME pc = "saved", Len(saved) = 2, ~starved PROVE saved[2] = saved[1]
  BY DEF SavingIsStable
<1>1. saved # <<>> /\ saved[Len(saved)] = saved[2] /\ metadata \in Seq(Chunk)
  BY DEF MetaInv, TypeOK
<1>2. ~failed
  BY DEF Making
<1>3. saved[2] = Injected(base, Len(base), OfKind(Whole(metadata), "early"),
                          OfKind(Whole(metadata), "late"))
  BY <1>1, <1>2 DEF Making
<1>4. /\ saved[1] = Injected(base, Len(base), OfKind(saved[1], "early"), OfKind(saved[1], "late"))
      /\ \A n \in DOMAIN metadata : metadata[n].type # "cut"
      /\ SameRecords(metadata, saved[1])
  BY <1>1 DEF Remade
<1>5. Whole(metadata) = metadata
  BY <1>1, <1>4, WholeRecords
<1>6. /\ OfKind(metadata, "early") = OfKind(saved[1], "early")
      /\ OfKind(metadata, "late") = OfKind(saved[1], "late")
  BY <1>4 DEF SameRecords
<1> QED
  BY <1>3, <1>4, <1>5, <1>6, Zenon

\* A saved file that is loaded and saved again stays the same (pxl_meta_extract and
\* pxl_meta_inject), if memory suffices and the block of a .pxl file, where one is loaded
\* first, has only what extraction keeps.
THEOREM SavingAgainIsStable == BlocksExtracted /\ Spec => []SavingIsStable
<1>1. Spec => [](MetaInv /\ Making /\ EndComesLast)
  BY MetaInvariant, FilesAreMade, EndsAreLast, PTL
<1>2. /\ MetaInv /\ MetaInv' /\ Making /\ Making' /\ EndComesLast /\ Remade /\ [Next]_vars
        => Remade'
  BY RemadeStep
<1>3. MetaInv /\ Making /\ Remade => SavingIsStable
  BY RemadeIsStable
<1> QED
  BY <1>1, <1>2, <1>3, RemadeInit, PTL DEF Spec

------------------------------------------------------------------------------
(* Qt: the place in the file                                                 *)

\* A decode leads to what the invariant says of decoded files, whoever asked for it.
LEMMA DecodeOnce ==
  ASSUME HandlerInv, Alive, EnsureDecoded
  PROVE  /\ dev' \in [file : QtFiles, at_end : BOOLEAN] /\ dev'.file = dev.file
         /\ decode_attempted' = TRUE /\ decode_ok' \in BOOLEAN /\ dev'.at_end = TRUE
         /\ ~decode_ok' => kind' = "Unknown"
         /\ decode_ok' => /\ kind' = (IF dev.file.kind = "still" THEN "Still" ELSE "Animated")
                          /\ dev.file.kind # "other"
         /\ decoded' = IF decode_ok' THEN {kind'} ELSE {}
         /\ decode_attempted => decode_ok' = decode_ok
         /\ ~decode_attempted => current_image = 0
<1>1. CASE decode_attempted
  <2>1. UNCHANGED <<dev, kind, decode_attempted, decode_ok, decoded>>
    BY <1>1 DEF EnsureDecoded
  <2> QED
    BY <1>1, <2>1, Zenon DEF HandlerInv, HandlerKeepsPlace
<1>2. CASE ~decode_attempted
  <2>1. PICK ok \in BOOLEAN : Decoding(ok) /\ (ok => dev.file.kind # "other")
    BY <1>2, Zenon DEF EnsureDecoded
  <2>2. dev' = [dev EXCEPT !.at_end = TRUE]
    BY <2>1 DEF Decoding
  <2>3. dev' \in [file : QtFiles, at_end : BOOLEAN] /\ dev'.file = dev.file /\ dev'.at_end = TRUE
    BY <2>2 DEF HandlerInv
  <2>4. /\ decode_attempted' = TRUE /\ decode_ok' = ok
        /\ kind' = IF ~ok THEN "Unknown"
                   ELSE IF dev.file.kind = "still" THEN "Still" ELSE "Animated"
        /\ decoded' = IF ok THEN {kind'} ELSE {}
    BY <2>1, Zenon DEF Decoding
  <2> QED
    BY <1>2, <2>1, <2>3, <2>4, Zenon DEF HandlerInv
<1> QED
  BY <1>1, <1>2, Zenon DEF HandlerInv

\* The file has frames for its handler to stand at.
LEMMA FramesOfFile ==
  ASSUME HandlerInv
  PROVE  /\ FileFrames \in Nat
         /\ dev.file.kind \notin {"still", "other"} => FileFrames > 0
BY QtAssumption DEF HandlerInv, QtAssumption, FileFrames

\* An answer that needs the file, with a place that is within it.
LEMMA AnswerKeeps ==
  ASSUME HandlerInv, Alive, EnsureDecoded,
         NEW op, NEW value, Answers(op, value),
         op \notin {"canRead", "nextImageDelay", "destroyed"},
         decode_ok' => current_image' \in 0..(IF kind' = "Animated" THEN FileFrames - 1 ELSE 0)
  PROVE  HandlerInv'
<1>1. answer'.op = op /\ answer' = [op |-> op, value |-> value]
  BY DEF Answers
<1>2. Alive'
  BY <1>1 DEF Alive
<1>3. FileFrames' = FileFrames
  BY DecodeOnce DEF FileFrames
<1>4. HandlerKeepsPlace'
  BY <1>1, <1>2, <1>3, DecodeOnce DEF HandlerKeepsPlace
<1> QED
  BY <1>4, DecodeOnce, Zenon DEF HandlerInv

\* Where a decoded file leaves its handler.
LEMMA PlaceInFile ==
  ASSUME HandlerInv, decode_ok
  PROVE  /\ kind \in {"Still", "Animated"}
         /\ kind = "Animated" => InRange(current_image) /\ current_image \in Nat
<1>1. kind \in {"Still", "Animated"}
  BY DEF HandlerInv
<1>2. current_image \in 0..(IF kind = "Animated" THEN FileFrames - 1 ELSE 0)
  BY DEF HandlerInv, HandlerKeepsPlace
<1>3. ASSUME kind = "Animated" PROVE current_image \in 0..(FileFrames - 1)
  BY <1>2, <1>3
<1> QED
  BY <1>1, <1>3, FramesOfFile DEF InRange

LEMMA PlaceStays ==
  ASSUME HandlerInv, Alive, EnsureDecoded, UNCHANGED current_image
  PROVE  decode_ok' => current_image' \in 0..(IF kind' = "Animated" THEN FileFrames - 1 ELSE 0)
<1>1. CASE decode_attempted
  BY <1>1, DecodeOnce DEF HandlerInv, HandlerKeepsPlace
<1>2. CASE ~decode_attempted
  <2>1. ASSUME decode_ok' PROVE 0 \in 0..(IF kind' = "Animated" THEN FileFrames - 1 ELSE 0)
    <3>1. CASE kind' = "Animated"
      <4>1. FileFrames > 0 /\ FileFrames \in Nat
        BY <2>1, <3>1, DecodeOnce, FramesOfFile, Zenon
      <4>2. 0 \in 0..(FileFrames - 1)
        BY <4>1
      <4> QED
        BY <3>1, <4>2
    <3>2. CASE kind' # "Animated"
      BY <3>2
    <3> QED
      BY <3>1, <3>2
  <2> QED
    BY <1>2, <2>1, DecodeOnce, Zenon
<1> QED
  BY <1>1, <1>2

LEMMA InitHandler == HandlerInit => HandlerInv
<1> SUFFICES ASSUME HandlerInit PROVE HandlerInv
  OBVIOUS
<1>1. PICK f \in QtFiles : dev = [file |-> f, at_end |-> FALSE]
  BY DEF HandlerInit
<1>2. dev \in [file : QtFiles, at_end : BOOLEAN] /\ dev.at_end = FALSE
  BY <1>1
<1> QED
  BY <1>2 DEF HandlerInit, HandlerInv, HandlerKeepsPlace, NoAnswer, Alive

LEMMA AskingKeeps ==
  HandlerInv /\ (read \/ imageCount \/ option) => HandlerInv'
<1> SUFFICES ASSUME HandlerInv, read \/ imageCount \/ option PROVE HandlerInv'
  OBVIOUS
<1>1. Alive /\ EnsureDecoded /\ UNCHANGED current_image
  BY DEF read, imageCount, option
<1>2. \E op \in {"read", "imageCount", "Animation", "Size"} : \E value : Answers(op, value)
  BY Zenon DEF read, imageCount, option
<1> QED
  BY <1>1, <1>2, AnswerKeeps, PlaceStays

LEMMA TellingKeeps ==
  HandlerInv /\ (canRead \/ currentImageNumber \/ nextImageDelay \/ loopCount \/ destroy)
    => HandlerInv'
<1> SUFFICES ASSUME HandlerInv,
                    canRead \/ currentImageNumber \/ nextImageDelay \/ loopCount \/ destroy
             PROVE  HandlerInv'
  OBVIOUS
<1>1. UNCHANGED <<dev, kind, decode_attempted, decode_ok, current_image>> /\ Alive
  BY DEF canRead, currentImageNumber, nextImageDelay, loopCount, destroy
<1>2. FileFrames' = FileFrames /\ (\A n : DelayOf(n)' = DelayOf(n))
  BY <1>1 DEF FileFrames, DelayOf
<1>3. DelayOf(current_image + 1)' = DelayOf(current_image + 1)
  BY <1>1 DEF DelayOf
<1>4. CASE canRead
  <2>1. decode_ok => kind = "Still" \/ InRange(current_image)
    BY PlaceInFile
  <2>2. answer'.op = "canRead" /\ (decode_attempted => answer'.value = Bool(decode_ok))
    BY <1>4, <2>1 DEF canRead, Answers, HandlerInv, Bool
  <2> QED
    BY <1>1, <1>2, <1>4, <2>2 DEF canRead, HandlerInv, HandlerKeepsPlace, Alive, Bool
<1>5. CASE currentImageNumber
  BY <1>1, <1>2, <1>5 DEF currentImageNumber, Answers, HandlerInv, HandlerKeepsPlace, Alive
<1>6. CASE nextImageDelay
  <2>1. (decode_ok /\ kind = "Animated") => InRange(current_image)
    BY PlaceInFile
  <2>2. answer'.op = "nextImageDelay"
        /\ (decode_ok /\ kind = "Animated" => answer'.value = DelayOf(current_image + 1))
    BY <1>6, <2>1 DEF nextImageDelay, Answers
  <2> QED
    BY <1>1, <1>2, <1>3, <1>6, <2>2 DEF nextImageDelay, HandlerInv, HandlerKeepsPlace, Alive
<1>7. CASE loopCount
  BY <1>1, <1>2, <1>7 DEF loopCount, Answers, HandlerInv, HandlerKeepsPlace, Alive
<1>8. CASE destroy
  BY <1>1, <1>2, <1>8 DEF destroy, Answers, HandlerInv, HandlerKeepsPlace, Alive
<1> QED
  BY <1>4, <1>5, <1>6, <1>7, <1>8

LEMMA JumpKeeps == HandlerInv /\ jumpToImage => HandlerInv'
<1> SUFFICES ASSUME HandlerInv, jumpToImage PROVE HandlerInv'
  OBVIOUS
<1>1. Alive /\ EnsureDecoded
  BY DEF jumpToImage
<1>2. PICK n \in -1..3 :
       IF ~decode_ok'
         THEN Answers("jumpToImage", 0) /\ UNCHANGED current_image
       ELSE IF kind' # "Animated"
         THEN Answers("jumpToImage", Bool(n = 0)) /\ current_image' = 0
         ELSE /\ Answers("jumpToImage", Bool(InRange(n)))
              /\ current_image' = IF InRange(n) THEN n ELSE current_image
  BY DEF jumpToImage
<1>3. \E value : Answers("jumpToImage", value)
  BY <1>2
<1>4. decode_ok' => current_image' \in 0..(IF kind' = "Animated" THEN FileFrames - 1 ELSE 0)
  <2>1. CASE UNCHANGED current_image
    BY <1>1, <2>1, PlaceStays
  <2>2. CASE kind' = "Animated" /\ InRange(n) /\ current_image' = n
    BY <2>2, FramesOfFile DEF InRange
  <2>3. CASE kind' # "Animated" /\ current_image' = 0
    BY <2>3
  <2> QED
    BY <1>2, <2>1, <2>2, <2>3
<1> QED
  BY <1>1, <1>3, <1>4, AnswerKeeps

LEMMA StepKeeps == HandlerInv /\ jumpToNextImage => HandlerInv'
<1> SUFFICES ASSUME HandlerInv, jumpToNextImage PROVE HandlerInv'
  OBVIOUS
<1>1. Alive /\ EnsureDecoded /\ \E value : Answers("jumpToNextImage", value)
  BY DEF jumpToNextImage
<1>2. decode_ok' => current_image' \in 0..(IF kind' = "Animated" THEN FileFrames - 1 ELSE 0)
  <2>1. CASE UNCHANGED current_image
    BY <1>1, <2>1, PlaceStays
  <2>2. CASE decode_ok' /\ kind' = "Animated" /\ MayStep /\ current_image' = current_image + 1
    <3>1. current_image \in Nat
      <4>1. CASE decode_attempted
        <5>1. decode_ok /\ kind' = kind
          BY <1>1, <2>2, <4>1, DecodeOnce DEF EnsureDecoded
        <5> QED
          BY <2>2, <5>1, PlaceInFile
      <4>2. CASE ~decode_attempted
        BY <1>1, <4>2, DecodeOnce
      <4> QED
        BY <4>1, <4>2
    <3> QED
      BY <2>2, <3>1, FramesOfFile DEF MayStep
  <2> QED
    BY <2>1, <2>2 DEF jumpToNextImage
<1> QED
  BY <1>1, <1>2, AnswerKeeps

\* In every order of Qt's calls the handler keeps its place (ensureDecoded and the calls
\* of pxl_handler.cpp).
THEOREM HandlerStaysInFile == HandlerSpec => []HandlerInv
<1>1. HandlerInv /\ [HandlerNext]_handlerVars => HandlerInv'
  <2> SUFFICES ASSUME HandlerInv, [HandlerNext]_handlerVars PROVE HandlerInv'
    OBVIOUS
  <2>1. CASE HandlerNext
    BY <2>1, AskingKeeps, TellingKeeps, JumpKeeps, StepKeeps, Zenon DEF HandlerNext
  <2>2. CASE UNCHANGED handlerVars
    BY <2>2 DEF handlerVars, HandlerInv, HandlerKeepsPlace, FileFrames, Alive, DelayOf
  <2> QED
    BY <2>1, <2>2
<1> QED
  BY <1>1, InitHandler, PTL DEF HandlerSpec

\* Whatever Qt asked before, the current image is one of the file, canRead answers as
\* read would, and the delay told is that of the frame that read shows.
THEOREM PlaceIsKept == HandlerSpec => []HandlerKeepsPlace
<1>1. HandlerInv => HandlerKeepsPlace
  BY DEF HandlerInv
<1> QED
  BY <1>1, HandlerStaysInFile, PTL

------------------------------------------------------------------------------
(* FFmpeg: entries, packet and cursor                                        *)

LEMMA SentFrames ==
  ASSUME NEW f \in Sent
  PROVE  /\ f.id \in 1..MaxSent /\ f.meta \in BOOLEAN /\ f # NoFrame
         /\ f.canvas \in {g.canvas : g \in FfFrames}
         /\ \A m \in BOOLEAN : [id |-> f.id, delay |-> Delay(f), meta |-> m] \in Entries
<1>1. PICK n \in 1..MaxSent, g \in FfFrames :
        f = [id |-> n, canvas |-> g.canvas, dur |-> g.dur, meta |-> g.meta]
  BY DEF Sent
<1>2. f.id = n /\ f.canvas = g.canvas /\ f.meta = g.meta
  BY <1>1
<1>3. f.id \in 1..MaxSent /\ f.meta \in BOOLEAN
  BY <1>2, FfmpegAssumption DEF FfmpegAssumption
<1>4. f # NoFrame
  BY <1>3, FfmpegAssumption DEF FfmpegAssumption, NoFrame
<1>5. \A m \in BOOLEAN : [id |-> f.id, delay |-> Delay(f), meta |-> m] \in Entries
  BY DEF Entries
<1> QED
  BY <1>2, <1>3, <1>4, <1>5

LEMMA InitFfmpeg == FfmpegInit => FfmpegInv
<1> SUFFICES ASSUME FfmpegInit PROVE FfmpegInv
  OBVIOUS
<1>1. QueueInOrder
  BY FfmpegAssumption DEF FfmpegInit, QueueInOrder, FfmpegAssumption
<1>2. EntriesAreAccepted
  BY FfmpegAssumption DEF FfmpegInit, EntriesAreAccepted, FfmpegAssumption
<1>3. PacketHasAll /\ OnePacket
  BY DEF FfmpegInit, PacketHasAll, OnePacket
<1>4. CursorInPacket /\ HandedOutInOrder
  BY DEF FfmpegInit, CursorInPacket, HandedOutInOrder
<1>5. ContextsOwn
  BY DEF FfmpegInit, ContextsOwn
<1> QED
  BY <1>1, <1>2, <1>3, <1>4, <1>5 DEF FfmpegInv

(* The queue *)

LEMMA QueueKeeps == FfmpegInv /\ FfmpegNext => QueueInOrder'
<1> SUFFICES ASSUME FfmpegInv, FfmpegNext PROVE QueueInOrder'
  OBVIOUS
<1> USE DEF FfmpegInv
<1>1. CASE SendFrame
  <2>1. PICK f \in FfFrames :
          queued' = [id |-> sent + 1, canvas |-> f.canvas, dur |-> f.dur, meta |-> f.meta]
    BY <1>1 DEF SendFrame
  <2>2. sent + 1 \in 1..MaxSent /\ sent' = sent + 1
    BY <1>1, FfmpegAssumption DEF SendFrame, QueueInOrder, FfmpegAssumption
  <2>3. queued' \in Sent
    BY <2>1, <2>2 DEF Sent
  <2> QED
    BY <1>1, <2>2, <2>3, FfmpegAssumption DEF SendFrame, QueueInOrder, FfmpegAssumption
<1>2. CASE SendEnd
  BY <1>2 DEF SendEnd, QueueInOrder
<1>3. CASE Receive
  BY <1>3 DEF Receive, EncReturns, QueueInOrder
<1>4. CASE TakeFrame
  <2>1. enc.eof = FALSE /\ enc \in [ frames : Seq(Entries), frame_count : Nat,
           frame_cap : Nat, n_filled : Nat,
           canvas : {0} \cup {f.canvas : f \in FfFrames}, metadata : 0..MaxSent, eof : BOOLEAN ]
    BY <1>4 DEF TakeFrame, QueueInOrder, EntriesAreAccepted
  <2>2. CASE queued # NoFrame
    BY <1>4, <2>1, <2>2 DEF TakeFrame, QueueInOrder
  <2>3. CASE queued = NoFrame /\ draining
    <3>1. enc' = [enc EXCEPT !.eof = TRUE] /\ enc_at' = "encode" /\ UNCHANGED <<queued, sent, enc_ret>>
      BY <1>4, <2>3 DEF TakeFrame
    <3>2. enc'.eof
      BY <2>1, <3>1
    <3> QED
      BY <3>1, <3>2 DEF QueueInOrder
  <2>4. CASE queued = NoFrame /\ ~draining
    BY <1>4, <2>1, <2>4 DEF TakeFrame, QueueInOrder, EncReturns
  <2> QED
    BY <2>2, <2>3, <2>4
<1>5. CASE GrowFrames
  <2>1. UNCHANGED <<queued, sent>> /\ ~enc.eof
    BY <1>5 DEF GrowFrames, QueueInOrder
  <2>2. CASE EncReturns("ENOMEM") /\ UNCHANGED enc
    BY <2>1, <2>2 DEF QueueInOrder, EncReturns
  <2>3. CASE enc' = [enc EXCEPT !.frame_cap = IF @ = 0 THEN FirstCap ELSE 2 * @]
             /\ UNCHANGED <<enc_at, enc_ret, frame>>
    <3>1. enc'.eof = enc.eof
      BY <2>3 DEF EntriesAreAccepted
    <3> QED
      BY <2>1, <2>3, <3>1 DEF QueueInOrder
  <2> QED
    BY <1>5, <2>2, <2>3 DEF GrowFrames
<1>6. CASE AppendFrame
  <2>1. UNCHANGED <<queued, sent>> /\ ~enc.eof
    BY <1>6 DEF AppendFrame, QueueInOrder
  <2>4. DOMAIN enc = {"frames", "frame_count", "frame_cap", "n_filled", "canvas", "metadata", "eof"}
    BY DEF EntriesAreAccepted
  <2>5. enc_at' \in {"idle", "take"} /\ enc_ret' \in {"ENOMEM", "EINVAL", enc_ret}
    BY <1>6 DEF AppendFrame, EncReturns
  <2>6. ASSUME enc' # enc PROVE enc'.eof = enc.eof
    <3>1. enc' = [enc EXCEPT
                   !.frames = Append(SubSeq(@, 1, enc.frame_count),
                                [ id |-> frame.id, delay |-> Delay(frame),
                                  meta |-> frame.meta /\ ~(enc.frame_count = 0) ]),
                   !.canvas = frame.canvas,
                   !.metadata = IF enc.frame_count = 0 /\ frame.meta THEN frame.id
                                ELSE IF enc.frame_count = 0 THEN 0 ELSE @,
                   !.frame_count = @ + 1,
                   !.n_filled = enc.frame_count + 1]
      BY <1>6, <2>6, Zenon DEF AppendFrame
    <3> QED
      BY <2>4, <3>1
  <2>7. ~enc'.eof
    BY <2>1, <2>6
  <2> QED
    BY <2>1, <2>5, <2>7 DEF QueueInOrder
<1>7. CASE EncodeFrames
  <2>1. enc'.eof = enc.eof
    BY <1>7 DEF EncodeFrames, PacketOut, EntriesAreAccepted
  <2>2. /\ enc_at = "encode" /\ enc_at' = "idle" /\ UNCHANGED <<queued, sent>>
    BY <1>7 DEF EncodeFrames, EncReturns
  <2>3. enc.eof
    BY <2>2 DEF QueueInOrder
  <2>4. enc'.eof
    BY <2>1, <2>3
  <2> QED
    BY <2>2, <2>4 DEF QueueInOrder
<1>8. CASE CloseEncoder
  BY <1>8 DEF CloseEncoder, QueueInOrder
<1>9. CASE FeedPacket \/ ReceiveFrame \/ HandOut \/ CloseDecoder
  BY <1>9 DEF FeedPacket, ReceiveFrame, HandOut, CloseDecoder, encVars, QueueInOrder
<1> QED
  BY <1>1, <1>2, <1>3, <1>4, <1>5, <1>6, <1>7, <1>8, <1>9 DEF FfmpegNext

(* The entries, which only AppendFrame adds to *)

\* What becomes of the entries when a frame is appended.
LEMMA AppendedEntry ==
  ASSUME FfmpegInv, AppendFrame, accepted' # accepted
  PROVE  /\ frame \in Sent /\ accepted' = Append(accepted, frame)
         /\ packets = <<>> /\ ~enc.eof /\ enc.frame_count = Len(accepted)
         /\ enc.frame_count < enc.frame_cap
         /\ \E d : enc' = [ frames |-> Append(enc.frames, [id |-> frame.id, delay |-> Delay(frame),
                                       meta |-> frame.meta /\ accepted # <<>>]),
                     frame_count |-> Len(accepted) + 1, frame_cap |-> enc.frame_cap,
                     n_filled |-> Len(accepted) + 1, canvas |-> frame.canvas,
                     metadata |-> d, eof |-> FALSE ]
              /\ d = IF accepted # <<>> THEN enc.metadata
                     ELSE IF frame.meta THEN frame.id ELSE 0
         /\ av_heap' = av_heap \cup FrameBlocks(frame)
<1> USE DEF FfmpegInv
<1>1. /\ frame \in Sent /\ ~enc.eof
  BY DEF AppendFrame, QueueInOrder
<1>2. packets = <<>> /\ enc.frame_count = Len(accepted) /\ Len(enc.frames) = Len(accepted)
  BY <1>1 DEF PacketHasAll, EntriesAreAccepted
<1>3. /\ enc \in [ frames : Seq(Entries), frame_count : Nat, frame_cap : Nat, n_filled : Nat,
                  canvas : {0} \cup {f.canvas : f \in FfFrames}, metadata : 0..MaxSent,
                  eof : BOOLEAN ]
      /\ accepted \in Seq(Sent)
  BY DEF EntriesAreAccepted
<1>4. SubSeq(enc.frames, 1, enc.frame_count) = enc.frames
  BY <1>2, <1>3
<1>5. enc.frame_count = 0 <=> accepted = <<>>
  BY <1>2, <1>3
<1> DEFINE first == enc.frame_count = 0
           e == [id |-> frame.id, delay |-> Delay(frame), meta |-> frame.meta /\ ~first]
           d == IF first /\ frame.meta THEN frame.id ELSE IF first THEN 0 ELSE enc.metadata
<1>6. /\ enc' = [enc EXCEPT
               !.frames = Append(SubSeq(@, 1, enc.frame_count), e),
               !.canvas = frame.canvas, !.metadata = IF first /\ frame.meta THEN frame.id ELSE IF first THEN 0 ELSE @,
               !.frame_count = @ + 1, !.n_filled = enc.frame_count + 1]
      /\ accepted' = Append(accepted, frame) /\ av_heap' = av_heap \cup FrameBlocks(frame)
      /\ enc.frame_count < enc.frame_cap
  BY DEF AppendFrame
<1> HIDE DEF e
<1>7. enc' = [ frames |-> Append(enc.frames, e), frame_count |-> Len(accepted) + 1,
               frame_cap |-> enc.frame_cap, n_filled |-> Len(accepted) + 1,
               canvas |-> frame.canvas, metadata |-> d, eof |-> FALSE ]
  BY <1>1, <1>2, <1>3, <1>4, <1>6
<1>8. e = [id |-> frame.id, delay |-> Delay(frame), meta |-> frame.meta /\ accepted # <<>>]
  BY <1>5, Zenon DEF e
<1>9. d = IF accepted # <<>> THEN enc.metadata ELSE IF frame.meta THEN frame.id ELSE 0
  BY <1>5
<1> HIDE DEF d
<1> QED
  BY <1>1, <1>2, <1>6, <1>7, <1>8, <1>9

LEMMA AppendKeepsEntries ==
  ASSUME FfmpegInv, AppendFrame, accepted' # accepted
  PROVE  EntriesAreAccepted'
<1> USE DEF FfmpegInv
<1> DEFINE e == [id |-> frame.id, delay |-> Delay(frame), meta |-> frame.meta /\ accepted # <<>>]
<1>1. PICK d :
        /\ enc' = [ frames |-> Append(enc.frames, e),
                   frame_count |-> Len(accepted) + 1, frame_cap |-> enc.frame_cap,
                   n_filled |-> Len(accepted) + 1, canvas |-> frame.canvas,
                   metadata |-> d, eof |-> FALSE ]
        /\ d = IF accepted # <<>> THEN enc.metadata ELSE IF frame.meta THEN frame.id ELSE 0
  BY AppendedEntry
<1>2. frame \in Sent /\ accepted' = Append(accepted, frame)
  BY AppendedEntry
<1>3. /\ accepted \in Seq(Sent) /\ enc.frames \in Seq(Entries) /\ enc.frame_cap \in Nat
      /\ enc.metadata \in 0..MaxSent /\ Len(enc.frames) = Len(accepted)
      /\ \A k \in DOMAIN accepted :
           /\ enc.frames[k].id = accepted[k].id /\ enc.frames[k].delay = Delay(accepted[k])
           /\ enc.frames[k].meta <=> accepted[k].meta /\ k > 1
      /\ accepted # <<>> => enc.metadata = IF accepted[1].meta THEN accepted[1].id ELSE 0
  BY DEF EntriesAreAccepted
<1>4. /\ frame.id \in 1..MaxSent /\ frame.meta \in BOOLEAN
      /\ frame.canvas \in {g.canvas : g \in FfFrames}
      /\ e \in Entries
  BY <1>2, SentFrames
<1>5. e.id = frame.id /\ e.delay = Delay(frame) /\ (e.meta <=> frame.meta /\ accepted # <<>>)
  OBVIOUS
<1> HIDE DEF e
<1>6. d \in 0..MaxSent
  BY <1>1, <1>3, <1>4, FfmpegAssumption DEF FfmpegAssumption
<1>7. Append(enc.frames, e) \in Seq(Entries) /\ Len(Append(enc.frames, e)) = Len(accepted) + 1
  BY <1>3, <1>4
<1>8. Append(accepted, frame) \in Seq(Sent) /\ Len(Append(accepted, frame)) = Len(accepted) + 1
      /\ DOMAIN Append(accepted, frame) = 1..(Len(accepted) + 1) /\ Len(accepted) \in Nat
      /\ DOMAIN accepted = 1..Len(accepted)
  BY <1>2, <1>3
<1>9. ASSUME NEW k \in 1..(Len(accepted) + 1)
      PROVE  /\ Append(enc.frames, e)[k].id = Append(accepted, frame)[k].id
             /\ Append(enc.frames, e)[k].delay = Delay(Append(accepted, frame)[k])
             /\ Append(enc.frames, e)[k].meta <=> Append(accepted, frame)[k].meta /\ k > 1
  <2>1. CASE k \in 1..Len(accepted)
    <3>1. Append(enc.frames, e)[k] = enc.frames[k] /\ Append(accepted, frame)[k] = accepted[k]
      BY <1>2, <1>3, <1>4, <2>1
    <3> QED
      BY <1>3, <1>8, <2>1, <3>1
  <2>2. CASE k = Len(accepted) + 1
    <3>1. Append(enc.frames, e)[k] = e /\ Append(accepted, frame)[k] = frame
      BY <1>2, <1>3, <1>4, <2>2
    <3>2. k > 1 <=> accepted # <<>>
      BY <1>3, <1>8, <2>2
    <3>3. e.meta <=> frame.meta /\ k > 1
      BY <1>5, <3>2
    <3> QED
      BY <1>5, <3>1, <3>3, Zenon
  <2>3. k \in 1..Len(accepted) \/ k = Len(accepted) + 1
    BY <1>8
  <2> QED
    BY <2>1, <2>2, <2>3, Zenon
<1>10. d = IF Append(accepted, frame)[1].meta THEN Append(accepted, frame)[1].id ELSE 0
  <2>1. CASE accepted = <<>>
    <3>1. Append(accepted, frame)[1] = frame
      BY <1>2, <2>1
    <3> QED
      BY <1>1, <2>1, <3>1
  <2>2. CASE accepted # <<>>
    <3>1. Append(accepted, frame)[1] = accepted[1]
      BY <1>2, <1>3, <2>2
    <3> QED
      BY <1>1, <1>3, <2>2, <3>1
  <2> QED
    BY <2>1, <2>2
<1>11. /\ enc'.frames = Append(enc.frames, e) /\ enc'.n_filled = Len(accepted) + 1
       /\ enc'.metadata = d
       /\ enc' \in [ frames : Seq(Entries), frame_count : Nat, frame_cap : Nat, n_filled : Nat,
                     canvas : {0} \cup {f.canvas : f \in FfFrames}, metadata : 0..MaxSent,
                     eof : BOOLEAN ]
  BY <1>1, <1>3, <1>4, <1>6, <1>7, <1>8
<1>12. \A k \in DOMAIN accepted' :
         /\ enc'.frames[k].id = accepted'[k].id /\ enc'.frames[k].delay = Delay(accepted'[k])
         /\ enc'.frames[k].meta <=> accepted'[k].meta /\ k > 1
  BY <1>2, <1>8, <1>9, <1>11
<1> QED
  BY <1>2, <1>7, <1>8, <1>10, <1>11, <1>12, Zenon DEF EntriesAreAccepted

\* All other steps leave the entries, and what was accepted, as they are.
LEMMA EntriesStay ==
  ASSUME FfmpegInv, FfmpegNext, accepted' = accepted
  PROVE  /\ enc' \in [ frames : Seq(Entries), frame_count : Nat, frame_cap : Nat, n_filled : Nat,
                      canvas : {0} \cup {f.canvas : f \in FfFrames}, metadata : 0..MaxSent,
                      eof : BOOLEAN ]
         /\ enc'.frames = enc.frames /\ enc'.n_filled = enc.n_filled
         /\ enc'.metadata = enc.metadata /\ (enc.eof => enc'.eof)
         /\ enc'.frame_cap >= enc.frame_cap
         /\ enc'.frame_count \in {0, enc.frame_count}
<1> USE DEF FfmpegInv
<1>1. enc \in [ frames : Seq(Entries), frame_count : Nat, frame_cap : Nat, n_filled : Nat,
               canvas : {0} \cup {f.canvas : f \in FfFrames}, metadata : 0..MaxSent,
               eof : BOOLEAN ]
  BY DEF EntriesAreAccepted
<1>2. CASE TakeFrame
  <2>1. CASE enc' = enc
    BY <1>1, <2>1
  <2>2. CASE enc' = [enc EXCEPT !.eof = TRUE]
    <3>1. enc'.eof
      BY <1>1, <2>2, Zenon
    <3>2. /\ enc'.frames = enc.frames /\ enc'.n_filled = enc.n_filled
          /\ enc'.metadata = enc.metadata /\ enc'.frame_cap = enc.frame_cap
          /\ enc'.frame_count = enc.frame_count
      BY <1>1, <2>2
    <3>3. enc' \in [ frames : Seq(Entries), frame_count : Nat, frame_cap : Nat, n_filled : Nat,
                    canvas : {0} \cup {f.canvas : f \in FfFrames}, metadata : 0..MaxSent,
                    eof : BOOLEAN ]
      BY <1>1, <2>2
    <3> QED
      BY <1>1, <3>1, <3>2, <3>3
  <2>3. enc' = enc \/ enc' = [enc EXCEPT !.eof = TRUE]
    BY <1>2 DEF TakeFrame
  <2> QED
    BY <2>1, <2>2, <2>3, Zenon
<1>3. CASE GrowFrames
  <2>1. CASE enc' = enc
    BY <1>1, <2>1
  <2>2. CASE enc' = [enc EXCEPT !.frame_cap = IF @ = 0 THEN FirstCap ELSE 2 * @]
    <3> DEFINE n == IF enc.frame_cap = 0 THEN FirstCap ELSE 2 * enc.frame_cap
    <3>1. n \in Nat /\ n >= enc.frame_cap
      BY <1>1, FfmpegAssumption DEF FfmpegAssumption
    <3>2. enc' = [enc EXCEPT !.frame_cap = n]
      BY <2>2
    <3> HIDE DEF n
    <3> QED
      BY <1>1, <3>1, <3>2
  <2> QED
    BY <1>3, <2>1, <2>2 DEF GrowFrames
<1>4. CASE AppendFrame
  <2>1. Append(accepted, frame) # accepted
    BY <1>4 DEF AppendFrame, QueueInOrder, EntriesAreAccepted
  <2>2. enc' = enc
    BY <1>4, <2>1 DEF AppendFrame
  <2> QED
    BY <1>1, <2>2
<1>5. CASE EncodeFrames
  <2>1. enc' = enc \/ enc' = [enc EXCEPT !.frame_count = 0]
    BY <1>5 DEF EncodeFrames, PacketOut
  <2> QED
    BY <1>1, <2>1
<1>6. CASE enc' = enc
  BY <1>1, <1>6
<1> QED
  BY <1>2, <1>3, <1>4, <1>5, <1>6
  DEF FfmpegNext, SendFrame, SendEnd, Receive, CloseEncoder, FeedPacket, ReceiveFrame,
      HandOut, CloseDecoder, encVars

LEMMA EntriesKeep == FfmpegInv /\ FfmpegNext => EntriesAreAccepted'
<1> SUFFICES ASSUME FfmpegInv, FfmpegNext PROVE EntriesAreAccepted'
  OBVIOUS
<1>1. CASE accepted' = accepted
  BY <1>1, EntriesStay DEF EntriesAreAccepted, FfmpegInv
<1>2. CASE accepted' # accepted
  <2>1. AppendFrame
    BY <1>2 DEF FfmpegNext, SendFrame, SendEnd, Receive, TakeFrame, GrowFrames, EncodeFrames,
                CloseEncoder, FeedPacket, ReceiveFrame, HandOut, CloseDecoder, encVars
  <2> QED
    BY <1>2, <2>1, AppendKeepsEntries
<1> QED
  BY <1>1, <1>2

(* The packet *)

LEMMA PacketKeeps == FfmpegInv /\ FfmpegNext => PacketHasAll' /\ OnePacket'
<1> SUFFICES ASSUME FfmpegInv, FfmpegNext PROVE PacketHasAll' /\ OnePacket'
  OBVIOUS
<1> USE DEF FfmpegInv
<1>0. EntriesAreAccepted' /\ QueueInOrder'
  BY EntriesKeep, QueueKeeps
<1>1. PacketHasAll'
  <2>1. CASE accepted' # accepted
    <3>1. AppendFrame
      BY <2>1 DEF FfmpegNext, SendFrame, SendEnd, Receive, TakeFrame, GrowFrames, EncodeFrames,
                  CloseEncoder, FeedPacket, ReceiveFrame, HandOut, CloseDecoder, encVars
    <3>2. packets' = <<>> /\ enc'.frame_count = enc'.n_filled
      BY <2>1, <3>1, AppendedEntry DEF AppendFrame
    <3> QED
      BY <3>2 DEF PacketHasAll
  <2>2. CASE accepted' = accepted /\ packets' # packets
    <3>1. EncodeFrames
      BY <2>2 DEF FfmpegNext, SendFrame, SendEnd, Receive, TakeFrame, GrowFrames, AppendFrame,
                  CloseEncoder, FeedPacket, ReceiveFrame, HandOut, CloseDecoder, encVars
    <3>2. /\ enc.frame_count > 0 /\ enc' = PacketOut /\ enc.eof
          /\ packets' = Append(packets, SubSeq(enc.frames, 1, enc.frame_count))
      BY <2>2, <3>1 DEF EncodeFrames, QueueInOrder
    <3>3. packets = <<>> /\ enc.frame_count = Len(enc.frames) /\ enc.frames \in Seq(Entries)
          /\ enc.frame_count = enc.n_filled
      BY <3>2 DEF PacketHasAll, EntriesAreAccepted
    <3>4. SubSeq(enc.frames, 1, enc.frame_count) = enc.frames
      <4> DEFINE fs == enc.frames
      <4>1. fs \in Seq(Entries) /\ enc.frame_count = Len(fs)
        BY <3>3
      <4> HIDE DEF fs
      <4>2. SubSeq(fs, 1, Len(fs)) = fs
        BY <4>1
      <4> QED
        BY <4>1, <4>2 DEF fs
    <3>5. packets' = <<enc.frames>>
      BY <3>2, <3>3, <3>4
    <3>6. enc'.frames = enc.frames /\ enc'.frame_count = 0 /\ enc'.n_filled = enc.n_filled
          /\ enc'.eof
      BY <3>2 DEF PacketOut, EntriesAreAccepted
    <3> QED
      BY <3>2, <3>3, <3>5, <3>6 DEF PacketHasAll
  <2>3. CASE accepted' = accepted /\ packets' = packets
    <3>1. CASE packets = <<>>
      <4>1. enc'.frame_count = enc.frame_count
        <5>1. \A n \in Nat : [enc EXCEPT !.frame_cap = n].frame_count = enc.frame_count
              /\ [enc EXCEPT !.eof = TRUE].frame_count = enc.frame_count
          BY DEF EntriesAreAccepted
        <5>2. CASE GrowFrames
          BY <5>1, <5>2, FfmpegAssumption DEF GrowFrames, FfmpegAssumption, EntriesAreAccepted
        <5>3. CASE TakeFrame
          BY <5>1, <5>3 DEF TakeFrame
        <5>4. CASE AppendFrame
          <6>1. Append(accepted, frame) # accepted
            BY <5>4 DEF AppendFrame, QueueInOrder, EntriesAreAccepted
          <6> QED
            BY <2>3, <5>4, <6>1 DEF AppendFrame
        <5>5. CASE EncodeFrames
          <6>1. packets' # Append(packets, SubSeq(enc.frames, 1, enc.frame_count))
            BY <2>3, <3>1
          <6> QED
            BY <5>5, <6>1 DEF EncodeFrames
        <5>6. CASE enc' = enc
          BY <5>6
        <5> QED
          BY <5>2, <5>3, <5>4, <5>5, <5>6
          DEF FfmpegNext, SendFrame, SendEnd, Receive, CloseEncoder, FeedPacket, ReceiveFrame,
              HandOut, CloseDecoder, encVars
      <4> QED
        BY <2>3, <3>1, <4>1, EntriesStay DEF PacketHasAll
    <3>2. CASE packets # <<>>
      BY <2>3, <3>2, EntriesStay DEF PacketHasAll
    <3> QED
      BY <3>1, <3>2
  <2> QED
    BY <2>1, <2>2, <2>3
<1>2. OnePacket'
  <2>1. CASE packets' = <<>>
    <3>1. ASSUME enc_ret' = "EOF" PROVE accepted' = <<>>
      <4>1. CASE EncodeFrames
        <5>1. enc.frame_count = 0 /\ UNCHANGED packets /\ UNCHANGED accepted
          BY <2>1, <3>1, <4>1 DEF EncodeFrames, EncReturns
        <5> QED
          BY <2>1, <5>1 DEF PacketHasAll, EntriesAreAccepted
      <4>2. CASE UNCHANGED <<enc_ret, packets>>
        <5>1. accepted = <<>> /\ enc.eof
          BY <2>1, <3>1, <4>2 DEF OnePacket, QueueInOrder
        <5>2. CASE accepted' # accepted
          <6>1. AppendFrame
            BY <5>2 DEF FfmpegNext, SendFrame, SendEnd, Receive, TakeFrame, GrowFrames,
                 EncodeFrames, CloseEncoder, FeedPacket, ReceiveFrame, HandOut, CloseDecoder, encVars
          <6> QED
            BY <5>1, <5>2, <6>1, AppendedEntry
        <5> QED
          BY <5>1, <5>2
      <4>3. ASSUME enc_ret' # enc_ret, ~EncodeFrames PROVE enc_ret' # "EOF"
        BY <4>3 DEF FfmpegNext, SendFrame, SendEnd, Receive, TakeFrame, GrowFrames, AppendFrame,
             CloseEncoder, FeedPacket, ReceiveFrame, HandOut, CloseDecoder, encVars, EncReturns
      <4>4. EncodeFrames \/ UNCHANGED packets
        BY DEF FfmpegNext, SendFrame, SendEnd, Receive, TakeFrame, GrowFrames, AppendFrame,
             CloseEncoder, FeedPacket, ReceiveFrame, HandOut, CloseDecoder, encVars
      <4> QED
        BY <3>1, <4>1, <4>2, <4>3, <4>4
    <3> QED
      BY <2>1, <3>1 DEF OnePacket
  <2>2. CASE packets' # <<>>
    <3>1. packets' = <<enc'.frames>>
      BY <1>1, <2>2 DEF PacketHasAll
    <3>2. Len(packets') = 1 /\ packets'[1] = enc'.frames
      BY <3>1
    <3>3. DOMAIN enc'.frames = DOMAIN accepted'
      BY <1>0 DEF EntriesAreAccepted
    <3>4. \A k \in DOMAIN accepted' : enc'.frames[k].id = accepted'[k].id
      BY <1>0 DEF EntriesAreAccepted
    <3>5. [k \in DOMAIN packets'[1] |-> packets'[1][k].id]
            = [k \in DOMAIN accepted' |-> accepted'[k].id]
      BY <3>2, <3>3, <3>4
    <3> QED
      BY <2>2, <3>2, <3>5 DEF OnePacket
  <2> QED
    BY <2>1, <2>2
<1> QED
  BY <1>1, <1>2

(* The heap *)

LEMMA NotAnim ==
  /\ \A f : \A b \in FrameBlocks(f) : b[1] # "anim"
  /\ <<"frames", 0>>[1] # "anim" /\ <<"anim", 0>>[1] = "anim"
BY DEF FrameBlocks

LEMMA OwnedKeeps ==
  ASSUME FfmpegInv, FfmpegNext
  PROVE  { b \in av_heap' : b[1] # "anim" } =
           IF enc_at' = "closed" THEN {}
           ELSE (UNION { FrameBlocks(accepted'[k]) : k \in DOMAIN accepted' })
                  \cup (IF enc'.frame_cap > 0 THEN {<<"frames", 0>>} ELSE {})
<1> USE DEF FfmpegInv
<1> DEFINE Owned == UNION { FrameBlocks(accepted[k]) : k \in DOMAIN accepted }
           Array == IF enc.frame_cap > 0 THEN {<<"frames", 0>>} ELSE {}
           Held == { b \in av_heap : b[1] # "anim" }
<1>1. Held = IF enc_at = "closed" THEN {} ELSE Owned \cup Array
  BY DEF ContextsOwn
<1>2. CASE AppendFrame /\ accepted' # accepted
  <2>1. /\ frame \in Sent /\ accepted' = Append(accepted, frame)
        /\ av_heap' = av_heap \cup FrameBlocks(frame)
        /\ enc'.frame_cap = enc.frame_cap
    BY <1>2, AppendedEntry
  <2>2. enc_at = "append" /\ enc_at' = "take"
    BY <1>2 DEF AppendFrame
  <2>3. { b \in av_heap' : b[1] # "anim" } = Held \cup FrameBlocks(frame)
    BY <2>1, NotAnim
  <2>4. /\ DOMAIN accepted' = DOMAIN accepted \cup {Len(accepted) + 1}
        /\ \A k \in DOMAIN accepted : accepted'[k] = accepted[k]
        /\ accepted'[Len(accepted) + 1] = frame
    BY <2>1 DEF EntriesAreAccepted
  <2>5. UNION { FrameBlocks(accepted'[k]) : k \in DOMAIN accepted' } = Owned \cup FrameBlocks(frame)
    BY <2>4, Zenon
  <2> HIDE DEF Owned, Array, Held
  <2>6. Array = IF enc'.frame_cap > 0 THEN {<<"frames", 0>>} ELSE {}
    BY <2>1 DEF Array
  <2>7. Held \cup FrameBlocks(frame) = (Owned \cup FrameBlocks(frame)) \cup Array
    BY <1>1, <2>2
  <2> QED
    BY <2>2, <2>3, <2>5, <2>6, <2>7
<1>3. CASE GrowFrames /\ enc' # enc
  <2>1. /\ av_heap' = av_heap \cup {<<"frames", 0>>} /\ accepted' = accepted
        /\ enc_at = "append" /\ enc_at' = "append"
    BY <1>3 DEF GrowFrames
  <2>2. enc'.frame_cap > 0
    <3>1. enc' = [enc EXCEPT !.frame_cap = IF @ = 0 THEN FirstCap ELSE 2 * @]
      BY <1>3 DEF GrowFrames
    <3> QED
      BY <3>1, FfmpegAssumption DEF FfmpegAssumption, EntriesAreAccepted
  <2>3. { b \in av_heap' : b[1] # "anim" } = Held \cup {<<"frames", 0>>}
    BY <2>1, NotAnim
  <2> HIDE DEF Owned, Held
  <2>4. Held \cup {<<"frames", 0>>} = Owned \cup {<<"frames", 0>>}
    BY <1>1, <2>1
  <2>5. UNION { FrameBlocks(accepted'[k]) : k \in DOMAIN accepted' } = Owned
    BY <2>1 DEF Owned
  <2> QED
    BY <2>1, <2>2, <2>3, <2>4, <2>5
<1>4. CASE CloseEncoder
  <2>1. /\ enc_at = "idle" /\ enc_at' = "closed"
        /\ av_heap' = av_heap \
             ( (UNION { {<<"pixels", enc.frames[k].id>>}
                          \cup (IF enc.frames[k].meta THEN {<<"records", enc.frames[k].id>>} ELSE {})
                        : k \in Filled })
                 \cup {<<"frames", 0>>, <<"records", enc.metadata>>} )
    BY <1>4 DEF CloseEncoder
  <2>2. ASSUME NEW b \in av_heap', b[1] # "anim" PROVE FALSE
    <3>1. b \in Held /\ b # <<"frames", 0>> /\ b # <<"records", enc.metadata>>
      BY <2>1, <2>2
    <3> HIDE DEF Held
    <3>2. b \in Owned
      BY <1>1, <2>1, <3>1
    <3>3. PICK k \in DOMAIN accepted : b \in FrameBlocks(accepted[k])
      BY <3>2
    <3>4. k \in Filled /\ k \in Nat /\ k >= 1
      BY DEF EntriesAreAccepted, Filled
    <3>5. /\ b # <<"pixels", enc.frames[k].id>>
          /\ enc.frames[k].meta => b # <<"records", enc.frames[k].id>>
      BY <2>1, <2>2, <3>4
    <3>6. /\ enc.frames[k].id = accepted[k].id
          /\ enc.frames[k].meta <=> accepted[k].meta /\ k > 1
      BY DEF EntriesAreAccepted
    <3>7. accepted[k].meta /\ b = <<"records", accepted[k].id>>
      BY <3>3, <3>5, <3>6 DEF FrameBlocks
    <3>8. k = 1
      BY <3>4, <3>5, <3>6, <3>7
    <3>9. accepted # <<>>
      BY <3>3
    <3>10. enc.metadata = IF accepted[1].meta THEN accepted[1].id ELSE 0
      BY <3>9 DEF EntriesAreAccepted
    <3> QED
      BY <3>1, <3>7, <3>8, <3>10
  <2> QED
    BY <2>1, <2>2
<1>5. CASE /\ UNCHANGED accepted /\ (enc_at' = "closed" <=> enc_at = "closed")
           /\ enc'.frame_cap = enc.frame_cap
           /\ \/ av_heap' = av_heap \/ av_heap' = av_heap \cup {<<"anim", 0>>}
              \/ av_heap' = av_heap \ {<<"anim", 0>>}
  <2>1. { b \in av_heap' : b[1] # "anim" } = Held
    BY <1>5, NotAnim
  <2>2. UNION { FrameBlocks(accepted'[k]) : k \in DOMAIN accepted' } = Owned
    BY <1>5
  <2>3. Array = IF enc'.frame_cap > 0 THEN {<<"frames", 0>>} ELSE {}
    BY <1>5
  <2> HIDE DEF Owned, Array, Held
  <2> QED
    BY <1>1, <1>5, <2>1, <2>2, <2>3
<1>6. ASSUME ~(AppendFrame /\ accepted' # accepted), ~(GrowFrames /\ enc' # enc), ~CloseEncoder
      PROVE  /\ UNCHANGED accepted /\ (enc_at' = "closed" <=> enc_at = "closed")
             /\ enc'.frame_cap = enc.frame_cap
             /\ \/ av_heap' = av_heap \/ av_heap' = av_heap \cup {<<"anim", 0>>}
                \/ av_heap' = av_heap \ {<<"anim", 0>>}
  <2>1. CASE SendFrame \/ SendEnd \/ Receive \/ FeedPacket \/ ReceiveFrame \/ HandOut \/ CloseDecoder
    BY <2>1 DEF SendFrame, SendEnd, Receive, FeedPacket, ReceiveFrame, HandOut, CloseDecoder,
                encVars, EncReturns
  <2>2. CASE TakeFrame
    <3>1. enc' = enc \/ enc' = [enc EXCEPT !.eof = TRUE]
      BY <2>2 DEF TakeFrame
    <3>2. enc'.frame_cap = enc.frame_cap
      BY <3>1 DEF EntriesAreAccepted
    <3> QED
      BY <2>2, <3>2 DEF TakeFrame, EncReturns
  <2>3. CASE GrowFrames
    <3>1. ASSUME enc' = [enc EXCEPT !.frame_cap = IF @ = 0 THEN FirstCap ELSE 2 * @]
          PROVE  enc' # enc
      <4>1. enc.frame_cap \in Nat
        BY DEF EntriesAreAccepted
      <4>2. enc'.frame_cap = IF enc.frame_cap = 0 THEN FirstCap ELSE 2 * enc.frame_cap
        BY <3>1 DEF EntriesAreAccepted
      <4> QED
        BY <4>1, <4>2, FfmpegAssumption DEF FfmpegAssumption
    <3>2. UNCHANGED <<enc, av_heap, accepted>> /\ enc_at' # "closed" /\ enc_at # "closed"
      BY <1>6, <2>3, <3>1 DEF GrowFrames, EncReturns
    <3> QED
      BY <3>2
  <2>4. CASE AppendFrame
    <3>1. Append(accepted, frame) # accepted
      BY <2>4 DEF AppendFrame, QueueInOrder, EntriesAreAccepted
    <3> QED
      BY <1>6, <2>4, <3>1 DEF AppendFrame, EncReturns
  <2>5. CASE EncodeFrames
    <3>1. enc' = enc \/ enc' = [enc EXCEPT !.frame_count = 0]
      BY <2>5 DEF EncodeFrames, PacketOut
    <3>2. enc'.frame_cap = enc.frame_cap
      BY <3>1 DEF EntriesAreAccepted
    <3> QED
      BY <2>5, <3>2 DEF EncodeFrames, EncReturns
  <2>6. \/ SendFrame \/ SendEnd \/ Receive \/ FeedPacket \/ ReceiveFrame \/ HandOut \/ CloseDecoder
        \/ TakeFrame \/ GrowFrames \/ AppendFrame \/ EncodeFrames
    BY <1>6, Zenon DEF FfmpegNext
  <2> QED
    BY <2>1, <2>2, <2>3, <2>4, <2>5, <2>6
<1> QED
  BY <1>2, <1>3, <1>4, <1>5, <1>6, Zenon

LEMMA ContextsKeep == FfmpegInv /\ FfmpegNext => ContextsOwn'
<1> SUFFICES ASSUME FfmpegInv, FfmpegNext PROVE ContextsOwn'
  OBVIOUS
<1> USE DEF FfmpegInv
<1>1. enc'.n_filled <= enc'.frame_cap /\ enc'.frame_count \in {0, enc'.n_filled}
  <2>1. CASE accepted' = accepted
    BY <2>1, EntriesStay DEF ContextsOwn, EntriesAreAccepted
  <2>2. CASE accepted' # accepted
    <3>1. AppendFrame
      BY <2>2 DEF FfmpegNext, SendFrame, SendEnd, Receive, TakeFrame, GrowFrames, EncodeFrames,
                  CloseEncoder, FeedPacket, ReceiveFrame, HandOut, CloseDecoder, encVars
    <3>2. /\ enc'.n_filled = Len(accepted) + 1 /\ enc'.frame_count = Len(accepted) + 1
          /\ enc'.frame_cap = enc.frame_cap /\ Len(accepted) < enc.frame_cap
      BY <2>2, <3>1, AppendedEntry
    <3> QED
      BY <3>2 DEF EntriesAreAccepted
  <2> QED
    BY <2>1, <2>2
<1>2. (<<"anim", 0>> \in av_heap') <=> dec'.have_anim /\ dec_at' # "closed"
  <2>1. (<<"anim", 0>> \in av_heap) <=> dec.have_anim /\ dec_at # "closed"
    BY DEF ContextsOwn
  <2>2. CASE SendFrame \/ SendEnd \/ Receive \/ TakeFrame \/ GrowFrames \/ AppendFrame
             \/ EncodeFrames \/ CloseEncoder
    <3>1. UNCHANGED <<dec, dec_at>>
      BY <2>2 DEF SendFrame, SendEnd, Receive, TakeFrame, GrowFrames, AppendFrame, EncodeFrames,
                  CloseEncoder, decVars
    <3>2. <<"anim", 0>> \in av_heap' <=> <<"anim", 0>> \in av_heap
      <4>1. <<"anim", 0>> # <<"frames", 0>> /\ (\A f : <<"anim", 0>> \notin FrameBlocks(f))
            /\ (\A i : <<"anim", 0>> # <<"pixels", i>> /\ <<"anim", 0>> # <<"records", i>>)
        BY DEF FrameBlocks
      <4>2. CASE CloseEncoder
        BY <4>1, <4>2 DEF CloseEncoder
      <4>3. CASE ~CloseEncoder
        BY <2>2, <4>1, <4>3, Zenon DEF SendFrame, SendEnd, Receive, TakeFrame, GrowFrames, AppendFrame,
                  EncodeFrames
      <4> QED
        BY <4>2, <4>3
    <3> QED
      BY <2>1, <3>1, <3>2
  <2>3. CASE FeedPacket
    BY <2>1, <2>3 DEF FeedPacket
  <2>4. CASE ReceiveFrame
    <3>1. CASE av_heap' = av_heap
      BY <2>1, <2>4, <3>1 DEF ReceiveFrame, DecReturns, CursorInPacket
    <3>2. CASE /\ av_heap' = av_heap \cup {<<"anim", 0>>} /\ dec_at' = "hand_out"
               /\ dec' = [dec EXCEPT !.have_anim = TRUE, !.next_frame = 1]
      BY <3>2 DEF CursorInPacket
    <3> QED
      BY <2>4, <3>1, <3>2 DEF ReceiveFrame
  <2>5. CASE HandOut
    <3>1. dec'.have_anim = dec.have_anim
      BY <2>5 DEF HandOut, CursorInPacket
    <3> QED
      BY <2>1, <2>5, <3>1 DEF HandOut, DecReturns
  <2>6. CASE CloseDecoder
    BY <2>6 DEF CloseDecoder
  <2> QED
    BY <2>2, <2>3, <2>4, <2>5, <2>6 DEF FfmpegNext
<1> QED
  BY <1>1, <1>2, OwnedKeeps DEF ContextsOwn

(* The decoder *)

LEMMA CursorKeeps == FfmpegInv /\ FfmpegNext => CursorInPacket' /\ HandedOutInOrder'
<1> SUFFICES ASSUME FfmpegInv, FfmpegNext PROVE CursorInPacket' /\ HandedOutInOrder'
  OBVIOUS
<1> USE DEF FfmpegInv
<1>1. CASE UNCHANGED decVars
  <2>1. /\ UNCHANGED <<fed, dec_at, dec_ret, dec, shown>>
    BY <1>1 DEF decVars
  <2>2. packets # <<>> => packets' # <<>>
    <3>1. CASE EncodeFrames
      <4> SUFFICES ASSUME packets # <<>> PROVE UNCHANGED packets
        OBVIOUS
      <4>1. enc.frame_count = 0
        BY DEF PacketHasAll
      <4>2. ~(enc.frame_count > 0)
        BY <4>1
      <4> QED
        BY <3>1, <4>2, Zenon DEF EncodeFrames
    <3>2. EncodeFrames \/ UNCHANGED packets
      BY DEF FfmpegNext, SendFrame, SendEnd, Receive, TakeFrame, GrowFrames, AppendFrame,
             CloseEncoder, FeedPacket, ReceiveFrame, HandOut, CloseDecoder, encVars, EncReturns
    <3> QED
      BY <3>1, <3>2
  <2>3. CASE accepted' = accepted
    BY <2>1, <2>2, <2>3 DEF CursorInPacket, HandedOutInOrder
  <2>4. CASE accepted' # accepted
    <3>1. AppendFrame
      BY <2>4 DEF FfmpegNext, SendFrame, SendEnd, Receive, TakeFrame, GrowFrames, EncodeFrames,
                  CloseEncoder, FeedPacket, ReceiveFrame, HandOut, CloseDecoder, encVars
    <3>2. packets = <<>>
      BY <2>4, <3>1, AppendedEntry
    <3>3. fed = "none" /\ ~dec.have_anim /\ shown = <<>> /\ dec_ret # "EOF"
      BY <3>2 DEF CursorInPacket
    <3>4. Len(shown) <= Len(accepted')
      BY <3>3, EntriesKeep DEF EntriesAreAccepted
    <3> QED
      BY <2>1, <3>3, <3>4 DEF CursorInPacket, HandedOutInOrder
  <2> QED
    BY <2>3, <2>4
<1>2. CASE FeedPacket
  <2>1. fed = "none" /\ ~dec.have_anim /\ dec_ret # "EOF"
    BY <1>2 DEF FeedPacket, CursorInPacket
  <2> QED
    BY <1>2, <2>1 DEF FeedPacket, encVars, CursorInPacket, HandedOutInOrder
<1>3. CASE ReceiveFrame
  <2>1. UNCHANGED <<packets, accepted, shown>> /\ dec_at = "idle"
    BY <1>3 DEF ReceiveFrame, encVars
  <2>2. CASE dec.have_anim /\ dec_at' = "hand_out" /\ UNCHANGED <<dec_ret, dec, fed>>
    BY <2>1, <2>2 DEF CursorInPacket, HandedOutInOrder
  <2>3. CASE /\ ~dec.have_anim /\ UNCHANGED dec /\ dec_at' = "idle"
             /\ \/ dec_ret' \in {"ENOMEM", "EAGAIN"} /\ UNCHANGED fed
                \/ fed = "taken" /\ dec_ret' = "EOF" /\ UNCHANGED fed
                \/ fed = "sent" /\ dec_ret' = "INVALIDDATA" /\ fed' = "taken"
    BY <2>1, <2>3 DEF CursorInPacket, HandedOutInOrder
  <2>4. CASE /\ ~dec.have_anim /\ fed = "sent" /\ fed' = "taken"
             /\ dec' = [dec EXCEPT !.have_anim = TRUE, !.next_frame = 1]
             /\ dec_at' = "hand_out" /\ UNCHANGED dec_ret
    <3>1. shown = <<>> /\ dec_ret # "EOF"
      BY <2>4 DEF CursorInPacket
    <3>2. /\ dec'.have_anim /\ dec'.next_frame = 1
          /\ DOMAIN dec' = {"have_anim", "next_frame", "next_pts"}
      BY <2>4 DEF CursorInPacket
    <3> QED
      BY <2>1, <2>4, <3>1, <3>2 DEF CursorInPacket, HandedOutInOrder
  <2> QED
    BY <1>3, <2>2, <2>3, <2>4 DEF ReceiveFrame, DecReturns
<1>4. CASE HandOut
  <2>1. UNCHANGED <<packets, accepted, fed>> /\ dec_at = "hand_out"
    BY <1>4 DEF HandOut, encVars
  <2>2. /\ dec.have_anim /\ fed = "taken" /\ packets # <<>>
        /\ packets[1] = enc.frames /\ Len(packets[1]) = Len(accepted)
    BY <2>1 DEF CursorInPacket, PacketHasAll, EntriesAreAccepted
  <2>3. /\ accepted \in Seq(Sent) /\ shown \in Seq({shown[k] : k \in DOMAIN shown})
        /\ dec.next_frame = Len(shown) + 1 /\ Len(shown) <= Len(accepted)
    BY DEF CursorInPacket, EntriesAreAccepted
  <2>4. CASE dec.next_frame > Len(packets[1]) /\ dec_ret' = "EOF" /\ dec_at' = "idle"
             /\ UNCHANGED <<dec, shown>>
    <3>1. Len(shown) = Len(accepted)
      BY <2>2, <2>3, <2>4
    <3> QED
      BY <2>1, <2>2, <2>4, <3>1 DEF CursorInPacket, HandedOutInOrder
  <2>5. CASE dec_ret' = "ENOMEM" /\ dec_at' = "idle" /\ UNCHANGED <<dec, shown>>
    BY <2>1, <2>2, <2>5 DEF CursorInPacket, HandedOutInOrder
  <2>6. CASE /\ dec.next_frame <= Len(packets[1]) /\ dec_ret' = "frame" /\ dec_at' = "idle"
             /\ \E pts, duration :
                  /\ shown' = Append(shown, [ id |-> packets[1][dec.next_frame].id,
                                              pts |-> dec.next_pts, duration |-> duration ])
                  /\ dec' = [dec EXCEPT !.next_frame = @ + 1, !.next_pts = pts]
    <3>1. PICK pts, duration :
                  /\ shown' = Append(shown, [ id |-> packets[1][dec.next_frame].id,
                                              pts |-> dec.next_pts, duration |-> duration ])
                  /\ dec' = [dec EXCEPT !.next_frame = @ + 1, !.next_pts = pts]
      BY <2>6
    <3> DEFINE e == [ id |-> packets[1][dec.next_frame].id, pts |-> dec.next_pts,
                      duration |-> duration ]
               n == Len(shown)
               S == {shown[k] : k \in DOMAIN shown} \cup {e}
    <3>2. n \in Nat /\ n + 1 \in 1..Len(accepted) /\ DOMAIN shown = 1..n
          /\ DOMAIN accepted = 1..Len(accepted)
      BY <2>2, <2>3, <2>6
    <3>3. e.id = accepted[n + 1].id
      BY <2>2, <2>3, <3>2 DEF EntriesAreAccepted
    <3>4. shown' = Append(shown, e)
      BY <3>1
    <3> HIDE DEF e
    <3>5. shown \in Seq(S) /\ e \in S
      <4> DEFINE R == {shown[k] : k \in DOMAIN shown}
      <4>1. shown \in Seq(R)
        BY <2>3
      <4> HIDE DEF R
      <4>2. shown \in Seq(R \cup {e})
        BY <4>1
      <4> QED
        BY <4>2 DEF R
    <3> HIDE DEF S
    <3>6. /\ shown' \in Seq(S) /\ Len(shown') = n + 1 /\ shown'[n + 1] = e
          /\ \A k \in 1..n : shown'[k] = shown[k]
          /\ DOMAIN shown' = 1..(n + 1) /\ shown' # <<>>
      BY <3>4, <3>5
    <3>7. shown' \in Seq({shown'[k] : k \in DOMAIN shown'})
      <4> DEFINE sh == shown'
                 T == {sh[k] : k \in 1..(n + 1)}
      <4>1. sh = [k \in 1..(n + 1) |-> sh[k]] /\ n + 1 \in Nat
        BY <3>2, <3>6
      <4>2. \A k \in 1..(n + 1) : sh[k] \in T
        OBVIOUS
      <4> HIDE DEF T, sh
      <4>3. sh \in Seq(T)
        BY <4>1, <4>2
      <4> QED
        BY <4>3, <3>6 DEF T, sh
    <3>8. \A k \in DOMAIN shown' : shown'[k].id = accepted[k].id
      <4>1. TAKE k \in DOMAIN shown'
      <4>2. CASE k = n + 1
        BY <3>3, <3>6, <4>2
      <4>3. CASE k \in 1..n
        BY <3>2, <3>6, <4>3 DEF HandedOutInOrder
      <4> QED
        BY <3>2, <3>6, <4>2, <4>3
    <3>9. /\ dec'.have_anim = dec.have_anim /\ dec'.next_frame = n + 2
          /\ DOMAIN dec' = {"have_anim", "next_frame", "next_pts"}
      <4>1. DOMAIN dec = {"have_anim", "next_frame", "next_pts"} /\ dec.next_frame = n + 1
        BY <2>3 DEF CursorInPacket
      <4>2. /\ dec'.have_anim = dec.have_anim /\ dec'.next_frame = dec.next_frame + 1
            /\ DOMAIN dec' = DOMAIN dec
        BY <3>1, <4>1
      <4> HIDE DEF n
      <4> QED
        BY <3>2, <4>1, <4>2
    <3> HIDE DEF n
    <3>10. CursorInPacket'
      BY <2>1, <2>2, <2>6, <3>2, <3>6, <3>7, <3>9, SMTT(30) DEF CursorInPacket
    <3> QED
      BY <2>1, <2>6, <3>8, <3>10 DEF HandedOutInOrder
  <2> QED
    BY <1>4, <2>4, <2>5, <2>6, Zenon DEF HandOut, DecReturns
<1>5. CASE CloseDecoder
  BY <1>5 DEF CloseDecoder, encVars, CursorInPacket, HandedOutInOrder
<1>6. UNCHANGED decVars \/ FeedPacket \/ ReceiveFrame \/ HandOut \/ CloseDecoder
  BY DEF FfmpegNext, SendFrame, SendEnd, Receive, TakeFrame, GrowFrames, AppendFrame,
         EncodeFrames, CloseEncoder
<1> QED
  BY <1>1, <1>2, <1>3, <1>4, <1>5, <1>6

\* Whatever is sent, refused, received and closed, and whatever fails on the way, the
\* encoder's entries are the frames it accepted, the packet has all of them and the
\* decoder's place in it is behind what it has handed out.
THEOREM FfmpegSafe == FfmpegSpec => []FfmpegInv
<1>1. FfmpegInv /\ [FfmpegNext]_ffmpegVars => FfmpegInv'
  <2> SUFFICES ASSUME FfmpegInv, [FfmpegNext]_ffmpegVars PROVE FfmpegInv'
    OBVIOUS
  <2>1. CASE FfmpegNext
    BY <2>1, QueueKeeps, EntriesKeep, PacketKeeps, CursorKeeps, ContextsKeep, Zenon DEF FfmpegInv
  <2>2. CASE UNCHANGED ffmpegVars
    BY <2>2 DEF ffmpegVars, encVars, decVars, FfmpegInv, QueueInOrder, EntriesAreAccepted,
                PacketHasAll, CursorInPacket, ContextsOwn, OnePacket, HandedOutInOrder
  <2> QED
    BY <2>1, <2>2
<1> QED
  BY <1>1, InitFfmpeg, PTL DEF FfmpegSpec

\* Both contexts own what their fields say at every moment, and nothing once they are
\* closed: pxl_enc_close and pxl_dec_close free an encoder that never sent its packet and
\* a decoder in the middle of one.
THEOREM ContextsAreOwned == FfmpegSpec => []ContextsOwn
<1>1. FfmpegInv => ContextsOwn
  BY DEF FfmpegInv
<1> QED
  BY <1>1, FfmpegSafe, PTL

------------------------------------------------------------------------------
(* FFmpeg: the times                                                         *)

\* A fraction that terms up to MaxTerm can tell is reduced without loss.
LEMMA ReducedExact ==
  ASSUME NEW num \in Nat \ {0}, NEW den \in Nat \ {0},
         \E n, d \in 1..MaxTerm : n * den = num * d
  PROVE  /\ Reduced(num, den)[1] \in 1..MaxTerm /\ Reduced(num, den)[2] \in 1..MaxTerm
         /\ Reduced(num, den)[1] * den = num * Reduced(num, den)[2]
<1> DEFINE Off(q) == LET off == q[1] * den - num * q[2] IN IF off < 0 THEN -off ELSE off
           all == (0..MaxTerm) \X (1..MaxTerm)
           best(q) == \A r \in all : \/ Off(q) * r[2] < Off(r) * q[2]
                                     \/ Off(q) * r[2] = Off(r) * q[2] /\ q[2] <= r[2]
           D == { m \in 1..MaxTerm : \E a \in 0..MaxTerm : a * den = num * m }
<1>0. MaxTerm \in Nat
  BY FfmpegAssumption DEF FfmpegAssumption
<1>1. PICK m \in D : \A x \in D : m <= x
  <2>1. (\E d \in 1..MaxTerm : d \in D) /\ D \in SUBSET Nat
    BY <1>0
  <2> HIDE DEF D
  <2> QED
    BY <2>1, LeastOf
<1>2. PICK a \in 0..MaxTerm : a * den = num * m
  OBVIOUS
<1>3. m \in 1..MaxTerm
  OBVIOUS
<1>4. ASSUME NEW r \in all PROVE /\ r[1] \in 0..MaxTerm /\ r[2] \in 1..MaxTerm
                                 /\ Off(r) \in Nat /\ (Off(r) = 0 => r[1] * den = num * r[2])
  <2>1. r[1] \in Nat /\ r[2] \in Nat /\ r[1] \in 0..MaxTerm /\ r[2] \in 1..MaxTerm
    BY <1>0, <1>4
  <2>2. r[1] * den \in Nat /\ num * r[2] \in Nat
    BY <2>1
  <2> QED
    BY <2>1, <2>2
<1>5. <<a, m>> \in all /\ Off(<<a, m>>) = 0
  <2>1. a * den - num * m = 0
    BY <1>0, <1>2, <1>3
  <2> QED
    BY <1>2, <1>3, <2>1
<1> HIDE DEF Off
<1>6. best(<<a, m>>)
  <2> SUFFICES ASSUME NEW r \in all
               PROVE  \/ 0 * r[2] < Off(r) * m
                      \/ 0 * r[2] = Off(r) * m /\ m <= r[2]
    BY <1>5
  <2>1. r[2] \in Nat /\ m \in Nat \ {0} /\ Off(r) \in Nat /\ 0 * r[2] = 0
    BY <1>0, <1>3, <1>4
  <2>2. CASE Off(r) = 0
    <3>1. r[2] \in D
      BY <1>4, <2>2
    <3>2. m <= r[2]
      BY <1>1, <3>1
    <3> QED
      BY <2>1, <2>2, <3>2
  <2>3. CASE Off(r) # 0
    <3>1. \A x \in Nat \ {0}, y \in Nat \ {0} : 0 < x * y
      BY SMT
    <3> QED
      BY <2>1, <2>3, <3>1
  <2> QED
    BY <2>2, <2>3
<1> DEFINE q == CHOOSE x \in all : best(x)
<1>7. Reduced(num, den) = q
  BY DEF Reduced, Off
<1>8. q \in all /\ best(q)
  BY <1>5, <1>6
<1> HIDE DEF q
<1>9. Off(q) = 0
  <2>1. \/ Off(q) * m < 0 * q[2]
        \/ Off(q) * m = 0 * q[2]
    BY <1>5, <1>8
  <2>2. Off(q) \in Nat /\ m \in Nat \ {0} /\ q[2] \in Nat
    BY <1>0, <1>3, <1>4, <1>8
  <2>3. \A x \in Nat, y \in Nat \ {0} : x * y = 0 => x = 0
    BY SMT
  <2>4. 0 * q[2] = 0 /\ Off(q) * m >= 0
    BY <2>2
  <2>5. Off(q) * m = 0
    BY <2>1, <2>2, <2>4
  <2> QED
    BY <2>2, <2>3, <2>5
<1>10. /\ q[1] \in 0..MaxTerm /\ q[2] \in 1..MaxTerm /\ q[1] * den = num * q[2]
  BY <1>4, <1>8, <1>9
<1>11. q[1] # 0
  <2>1. \A x \in Nat \ {0}, y \in Nat \ {0} : x * y # 0
    BY SMT
  <2>2. num * q[2] # 0 /\ 0 * den = 0
    BY <1>0, <1>10, <2>1
  <2> QED
    BY <1>10, <2>2
<1>12. q[1] \in 1..MaxTerm
  BY <1>0, <1>10, <1>11
<1> QED
  BY <1>7, <1>10, <1>12

\* In ticks it is the time it stands for, to within one.
LEMMA TicksOf ==
  ASSUME NEW num \in Nat \ {0}, NEW den \in Nat \ {0}, NEW t \in Nat,
         NEW n \in Nat \ {0}, NEW d \in Nat \ {0}, n * den = num * d
  PROVE  /\ (n * t) \div d \in Nat
         /\ num * t - ((n * t) \div d) * den \in 0..den
<1> DEFINE x == n * t
           y == x \div d
<1>1. x \in Nat
  OBVIOUS
<1>2. x * den = (num * t) * d
  <2>1. (n * t) * den = (n * den) * t /\ (num * d) * t = (num * t) * d
    BY SMT
  <2> QED
    BY <2>1
<1> HIDE DEF x
<1>3. y \in Nat /\ y * d <= x /\ x < y * d + d
  BY <1>1, SMT
<1> HIDE DEF y
<1>4. (y * den) * d <= (num * t) * d
  <2>1. \A u, v \in Nat : u <= v => u * den <= v * den
    BY SMT
  <2>2. (y * d) * den <= x * den
    BY <1>1, <1>3, <2>1
  <2>3. (y * d) * den = (y * den) * d
    BY <1>3, SMT
  <2> QED
    BY <1>2, <2>2, <2>3
<1>5. (num * t) * d <= (y * den + den) * d
  <2>1. \A u, v \in Nat : u <= v => u * den <= v * den
    BY SMT
  <2>2. x * den <= (y * d + d) * den
    BY <1>1, <1>3, <2>1
  <2>3. (y * d + d) * den = (y * den + den) * d
    BY <1>3, SMT
  <2> QED
    BY <1>2, <2>2, <2>3
<1>6. \A u, v \in Nat : u * d <= v * d => u <= v
  BY SMT
<1>7. y * den \in Nat /\ num * t \in Nat /\ y * den + den \in Nat
  BY <1>3
<1>8. y * den <= num * t /\ num * t <= y * den + den
  BY <1>4, <1>5, <1>6, <1>7
<1> QED
  BY <1>3, <1>7, <1>8 DEF x, y

LEMMA DurationIs ==
  ASSUME NEW f \in Sent
  PROVE  Duration(f) \in Nat \ {0}
<1>1. f.dur \in Int
  BY FfmpegAssumption DEF Sent, FfmpegAssumption
<1> QED
  BY <1>1 DEF Duration

\* What a frame with an exact delay is handed out for.
LEMMA ShownFor ==
  ASSUME NEW f \in Sent, Exact(f)
  PROVE  LET duration == (Delay(f).num * Ticks) \div Delay(f).den
         IN  /\ duration \in Nat
             /\ (Duration(f) * TimeBase.num) * Ticks - duration * TimeBase.den \in 0..TimeBase.den
<1> DEFINE num == Duration(f) * TimeBase.num
           den == TimeBase.den
<1>1. num \in Nat \ {0} /\ den \in Nat \ {0} /\ Ticks \in Nat /\ MaxTerm \in Nat
  <2>1. \A x \in Nat \ {0}, y \in Nat \ {0} : x * y \in Nat \ {0}
    BY SMT
  <2> QED
    BY <2>1, DurationIs, FfmpegAssumption DEF FfmpegAssumption
<1>2. \E n, d \in 1..MaxTerm : n * den = num * d
  BY DEF Exact
<1>3. Delay(f) = [ num |-> IF Reduced(num, den)[1] > 0 THEN Reduced(num, den)[1] ELSE 1,
                   den |-> Reduced(num, den)[2] ]
  BY DEF Delay
<1> HIDE DEF num, den
<1> DEFINE q == Reduced(num, den)
<1>4. q[1] \in 1..MaxTerm /\ q[2] \in 1..MaxTerm /\ q[1] * den = num * q[2]
  BY <1>1, <1>2, ReducedExact
<1> HIDE DEF q
<1>5. q[1] \in Nat \ {0} /\ q[2] \in Nat \ {0} /\ q[1] > 0
  BY <1>1, <1>4
<1>6. Delay(f).num = q[1] /\ Delay(f).den = q[2]
  BY <1>3, <1>5 DEF q
<1>7. /\ (q[1] * Ticks) \div q[2] \in Nat
      /\ num * Ticks - ((q[1] * Ticks) \div q[2]) * den \in 0..den
  BY <1>1, <1>4, <1>5, TicksOf
<1> QED
  BY <1>6, <1>7 DEF num, den

\* The terms of Due.
Spans(s) == [j \in DOMAIN s |-> Duration(s[j]) * TimeBase.num]

\* When the k-th frame is due depends on those before it.
LEMMA InTimeStays ==
  ASSUME FfmpegInv, FfmpegNext, NEW k \in 1..(Len(accepted) + 1), NEW pts, InTime(k, pts)
  PROVE  InTime(k, pts)' /\ \A j \in 1..(k - 1) : accepted'[j] = accepted[j]
<1>1. accepted \in Seq(Sent) /\ accepted' \in Seq(Sent) /\ k - 1 \in Nat
      /\ \A j \in 1..(k - 1) : j \in 1..Len(accepted)
  BY EntriesKeep DEF FfmpegInv, EntriesAreAccepted
<1>2. \A j \in 1..Len(accepted) : accepted'[j] = accepted[j] /\ j \in DOMAIN accepted'
  <2>1. CASE accepted' = accepted
    BY <1>1, <2>1
  <2>2. CASE accepted' # accepted
    <3>1. AppendFrame
      BY <2>2 DEF FfmpegNext, SendFrame, SendEnd, Receive, TakeFrame, GrowFrames, EncodeFrames,
                  CloseEncoder, FeedPacket, ReceiveFrame, HandOut, CloseDecoder, encVars
    <3>2. frame \in Sent /\ accepted' = Append(accepted, frame)
      BY <2>2, <3>1, AppendedEntry
    <3> QED
      BY <1>1, <3>2
  <2> QED
    BY <2>1, <2>2
<1>3. \A j \in 1..(k - 1) : accepted'[j] = accepted[j] /\ j \in DOMAIN accepted
                            /\ j \in DOMAIN accepted'
  BY <1>1, <1>2
<1>4. SumTo(Spans(accepted'), k - 1) = SumTo(Spans(accepted), k - 1)
  <2>1. \A j \in 1..(k - 1) : Spans(accepted')[j] = Spans(accepted)[j]
    BY <1>3 DEF Spans
  <2> QED
    BY <1>1, <2>1, SumSame
<1>5. Due(k) = SumTo(Spans(accepted), k - 1) /\ Due(k)' = SumTo(Spans(accepted'), k - 1)
  BY DEF Due, Spans
<1>6. InTime(k, pts)'
  BY <1>3, <1>4, <1>5 DEF InTime
<1> QED
  BY <1>3, <1>6

\* The sum grows by the frame that is shown.
LEMMA NextDue ==
  ASSUME FfmpegInv, NEW k \in 1..Len(accepted)
  PROVE  /\ Due(k) \in Nat /\ accepted[k] \in Sent
         /\ Due(k + 1) = Due(k) + Duration(accepted[k]) * TimeBase.num
<1>1. accepted \in Seq(Sent) /\ k \in Nat \ {0} /\ k - 1 \in Nat /\ (k + 1) - 1 = k
      /\ DOMAIN accepted = 1..Len(accepted)
  BY DEF FfmpegInv, EntriesAreAccepted
<1>2. \A j \in 1..Len(accepted) : accepted[j] \in Sent /\ Spans(accepted)[j] \in Nat
  <2> SUFFICES ASSUME NEW j \in 1..Len(accepted)
               PROVE  accepted[j] \in Sent /\ Spans(accepted)[j] \in Nat
    OBVIOUS
  <2>1. accepted[j] \in Sent
    BY <1>1
  <2>2. Duration(accepted[j]) \in Nat /\ TimeBase.num \in Nat
    BY <2>1, DurationIs, FfmpegAssumption DEF FfmpegAssumption
  <2>3. Duration(accepted[j]) * TimeBase.num \in Nat
    BY <2>2
  <2> QED
    BY <1>1, <2>1, <2>3 DEF Spans
<1>3. Due(k) = SumTo(Spans(accepted), k - 1) /\ Due(k + 1) = SumTo(Spans(accepted), k)
  BY <1>1 DEF Due, Spans
<1>4. SumTo(Spans(accepted), k) = SumTo(Spans(accepted), k - 1) + Spans(accepted)[k]
  BY <1>1, SumIs
<1>5. \A j \in 1..(k - 1) : j \in 1..Len(accepted)
  BY <1>1
<1>6. SumTo(Spans(accepted), k - 1) \in Nat
  BY <1>1, <1>2, <1>5, SumIsNat
<1>7. Spans(accepted)[k] = Duration(accepted[k]) * TimeBase.num
  BY <1>1 DEF Spans
<1> QED
  BY <1>2, <1>3, <1>4, <1>6, <1>7

\* The next frame is as late as this one, and at most a tick more.
LEMMA NextIsInTime ==
  ASSUME FfmpegInv, NextInTime, HandOut, shown' # shown
  PROVE  NextInTime'
<1> DEFINE k == dec.next_frame
           f == accepted[k]
           duration == (Delay(f).num * Ticks) \div Delay(f).den
           span == Duration(f) * TimeBase.num
           p == dec.next_pts
<1>1. /\ dec_at = "hand_out" /\ k <= Len(packets[1]) /\ UNCHANGED accepted
      /\ dec' = [dec EXCEPT !.next_frame = @ + 1,
                            !.next_pts = @ + (packets[1][k].delay.num * Ticks)
                                               \div packets[1][k].delay.den]
  BY DEF HandOut, encVars
<1>2. /\ packets # <<>> /\ packets[1] = enc.frames /\ Len(packets[1]) = Len(accepted)
  BY <1>1 DEF FfmpegInv, CursorInPacket, PacketHasAll, EntriesAreAccepted
<1>3. k \in Nat \ {0} /\ k \in 1..Len(accepted) /\ DOMAIN accepted = 1..Len(accepted)
  BY <1>1, <1>2 DEF FfmpegInv, CursorInPacket, EntriesAreAccepted
<1>4. packets[1][k].delay = Delay(f)
  BY <1>2, <1>3 DEF FfmpegInv, EntriesAreAccepted
<1>5. DOMAIN dec = {"have_anim", "next_frame", "next_pts"}
  BY DEF FfmpegInv, CursorInPacket
<1>6. dec'.next_frame = k + 1 /\ dec'.next_pts = p + duration
  <2> HIDE DEF duration, f
  <2>1. dec' = [dec EXCEPT !.next_frame = @ + 1, !.next_pts = @ + duration]
    BY <1>1, <1>4 DEF duration
  <2> QED
    BY <1>5, <2>1
<1>7. SUFFICES ASSUME \A j \in 1..k : Exact(accepted[j])
               PROVE  /\ p + duration \in Nat
                      /\ Due(k + 1) * Ticks - (p + duration) * TimeBase.den
                           \in 0..(k * TimeBase.den)
  <2> HIDE DEF duration, f, p, k
  <2> SUFFICES ASSUME NEW m, m = k, NEW q, q = p + duration PROVE NextInTime'
    OBVIOUS
  <2>1. Due(m + 1)' = Due(m + 1) /\ (m + 1) - 1 = m
    BY <1>1, <1>3 DEF Due
  <2>2. (\A j \in 1..m : Exact(accepted[j])) =>
          q \in Nat /\ Due(m + 1) * Ticks - q * TimeBase.den \in 0..(m * TimeBase.den)
    BY <1>7
  <2>3. dec'.next_frame = m + 1 /\ dec'.next_pts = q /\ accepted' = accepted
    BY <1>1, <1>6
  <2>4. (\A j \in 1..m : Exact(accepted'[j])) => InTime(m + 1, q)' /\ q \in Nat
    BY <2>1, <2>2, <2>3, Zenon DEF InTime
  <2>5. InTime(m + 1, q)'
    BY <2>1, <2>4, Zenon DEF InTime
  <2>6. InTime(dec.next_frame, dec.next_pts)'
    BY <2>3, <2>5 DEF InTime
  <2> QED
    BY <2>1, <2>3, <2>4, <2>6 DEF NextInTime
<1>8. p \in Nat /\ Due(k) * Ticks - p * TimeBase.den \in 0..((k - 1) * TimeBase.den)
  <2>1. \A j \in 1..(k - 1) : j \in 1..k
    BY <1>3
  <2> QED
    BY <1>7, <2>1 DEF NextInTime, InTime
<1>9. Due(k) \in Nat /\ f \in Sent /\ Due(k + 1) = Due(k) + span
  BY <1>3, NextDue
<1>10. duration \in Nat /\ span * Ticks - duration * TimeBase.den \in 0..TimeBase.den
  <2>1. Exact(f)
    BY <1>3, <1>7
  <2> HIDE DEF f
  <2> QED
    BY <1>9, <2>1, ShownFor
<1>11. span \in Nat /\ Ticks \in Nat /\ TimeBase.den \in Nat /\ TimeBase.num \in Nat
  <2>1. Duration(f) \in Nat /\ TimeBase.num \in Nat
    BY <1>9, DurationIs, FfmpegAssumption DEF FfmpegAssumption
  <2> QED
    BY <2>1, FfmpegAssumption DEF FfmpegAssumption
<1> DEFINE due == Due(k)
           den == TimeBase.den
<1>12. due \in Nat /\ den \in Nat
  BY <1>9, <1>11
<1>13. Due(k + 1) = due + span
  BY <1>9
<1> HIDE DEF duration, span, f, p, due, den, k
<1>14. /\ (due + span) * Ticks = due * Ticks + span * Ticks
       /\ (p + duration) * den = p * den + duration * den
       /\ k * den = (k - 1) * den + den
  BY <1>3, <1>8, <1>10, <1>11, <1>12, SMT
<1>15. /\ due * Ticks \in Nat /\ span * Ticks \in Nat /\ p * den \in Nat
       /\ duration * den \in Nat /\ (k - 1) * den \in Nat
  BY <1>3, <1>8, <1>10, <1>11, <1>12, SMT
<1>16. due * Ticks - p * den \in 0..((k - 1) * den) /\ span * Ticks - duration * den \in 0..den
  BY <1>8, <1>10 DEF due, den
<1>17. (due + span) * Ticks - (p + duration) * den \in 0..(k * den)
  <2> DEFINE a == due * Ticks
             b == span * Ticks
             c == p * den
             e == duration * den
             g == (k - 1) * den
  <2>1. a \in Nat /\ b \in Nat /\ c \in Nat /\ e \in Nat /\ g \in Nat
    BY <1>15
  <2>2. a - c \in 0..g /\ b - e \in 0..den
    BY <1>16
  <2> HIDE DEF a, b, c, e, g
  <2>3. (a + b) - (c + e) \in 0..(g + den)
    BY <1>12, <2>1, <2>2
  <2> QED
    BY <1>14, <2>3 DEF a, b, c, e, g
<1>18. p + duration \in Nat
  BY <1>8, <1>10
<1> QED
  BY <1>13, <1>17, <1>18 DEF den

LEMMA TimesKeep ==
  ASSUME FfmpegInv, HandedOutInTime, NextInTime, FfmpegNext
  PROVE  HandedOutInTime' /\ NextInTime'
<1>1. /\ shown \in Seq({shown[k] : k \in DOMAIN shown})
      /\ dec.next_frame = Len(shown) + 1 /\ Len(shown) <= Len(accepted)
      /\ DOMAIN dec = {"have_anim", "next_frame", "next_pts"}
      /\ accepted \in Seq(Sent)
  BY DEF FfmpegInv, CursorInPacket, EntriesAreAccepted
<1>2. /\ Len(shown) \in Nat /\ DOMAIN shown = 1..Len(shown) /\ Len(accepted) \in Nat
      /\ \A k \in 1..(Len(shown) + 1) : k \in 1..(Len(accepted) + 1)
  BY <1>1
<1>3. \A k \in DOMAIN shown : InTime(k, shown[k].pts)'
                              \/ shown' # shown
  <2> SUFFICES ASSUME NEW k \in DOMAIN shown, shown' = shown PROVE InTime(k, shown[k].pts)'
    OBVIOUS
  <2>1. k \in 1..(Len(accepted) + 1)
    BY <1>2
  <2> SUFFICES ASSUME NEW pts, pts = shown[k].pts PROVE InTime(k, pts)'
    BY DEF InTime
  <2>2. InTime(k, pts)
    BY DEF HandedOutInTime
  <2> QED
    BY <2>1, <2>2, InTimeStays
<1>4. dec.next_frame \in 1..(Len(accepted) + 1)
  BY <1>1, <1>2
<1>5. ASSUME dec'.next_frame = dec.next_frame, dec'.next_pts = dec.next_pts
      PROVE  NextInTime'
  <2> SUFFICES ASSUME NEW k, NEW pts, k = dec.next_frame, pts = dec.next_pts
               PROVE  NextInTime'
    OBVIOUS
  <2>1. InTime(k, pts) /\ k \in 1..(Len(accepted) + 1)
    BY <1>4 DEF NextInTime
  <2>2. InTime(k, pts)' /\ \A j \in 1..(k - 1) : accepted'[j] = accepted[j]
    BY <2>1, InTimeStays
  <2>3. dec'.next_frame = k /\ dec'.next_pts = pts
    BY <1>5
  <2>4. InTime(dec.next_frame, dec.next_pts)'
    BY <2>2, <2>3 DEF InTime
  <2>5. (\A j \in 1..(k - 1) : Exact(accepted[j])) => pts \in Nat
    BY DEF NextInTime
  <2> QED
    BY <2>2, <2>3, <2>4, <2>5 DEF NextInTime
<1>6. CASE shown' = shown
  <2>1. HandedOutInTime'
    BY <1>3, <1>6 DEF HandedOutInTime
  <2>2. dec'.next_frame = dec.next_frame /\ dec'.next_pts = dec.next_pts
    <3>1. CASE dec' = dec
      BY <3>1
    <3>2. CASE ReceiveFrame /\ dec' # dec
      <4>1. ~dec.have_anim /\ dec' = [dec EXCEPT !.have_anim = TRUE, !.next_frame = 1]
        BY <3>2 DEF ReceiveFrame
      <4>2. dec.next_frame = 1
        BY <1>1, <4>1 DEF FfmpegInv, CursorInPacket
      <4>3. dec'.next_frame = 1 /\ dec'.next_pts = dec.next_pts
        BY <1>1, <4>1
      <4> QED
        BY <4>2, <4>3
    <3>3. CASE HandOut /\ dec' # dec
      <4>1. PICK e : shown' = Append(shown, e)
        BY <3>3 DEF HandOut
      <4>2. Len(shown') = Len(shown) + 1
        <5> DEFINE S == {shown[k] : k \in DOMAIN shown}
        <5>1. shown \in Seq(S)
          BY <1>1
        <5> HIDE DEF S
        <5>2. shown \in Seq(S \cup {e}) /\ e \in S \cup {e}
          BY <5>1
        <5> QED
          BY <4>1, <5>2
      <4> QED
        BY <1>2, <1>6, <4>2
    <3>4. ReceiveFrame \/ HandOut \/ dec' = dec
      BY DEF FfmpegNext, SendFrame, SendEnd, Receive, TakeFrame, GrowFrames, AppendFrame,
             EncodeFrames, CloseEncoder, FeedPacket, CloseDecoder, decVars
    <3> QED
      BY <3>1, <3>2, <3>3, <3>4
  <2> QED
    BY <1>5, <2>1, <2>2
<1>7. CASE shown' # shown
  <2>1. HandOut
    BY <1>7 DEF FfmpegNext, SendFrame, SendEnd, Receive, TakeFrame, GrowFrames, AppendFrame,
                EncodeFrames, CloseEncoder, FeedPacket, ReceiveFrame, CloseDecoder, decVars
  <2>2. NextInTime'
    BY <1>7, <2>1, NextIsInTime
  <2>3. PICK e : shown' = Append(shown, e) /\ e.pts = dec.next_pts
    <3>1. PICK id, duration :
            shown' = Append(shown, [id |-> id, pts |-> dec.next_pts, duration |-> duration])
      BY <1>7, <2>1, Zenon DEF HandOut
    <3> DEFINE e == [id |-> id, pts |-> dec.next_pts, duration |-> duration]
    <3>2. e.pts = dec.next_pts
      OBVIOUS
    <3> HIDE DEF e
    <3> QED
      BY <3>1, <3>2 DEF e
  <2> DEFINE n == Len(shown)
  <2>4. /\ DOMAIN shown' = 1..(n + 1) /\ shown'[n + 1] = e
        /\ \A k \in 1..n : shown'[k] = shown[k]
    <3> DEFINE S == {shown[k] : k \in DOMAIN shown}
    <3>1. shown \in Seq(S)
      BY <1>1
    <3> HIDE DEF S
    <3>2. shown \in Seq(S \cup {e}) /\ e \in S \cup {e}
      BY <3>1
    <3> QED
      BY <2>3, <3>2
  <2>5. ASSUME NEW k \in 1..(n + 1) PROVE InTime(k, shown[k].pts)'
    <3> SUFFICES ASSUME NEW pts, pts = shown'[k].pts PROVE InTime(k, shown[k].pts)'
      OBVIOUS
    <3>1. k \in 1..(Len(accepted) + 1)
      BY <1>2
    <3>2. InTime(k, pts)
      <4>1. CASE k = n + 1
        <5>1. pts = dec.next_pts /\ k = dec.next_frame
          BY <1>1, <2>3, <2>4, <4>1
        <5> QED
          BY <5>1 DEF NextInTime
      <4>2. CASE k \in 1..n
        <5>1. pts = shown[k].pts
          BY <2>4, <4>2
        <5> QED
          BY <1>2, <4>2, <5>1 DEF HandedOutInTime
      <4> QED
        BY <1>2, <4>1, <4>2
    <3>3. InTime(k, pts)'
      BY <3>1, <3>2, InTimeStays
    <3> QED
      BY <3>3 DEF InTime
  <2>6. HandedOutInTime'
    BY <2>4, <2>5 DEF HandedOutInTime
  <2> QED
    BY <2>2, <2>6
<1> QED
  BY <1>6, <1>7

(* There is one packet, of the frames that were accepted, and the decoder hands   *)
(* them out once each, in order and within a tick per frame of their time,        *)
(* however often a call on the way has failed and was repeated.                   *)
THEOREM FramesAllComeBack == FfmpegSpec => []FramesComeBack
<1>1. FfmpegInit => HandedOutInTime /\ NextInTime
  <2> SUFFICES ASSUME FfmpegInit PROVE HandedOutInTime /\ NextInTime
    OBVIOUS
  <2>1. shown = <<>> /\ dec.next_frame = 1 /\ dec.next_pts = 0 /\ DOMAIN shown = {}
    BY DEF FfmpegInit
  <2>2. Due(1) = 0
    <3>1. 1 - 1 = 0 /\ 0 \in Nat
      OBVIOUS
    <3> QED
      BY <3>1, SumIs DEF Due
  <2>3. 0 * Ticks - 0 * TimeBase.den = 0 /\ (1 - 1) * TimeBase.den = 0
    BY FfmpegAssumption DEF FfmpegAssumption
  <2>4. Due(1) * Ticks - 0 * TimeBase.den \in 0..((1 - 1) * TimeBase.den)
    BY <2>2, <2>3
  <2>5. InTime(1, 0)
    BY <2>4 DEF InTime
  <2> QED
    BY <2>1, <2>5 DEF NextInTime, HandedOutInTime
<1>2. FfmpegInv /\ HandedOutInTime /\ NextInTime /\ [FfmpegNext]_ffmpegVars
        => HandedOutInTime' /\ NextInTime'
  <2>1. UNCHANGED ffmpegVars /\ HandedOutInTime /\ NextInTime => HandedOutInTime' /\ NextInTime'
    BY DEF ffmpegVars, encVars, decVars, HandedOutInTime, NextInTime, InTime, Due
  <2> QED
    BY <2>1, TimesKeep
<1>3. FfmpegInv /\ HandedOutInTime => FramesComeBack
  BY DEF FfmpegInv, FramesComeBack
<1> QED
  BY <1>1, <1>2, <1>3, FfmpegSafe, PTL DEF FfmpegSpec

------------------------------------------------------------------------------
(* WebAssembly: the heap that grows by pages                                 *)

LEMMA Quotient ==
  ASSUME NEW x \in Nat, NEW a \in Nat \ {0}
  PROVE  /\ x \div a \in Nat /\ (x \div a) * a \in Nat
         /\ (x \div a) * a <= x /\ x < (x \div a) * a + a
BY SMT

LEMMA MultipleMod ==
  ASSUME NEW k \in Nat, NEW a \in Nat \ {0}
  PROVE  (k * a) % a = 0
BY SMT

LEMMA SumMod ==
  ASSUME NEW x \in Nat, NEW k \in Nat, NEW a \in Nat \ {0}, x % a = 0
  PROVE  (x + k * a) % a = 0
<1> DEFINE q == x \div a
<1>1. x = q * a /\ q \in Nat
  BY SMT
<1> HIDE DEF q
<1>2. x + k * a = (q + k) * a /\ q + k \in Nat
  BY <1>1, SMT
<1>3. ((q + k) * a) % a = 0
  BY <1>2, MultipleMod
<1> QED
  BY <1>2, <1>3

LEMMA ProductGrows ==
  ASSUME NEW m \in Nat, NEW n \in Nat, NEW p \in Nat, m <= n
  PROVE  /\ m * p \in Nat /\ n * p \in Nat /\ m * p <= n * p
         /\ (m + n) * p = m * p + n * p
BY SMT

LEMMA Constants ==
  /\ Word \in Nat \ {0} /\ Align \in Nat \ {0} /\ PageSize \in Nat \ {0} /\ HeapBase \in Nat \ {0}
  /\ FirstPages \in Nat \ {0} /\ MaxPages \in Nat \ {0}
BY WasmAssumption DEF WasmAssumption

\* A request is rounded up to the alignment, unless that wraps.
LEMMA RoundedUp ==
  ASSUME NEW n \in Nat
  PROVE  /\ Rounded(n) \in Nat
         /\ \E k \in Nat : Rounded(n) = k * Align
         /\ n + Align - 1 < Word => n <= Rounded(n)
<1> DEFINE x == (n + Align - 1) % Word
           k == x \div Align
<1>1. x \in Nat /\ (n + Align - 1 < Word => x = n + Align - 1)
  BY Constants
<1> HIDE DEF x
<1>2. k \in Nat /\ k * Align \in Nat /\ x < k * Align + Align
  BY <1>1, Constants, Quotient
<1>3. Rounded(n) = k * Align
  BY DEF Rounded, x
<1> HIDE DEF k
<1> QED
  BY <1>1, <1>2, <1>3, Constants

\* Memory reaches to the end of a block that was granted.
LEMMA PagesReach ==
  ASSUME NEW have_pages \in FirstPages..MaxPages, pages = have_pages,
         NEW end \in Nat, end < Word,
         pages + MissingPages(end) <= MaxPages
  PROVE  /\ MissingPages(end) \in Nat
         /\ end <= (pages + MissingPages(end)) * PageSize
<1> DEFINE size == pages * PageSize
           have == size % Word
           x == (end - have + PageSize - 1) % Word
           more == x \div PageSize
<1>1. pages \in Nat \ {0} /\ size \in Nat /\ PageSize <= size /\ size <= Word
  <2>1. pages \in Nat \ {0} /\ pages <= MaxPages
    BY Constants
  <2>2. size <= MaxPages * PageSize /\ size \in Nat
    BY <2>1, Constants, ProductGrows
  <2>3. 1 * PageSize <= size
    BY <2>1, Constants, ProductGrows
  <2> QED
    BY <2>1, <2>2, <2>3, Constants, WasmAssumption DEF WasmAssumption
<1> HIDE DEF size
<1>2. have = (IF size = Word THEN 0 ELSE size)
  BY <1>1, Constants
<1>3. MissingPages(end) = IF end <= have THEN 0 ELSE more
  BY DEF MissingPages, size
<1> HIDE DEF have
<1>4. x \in Nat
  BY <1>1, <1>2, Constants
<1>5. more \in Nat /\ more * PageSize \in Nat /\ x < more * PageSize + PageSize
  <2> HIDE DEF x
  <2> QED
    BY <1>4, Constants, Quotient
<1>6. CASE end <= have
  <2>1. MissingPages(end) = 0 /\ end <= size
    BY <1>1, <1>2, <1>3, <1>6
  <2> QED
    BY <1>1, <2>1 DEF size
<1>7. CASE end > have /\ have = 0
  <2>1. size = Word
    BY <1>1, <1>2, <1>7, Constants
  <2>2. MissingPages(end) = more
    BY <1>3, <1>7
  <2> HIDE DEF more
  <2>3. (pages + more) * PageSize = size + more * PageSize
    BY <1>1, <1>5, Constants DEF size
  <2> QED
    BY <1>1, <1>5, <2>1, <2>2, <2>3
<1>8. CASE end > have /\ have # 0
  <2>1. have = size
    BY <1>2, <1>8
  <2>2. x = end - have + PageSize - 1
    BY <1>1, <1>8, <2>1, Constants
  <2>3. MissingPages(end) = more
    BY <1>1, <1>3, <1>8, <2>1
  <2> HIDE DEF x, more
  <2>4. (pages + more) * PageSize = size + more * PageSize
    BY <1>1, <1>5, Constants DEF size
  <2>5. end <= size + more * PageSize
    BY <1>1, <1>5, <2>1, <2>2, Constants
  <2> QED
    BY <1>5, <2>3, <2>4, <2>5
<1>9. end <= have \/ (end > have /\ have = 0) \/ (end > have /\ have # 0)
  BY <1>1, <1>2, Constants
<1> QED
  BY <1>6, <1>7, <1>8, <1>9

LEMMA MissingIsNat ==
  ASSUME WasmTypeOK, NEW end \in Nat
  PROVE  MissingPages(end) \in Nat
<1> DEFINE have == (pages * PageSize) % Word
           x == (end - have + PageSize - 1) % Word
<1>1. pages * PageSize \in Nat
  BY Constants, ProductGrows DEF WasmTypeOK
<1>2. have \in Nat
  <2> DEFINE size == pages * PageSize
  <2>1. size \in Nat
    BY <1>1
  <2> HIDE DEF size
  <2>2. size % Word \in Nat
    BY <2>1, Constants
  <2> QED
    BY <2>2 DEF size
<1>3. MissingPages(end) = IF end <= have THEN 0 ELSE x \div PageSize
  BY DEF MissingPages
<1> HIDE DEF have
<1>4. x \in Nat
  BY <1>2, Constants
<1> HIDE DEF x
<1> QED
  BY <1>3, <1>4, Constants, Quotient

\* A block that is handed out, and one that is not, leave the heap in order.
LEMMA MallocTypes ==
  ASSUME WasmTypeOK, NEW n \in Nat, Malloc(n) \/ MallocFails(n)
  PROVE  /\ g_brk' \in Nat /\ pages' \in FirstPages..MaxPages /\ wrapped' \in BOOLEAN
         /\ live' \subseteq [at : Nat, asked : Nat]
         /\ live \subseteq live' /\ (wrapped => wrapped')
<1>1. Brk \in Nat
  BY Constants DEF Brk, WasmTypeOK
<1>2. CASE Malloc(n)
  <2> DEFINE end == Brk + Rounded(n)
             want == end % Word
  <2>1. end \in Nat
    BY <1>1, RoundedUp
  <2> HIDE DEF end
  <2>2. want \in Nat
    BY <2>1, Constants
  <2> HIDE DEF want
  <2>3. MissingPages(want) \in Nat
    BY <2>2, MissingIsNat
  <2>4. /\ g_brk' = want /\ pages' = pages + MissingPages(want)
        /\ pages + MissingPages(want) <= MaxPages
        /\ live' = live \cup {[at |-> Brk, asked |-> n]}
        /\ wrapped' = (wrapped \/ n + Align - 1 >= Word \/ end >= Word)
    BY <1>2 DEF Malloc, want, end
  <2>5. pages' \in FirstPages..MaxPages
    BY <2>3, <2>4, Constants DEF WasmTypeOK
  <2>6. [at |-> Brk, asked |-> n] \in [at : Nat, asked : Nat]
    BY <1>1
  <2>7. wrapped' \in BOOLEAN /\ (wrapped => wrapped')
    BY <2>4
  <2> QED
    BY <2>2, <2>4, <2>5, <2>6, <2>7 DEF WasmTypeOK
<1>3. CASE MallocFails(n)
  BY <1>1, <1>3 DEF MallocFails, WasmTypeOK
<1> QED
  BY <1>2, <1>3

LEMMA MallocKeeps ==
  ASSUME WasmTypeOK, HeapInOrder, NEW n \in Nat, Malloc(n), ~wrapped'
  PROVE  HeapInOrder' /\ [at |-> Brk, asked |-> n] \in live' /\ Brk \in Nat \ {0}
<1> DEFINE end == Brk + Rounded(n)
           new == [at |-> Brk, asked |-> n]
<1>1. Brk \in Nat /\ Brk > 0 /\ Brk >= HeapBase /\ Brk % Align = 0
  BY Constants DEF Brk, WasmTypeOK, HeapInOrder
<1>2. end < Word /\ n + Align - 1 < Word /\ end \in Nat
  <2>1. end \in Nat
    BY <1>1, RoundedUp
  <2>2. ~(n + Align - 1 >= Word) /\ ~(end >= Word)
    BY Zenon DEF Malloc
  <2> HIDE DEF end
  <2> QED
    BY <2>1, <2>2, Constants
<1>3. Brk + n <= end /\ end >= Brk
  BY <1>1, <1>2, RoundedUp
<1>4. end % Align = 0
  <2>1. PICK k \in Nat : Rounded(n) = k * Align
    BY RoundedUp
  <2>2. (Brk + k * Align) % Align = 0
    BY <1>1, Constants, SumMod
  <2> QED
    BY <2>1, <2>2
<1>5. end % Word = end
  <2> HIDE DEF end
  <2> QED
    BY <1>2, Constants
<1>6. /\ g_brk' = end /\ pages' = pages + MissingPages(end) /\ pages' <= MaxPages
      /\ live' = live \cup {new}
  BY <1>5 DEF Malloc
<1> HIDE DEF end, new
<1>7. Brk' = end
  BY <1>1, <1>3, <1>6, Constants DEF Brk
<1>8. MissingPages(end) \in Nat /\ end <= pages' * PageSize
  BY <1>2, <1>6, PagesReach DEF WasmTypeOK
<1>9. pages * PageSize <= pages' * PageSize /\ pages * PageSize \in Nat /\ pages' * PageSize \in Nat
  <2>1. pages \in Nat /\ pages' \in Nat /\ pages <= pages'
    BY <1>6, <1>8, Constants DEF WasmTypeOK
  <2> QED
    BY <2>1, Constants, ProductGrows
<1>10. new.at = Brk /\ new.asked = n
  BY DEF new
<1>11. \A b \in live : /\ b.at \in Nat /\ b.asked \in Nat
                       /\ b.at >= HeapBase /\ b.at % Align = 0
                       /\ b.at + b.asked <= Brk /\ b.at + b.asked <= pages * PageSize
  BY DEF WasmTypeOK, HeapInOrder
<1>12. \A b \in live' : /\ b.at >= HeapBase /\ b.at % Align = 0
                       /\ b.at + b.asked <= end /\ b.at + b.asked <= pages' * PageSize
  <2>1. TAKE b \in live'
  <2> DEFINE top == pages' * PageSize
             old == pages * PageSize
  <2>2. old <= top /\ old \in Nat /\ top \in Nat /\ end <= top
    BY <1>8, <1>9
  <2>3. b \in live => b.at + b.asked <= old
    BY <1>11
  <2> HIDE DEF top, old
  <2>4. CASE b \in live
    <3>1. b.at + b.asked <= end /\ b.at + b.asked <= top
      BY <1>1, <1>2, <1>3, <1>11, <2>2, <2>3, <2>4
    <3> QED
      BY <1>11, <2>4, <3>1 DEF top
  <2>5. CASE b = new
    <3>1. b.at + b.asked <= end /\ b.at + b.asked <= top
      BY <1>1, <1>2, <1>3, <1>10, <2>2, <2>5
    <3> QED
      BY <1>1, <1>10, <2>5, <3>1 DEF top
  <2> QED
    BY <1>6, <2>4, <2>5
<1>13. \A b, c \in live' : b # c => b.at + b.asked <= c.at \/ c.at + c.asked <= b.at
  <2>1. \A b \in live : b.at + b.asked <= new.at
    BY <1>10, <1>11
  <2>2. \A b, c \in live : b # c => b.at + b.asked <= c.at \/ c.at + c.asked <= b.at
    BY DEF HeapInOrder
  <2> QED
    BY <1>6, <2>1, <2>2
<1>14. HeapInOrder'
  BY <1>1, <1>3, <1>4, <1>7, <1>12, <1>13, <1>2, Constants DEF HeapInOrder
<1> QED
  BY <1>1, <1>6, <1>14 DEF new

LEMMA MallocFailsKeeps ==
  ASSUME WasmTypeOK, NEW n \in Nat, MallocFails(n)
  PROVE  /\ UNCHANGED <<pages, live, wrapped>> /\ Brk' = Brk
         /\ HeapInOrder => HeapInOrder'
<1>1. Brk' = Brk /\ UNCHANGED <<pages, live, wrapped>>
  BY Constants DEF MallocFails, Brk, WasmTypeOK
<1> QED
  BY <1>1 DEF HeapInOrder

\* In order, blocks are apart.
LEMMA OrderedAreApart ==
  ASSUME WasmTypeOK, HeapInOrder
  PROVE  BlocksAreApart
<1>1. \A b \in live : /\ b.at \in Nat /\ b.asked \in Nat /\ b.at % Align = 0
                      /\ b.at >= HeapBase /\ b.at + b.asked <= pages * PageSize
  BY DEF WasmTypeOK, HeapInOrder
<1>2. pages * PageSize \in Nat
  BY Constants, ProductGrows DEF WasmTypeOK
<1>3. ASSUME NEW b \in live PROVE Bytes(b) \subseteq HeapBase..(pages * PageSize - 1)
  <2> DEFINE top == pages * PageSize
  <2>1. top \in Nat /\ b.at + b.asked <= top
    BY <1>1, <1>2
  <2> HIDE DEF top
  <2>2. Bytes(b) \subseteq HeapBase..(top - 1)
    BY <1>1, <2>1, Constants DEF Bytes
  <2> QED
    BY <2>2 DEF top
<1>4. ASSUME NEW b \in live, NEW c \in live, b # c PROVE Bytes(b) \cap Bytes(c) = {}
  <2>1. b.at + b.asked <= c.at \/ c.at + c.asked <= b.at
    BY <1>4 DEF HeapInOrder
  <2> QED
    BY <1>1, <2>1 DEF Bytes
<1> QED
  BY <1>1, <1>3, <1>4 DEF BlocksAreApart

WasmImages ==
  [ file : WasmFiles \cup {NoFile}, data : Nat, size : Nat, channels : Nat, depth : Nat ]

LEMMA SizesAreNumbers ==
  ASSUME NEW w \in Nat, NEW h \in Nat, NEW channels \in Nat, NEW depth \in Nat
  PROVE  PixelBytes(w, h, channels, depth) \in Nat
<1> DEFINE bits == w * channels * depth
<1>1. bits \in Nat
  BY SMT
<1> HIDE DEF bits
<1>2. (bits + 7) \div 8 \in Nat
  BY <1>1, Quotient
<1> DEFINE row == (bits + 7) \div 8
<1> HIDE DEF row
<1>3. row * h \in Nat
  BY <1>2, SMT DEF row
<1> QED
  BY <1>3 DEF PixelBytes, row, bits

LEMMA FileFields ==
  ASSUME NEW f \in WasmFiles
  PROVE  /\ f.w \in Nat /\ f.h \in Nat /\ f.channels \in Nat /\ f.depth \in Nat
         /\ FileSize(f) \in Nat
         /\ ExpandedChannels(f) \in Nat /\ ExpandedDepth(f) \in Nat
         /\ PixelBytes(f.w, f.h, ExpandedChannels(f), ExpandedDepth(f)) \in Nat
<1>1. f.w \in Nat /\ f.h \in Nat /\ f.channels \in Nat /\ f.depth \in Nat
  BY WasmAssumption DEF WasmAssumption
<1>2. ExpandedChannels(f) \in Nat /\ ExpandedDepth(f) \in Nat
  BY <1>1 DEF ExpandedChannels, ExpandedDepth
<1> QED
  BY <1>1, <1>2, SizesAreNumbers DEF FileSize

LEMMA NoImageIsOne == NoWasmImage \in WasmImages /\ NoWasmImage.data = 0
BY DEF NoWasmImage, WasmImages

LEMMA InitWasm == WasmInit => WasmInv
<1> SUFFICES ASSUME WasmInit PROVE WasmInv
  OBVIOUS
<1>1. WasmTypeOK
  <2>1. FirstPages \in FirstPages..MaxPages
    BY Constants, WasmAssumption DEF WasmAssumption
  <2> QED
    BY <2>1, NoImageIsOne DEF WasmInit, WasmTypeOK, WasmImages
<1>2. HeapInOrder
  BY Constants, WasmAssumption DEF WasmInit, HeapInOrder, Brk, WasmAssumption
<1>3. ImagesAreLive
  BY DEF WasmInit, ImagesAreLive, NoWasmImage
<1> QED
  BY <1>1, <1>2, <1>3 DEF WasmInv, WasmInit, ExpandsAnImage

\* An image in a block stays in it as long as no block is freed.
LEMMA AllocKeeps == WasmInv /\ Alloc => WasmInv'
<1> SUFFICES ASSUME WasmInv, Alloc PROVE WasmInv'
  OBVIOUS
<1>1. PICK f \in WasmFiles, n \in FileBytes :
         \/ Malloc(n) /\ input' = f
         \/ MallocFails(n) /\ UNCHANGED input
  BY DEF Alloc
<1>2. n \in Nat
  BY WasmAssumption DEF WasmAssumption
<1>3. WasmTypeOK /\ wasm_at = "idle" /\ UNCHANGED <<wasm_at, entry, wasm_ret, g_img, g_rgba>>
  BY DEF Alloc, WasmInv
<1>4. /\ g_brk' \in Nat /\ pages' \in FirstPages..MaxPages /\ wrapped' \in BOOLEAN
      /\ live' \subseteq [at : Nat, asked : Nat] /\ live \subseteq live' /\ (wrapped => wrapped')
  BY <1>1, <1>2, <1>3, MallocTypes
<1>5. WasmTypeOK'
  BY <1>1, <1>3, <1>4 DEF WasmTypeOK
<1>6. ASSUME ~wrapped' PROVE HeapInOrder' /\ ImagesAreLive'
  <2>1. HeapInOrder /\ ImagesAreLive
    BY <1>4, <1>6 DEF WasmInv
  <2>2. HeapInOrder'
    BY <1>1, <1>2, <1>3, <1>6, <2>1, MallocKeeps, MallocFailsKeeps
  <2>3. ImagesAreLive'
    BY <1>3, <1>4, <2>1 DEF ImagesAreLive
  <2> QED
    BY <2>2, <2>3
<1> QED
  BY <1>3, <1>5, <1>6 DEF WasmInv, ExpandsAnImage

LEMMA DecodeKeeps == WasmInv /\ Decode => WasmInv'
<1> SUFFICES ASSUME WasmInv, Decode PROVE WasmInv'
  OBVIOUS
<1>1. /\ UNCHANGED <<g_brk, pages, live, wrapped, input, wasm_ret, g_img, g_rgba>>
      /\ wasm_at' = "scratch" /\ input # NoFile
  BY DEF Decode, heapVars
<1>2. WasmTypeOK'
  BY <1>1 DEF WasmInv, WasmTypeOK
<1>3. HeapInOrder => HeapInOrder'
  BY <1>1 DEF HeapInOrder, Brk
<1>4. ImagesAreLive => ImagesAreLive'
  BY <1>1 DEF ImagesAreLive
<1> QED
  BY <1>1, <1>2, <1>3, <1>4 DEF WasmInv, ExpandsAnImage

\* A call that fails has no image of its own.
LEMMA NoDecodeKeeps ==
  ASSUME WasmInv, NoDecode, UNCHANGED <<input, entry, g_rgba>>,
         g_brk' \in Nat, pages' \in FirstPages..MaxPages, wrapped' \in BOOLEAN,
         live' \subseteq [at : Nat, asked : Nat], live \subseteq live', wrapped => wrapped',
         ~wrapped' => HeapInOrder'
  PROVE  WasmInv'
<1>1. wasm_at' = "idle" /\ wasm_ret' = 0 /\ g_img' = NoWasmImage
  BY DEF NoDecode, WasmReturns
<1>2. WasmTypeOK'
  BY <1>1, NoImageIsOne DEF WasmInv, WasmTypeOK, WasmImages
<1>3. ASSUME ~wrapped' PROVE ImagesAreLive'
  BY <1>1, <1>3, NoImageIsOne DEF WasmInv, ImagesAreLive
<1> QED
  BY <1>1, <1>2, <1>3 DEF WasmInv, ExpandsAnImage

LEMMA ScratchKeeps == WasmInv /\ DecodeScratch => WasmInv'
<1> SUFFICES ASSUME WasmInv, DecodeScratch PROVE WasmInv'
  OBVIOUS
<1>1. PICK b \in Scratch :
       LET total == (b[1] * b[2]) % Word
       IN  \/ Overflows(b[1], b[2]) /\ NoDecode /\ UNCHANGED heapVars
           \/ /\ ~Overflows(b[1], b[2])
              /\ \/ Malloc(total) /\ wasm_at' = "pixels" /\ UNCHANGED <<g_img, wasm_ret>>
                 \/ MallocFails(total) /\ NoDecode
  BY DEF DecodeScratch
<1> DEFINE total == (b[1] * b[2]) % Word
<1>2. total \in Nat
  <2>1. b[1] \in Nat /\ b[2] \in Nat
    BY WasmAssumption DEF WasmAssumption
  <2> DEFINE product == b[1] * b[2]
  <2>2. product \in Nat
    BY <2>1, SMT
  <2> HIDE DEF product
  <2>3. product % Word \in Nat
    BY <2>2, Constants
  <2> QED
    BY <2>3 DEF product
<1>3. /\ UNCHANGED <<input, entry, g_rgba>> /\ wasm_at = "scratch"
      /\ \/ NoDecode /\ UNCHANGED heapVars
         \/ Malloc(total) /\ wasm_at' = "pixels" /\ UNCHANGED <<g_img, wasm_ret>>
         \/ MallocFails(total) /\ NoDecode
  BY <1>1, Zenon DEF DecodeScratch
<1> HIDE DEF total
<1>4. CASE NoDecode /\ UNCHANGED heapVars
  <2>1. UNCHANGED <<g_brk, pages, live, wrapped>>
    BY <1>4 DEF heapVars
  <2>2. HeapInOrder => HeapInOrder'
    BY <2>1 DEF HeapInOrder, Brk
  <2> QED
    BY <1>3, <1>4, <2>1, <2>2, NoDecodeKeeps DEF WasmInv, WasmTypeOK
<1>5. CASE MallocFails(total) /\ NoDecode
  <2>1. /\ g_brk' \in Nat /\ pages' \in FirstPages..MaxPages /\ wrapped' \in BOOLEAN
        /\ live' \subseteq [at : Nat, asked : Nat] /\ live \subseteq live' /\ (wrapped => wrapped')
    BY <1>2, <1>5, MallocTypes DEF WasmInv
  <2>2. ~wrapped' => HeapInOrder'
    BY <1>2, <1>5, <2>1, MallocFailsKeeps DEF WasmInv
  <2> QED
    BY <1>3, <1>5, <2>1, <2>2, NoDecodeKeeps
<1>6. CASE Malloc(total) /\ wasm_at' = "pixels" /\ UNCHANGED <<g_img, wasm_ret>>
  <2>1. /\ g_brk' \in Nat /\ pages' \in FirstPages..MaxPages /\ wrapped' \in BOOLEAN
        /\ live' \subseteq [at : Nat, asked : Nat] /\ live \subseteq live' /\ (wrapped => wrapped')
    BY <1>2, <1>6, MallocTypes DEF WasmInv
  <2>2. WasmTypeOK'
    BY <1>3, <1>6, <2>1 DEF WasmInv, WasmTypeOK
  <2>3. ASSUME ~wrapped' PROVE HeapInOrder' /\ ImagesAreLive'
    <3>1. HeapInOrder /\ ImagesAreLive /\ WasmTypeOK
      BY <2>1, <2>3 DEF WasmInv
    <3>2. HeapInOrder'
      BY <1>2, <1>6, <2>3, <3>1, MallocKeeps
    <3>3. ImagesAreLive'
      BY <1>3, <1>6, <2>1, <3>1 DEF ImagesAreLive
    <3> QED
      BY <3>2, <3>3
  <2> QED
    BY <1>6, <2>2, <2>3 DEF WasmInv, ExpandsAnImage
<1> QED
  BY <1>3, <1>4, <1>5, <1>6

LEMMA PixelsKeep == WasmInv /\ DecodePixels => WasmInv'
<1> SUFFICES ASSUME WasmInv, DecodePixels PROVE WasmInv'
  OBVIOUS
<1> DEFINE n == FileSize(input)
           got == [ file |-> input, data |-> Brk, size |-> n,
                    channels |-> input.channels, depth |-> input.depth ]
<1>1. /\ UNCHANGED <<input, entry>> /\ wasm_at = "pixels"
      /\ \/ MallocFails(n) /\ NoDecode /\ UNCHANGED g_rgba
         \/ /\ Malloc(n)
            /\ \/ NoDecode /\ UNCHANGED g_rgba
               \/ /\ g_img' = got
                  /\ \/ entry = "decode" /\ WasmReturns(1) /\ UNCHANGED g_rgba
                     \/ WasmReturns(1) /\ g_rgba' = got
                     \/ wasm_at' = "expand" /\ UNCHANGED <<g_rgba, wasm_ret>>
  BY DEF DecodePixels
<1>2. input \in WasmFiles /\ n \in Nat /\ Brk \in Nat
  BY <1>1, FileFields, Constants DEF WasmInv, WasmTypeOK, Brk
<1>3. got \in WasmImages
  <2> HIDE DEF n
  <2> QED
    BY <1>2, FileFields DEF WasmImages
<1>4. got.file = input /\ got.data = Brk /\ got.size = n
  OBVIOUS
<1> HIDE DEF n, got
<1>5. /\ g_brk' \in Nat /\ pages' \in FirstPages..MaxPages /\ wrapped' \in BOOLEAN
      /\ live' \subseteq [at : Nat, asked : Nat] /\ live \subseteq live' /\ (wrapped => wrapped')
  BY <1>1, <1>2, MallocTypes DEF WasmInv
<1>6. CASE MallocFails(n) /\ NoDecode /\ UNCHANGED g_rgba
  <2>1. ~wrapped' => HeapInOrder'
    BY <1>2, <1>5, <1>6, MallocFailsKeeps DEF WasmInv
  <2> QED
    BY <1>1, <1>5, <1>6, <2>1, NoDecodeKeeps
<1>7. ASSUME Malloc(n), ~wrapped' PROVE HeapInOrder' /\ [at |-> Brk, asked |-> n] \in live' /\ Brk # 0
  BY <1>2, <1>5, <1>7, MallocKeeps DEF WasmInv
<1>8. CASE Malloc(n) /\ NoDecode /\ UNCHANGED g_rgba
  BY <1>1, <1>5, <1>7, <1>8, NoDecodeKeeps
<1>9. CASE /\ Malloc(n) /\ g_img' = got
           /\ \/ entry = "decode" /\ WasmReturns(1) /\ UNCHANGED g_rgba
              \/ WasmReturns(1) /\ g_rgba' = got
              \/ wasm_at' = "expand" /\ UNCHANGED <<g_rgba, wasm_ret>>
  <2>1. wasm_at' \in {"idle", "expand"} /\ g_rgba' \in {got, g_rgba}
    BY <1>9 DEF WasmReturns
  <2>2. WasmTypeOK'
    BY <1>1, <1>2, <1>3, <1>5, <1>9, <2>1 DEF WasmInv, WasmTypeOK, WasmImages
  <2>3. ASSUME ~wrapped' PROVE HeapInOrder' /\ ImagesAreLive' /\ g_img'.data # 0
    <3>1. HeapInOrder' /\ [at |-> got.data, asked |-> got.size] \in live' /\ got.data # 0
      BY <1>4, <1>7, <1>9, <2>3
    <3>2. ImagesAreLive
      BY <1>5, <2>3 DEF WasmInv
    <3>3. \A p \in {g_img', g_rgba'} : p.data # 0 => [at |-> p.data, asked |-> p.size] \in live'
      BY <1>5, <1>9, <2>1, <3>1, <3>2 DEF ImagesAreLive
    <3>4. (wasm_at' = "idle" /\ entry' = "decode_rgba" /\ wasm_ret' = 1) => g_rgba' = g_img'
      BY <1>1, <1>9 DEF WasmReturns
    <3> QED
      BY <1>9, <3>1, <3>3, <3>4 DEF ImagesAreLive
  <2>4. ExpandsAnImage'
    BY <1>2, <1>4, <1>9, <2>3 DEF ExpandsAnImage
  <2> QED
    BY <2>2, <2>3, <2>4 DEF WasmInv
<1> QED
  BY <1>1, <1>6, <1>8, <1>9

LEMMA ExpandKeeps == WasmInv /\ ExpandImage => WasmInv'
<1> SUFFICES ASSUME WasmInv, ExpandImage PROVE WasmInv'
  OBVIOUS
<1> DEFINE f == g_img.file
           n == PixelBytes(f.w, f.h, ExpandedChannels(f), ExpandedDepth(f))
           got == [ file |-> f, data |-> Brk, size |-> n,
                    channels |-> ExpandedChannels(f), depth |-> ExpandedDepth(f) ]
<1>1. /\ UNCHANGED <<input, entry, g_img>> /\ wasm_at = "expand" /\ wasm_at' = "idle"
      /\ \/ MallocFails(n) /\ wasm_ret' = 0 /\ UNCHANGED g_rgba
         \/ Malloc(n) /\ wasm_ret' = 1 /\ g_rgba' = got
  BY DEF ExpandImage, WasmReturns
<1>2. f \in WasmFiles /\ n \in Nat /\ Brk \in Nat
  <2>1. f \in WasmFiles
    BY <1>1 DEF WasmInv, ExpandsAnImage
  <2> HIDE DEF f
  <2> QED
    BY <2>1, FileFields, Constants DEF WasmInv, WasmTypeOK, Brk
<1>3. got \in WasmImages
  <2> HIDE DEF n, f
  <2> QED
    BY <1>2, FileFields DEF WasmImages
<1>4. got.file = f /\ got.data = Brk /\ got.size = n
  OBVIOUS
<1> HIDE DEF n, got
<1>5. /\ g_brk' \in Nat /\ pages' \in FirstPages..MaxPages /\ wrapped' \in BOOLEAN
      /\ live' \subseteq [at : Nat, asked : Nat] /\ live \subseteq live' /\ (wrapped => wrapped')
  BY <1>1, <1>2, MallocTypes DEF WasmInv
<1>6. WasmTypeOK'
  BY <1>1, <1>3, <1>5 DEF WasmInv, WasmTypeOK, WasmImages
<1>7. ASSUME ~wrapped' PROVE HeapInOrder' /\ ImagesAreLive'
  <2>1. HeapInOrder /\ ImagesAreLive /\ WasmTypeOK /\ g_img.data # 0
    BY <1>1, <1>5, <1>7 DEF WasmInv, ExpandsAnImage
  <2>2. CASE MallocFails(n) /\ wasm_ret' = 0 /\ UNCHANGED g_rgba
    <3>1. HeapInOrder'
      BY <1>2, <2>1, <2>2, MallocFailsKeeps
    <3> QED
      BY <1>1, <1>5, <2>1, <2>2, <3>1 DEF ImagesAreLive
  <2>3. CASE Malloc(n) /\ wasm_ret' = 1 /\ g_rgba' = got
    <3>1. HeapInOrder' /\ [at |-> got.data, asked |-> got.size] \in live' /\ got.data # 0
      BY <1>2, <1>4, <1>7, <2>1, <2>3, MallocKeeps
    <3>2. g_rgba'.file = g_img'.file
      BY <1>1, <1>4, <2>3
    <3> QED
      BY <1>1, <1>5, <2>1, <2>3, <3>1, <3>2 DEF ImagesAreLive
  <2> QED
    BY <1>1, <2>2, <2>3
<1> QED
  BY <1>1, <1>6, <1>7 DEF WasmInv, ExpandsAnImage

LEMMA FreeKeeps == WasmInv /\ Free => WasmInv'
<1> SUFFICES ASSUME WasmInv, Free PROVE WasmInv'
  OBVIOUS
<1>1. /\ g_img' = [g_img EXCEPT !.data = 0, !.size = 0]
      /\ g_rgba' = [g_rgba EXCEPT !.data = 0, !.size = 0]
      /\ g_brk' = HeapBase /\ live' = {} /\ UNCHANGED <<pages, wrapped>>
      /\ input' = NoFile /\ UNCHANGED <<wasm_at, entry, wasm_ret>> /\ wasm_at = "idle"
  BY DEF Free, Clear, Reset
<1>2. /\ g_img' \in WasmImages /\ g_img'.data = 0 /\ g_img'.file = g_img.file
      /\ g_rgba' \in WasmImages /\ g_rgba'.data = 0 /\ g_rgba'.file = g_rgba.file
  BY <1>1 DEF WasmInv, WasmTypeOK, WasmImages
<1>3. WasmTypeOK'
  BY <1>1, <1>2, Constants DEF WasmInv, WasmTypeOK, WasmImages
<1>4. HeapInOrder'
  BY <1>1, Constants, WasmAssumption DEF HeapInOrder, Brk, WasmAssumption
<1>5. ASSUME ~wrapped' PROVE ImagesAreLive'
  BY <1>1, <1>2, <1>5 DEF WasmInv, ImagesAreLive
<1> QED
  BY <1>1, <1>3, <1>4, <1>5 DEF WasmInv, ExpandsAnImage

\* The break and the blocks below it are in order as long as addresses fit their word,
\* and both result images are NULL or in blocks since the last reset (pxl_wasm.c,
\* malloc of wasm_shim.c).
THEOREM WasmSafe == WasmSpec => []WasmInv
<1>1. WasmInv /\ [WasmNext]_wasmVars => WasmInv'
  <2> SUFFICES ASSUME WasmInv, [WasmNext]_wasmVars PROVE WasmInv'
    OBVIOUS
  <2>1. CASE WasmNext
    BY <2>1, AllocKeeps, DecodeKeeps, ScratchKeeps, PixelsKeep, ExpandKeeps, FreeKeeps, Zenon
    DEF WasmNext
  <2>2. CASE UNCHANGED wasmVars
    BY <2>2 DEF wasmVars, heapVars, WasmInv, WasmTypeOK, HeapInOrder, Brk, ExpandsAnImage,
                ImagesAreLive
  <2> QED
    BY <2>1, <2>2
<1> QED
  BY <1>1, InitWasm, PTL DEF WasmSpec

\* Blocks are apart from each other and in the memory that was grown for them, and the
\* images that the page reads lie in them, in every order of the entry points.
THEOREM HeapIsSound == WasmSpec => []WasmIsSound
<1>1. WasmInv => WasmIsSound
  BY OrderedAreApart DEF WasmInv, WasmIsSound
<1> QED
  BY <1>1, WasmSafe, PTL

------------------------------------------------------------------------------
(* pxltool with the PNG load and save                                        *)

PngImages ==
  [ width : Nat, height : Nat, channels : Nat, bytes_per_channel : Nat, bit_depth : Nat,
    size : {0}, palette : Nat, palette_alpha : Nat, metadata : BOOLEAN ]

LEMMA NoImageOwnsNothing ==
  NoImage \in PngImages /\ BlocksOf(NoImage) = {} /\ NoImage.palette = 0
    /\ NoImage.palette_alpha = 0 /\ NoImage.size = 0 /\ ~NoImage.metadata
BY DEF NoImage, PngImages, BlocksOf

\* What a failed load leaves, from anywhere but its first two steps.
LEMMA FailLeavesPalette ==
  ASSUME LoadInOrder, png_at \in BeforeImage, UNCHANGED png_file,
         png_heap' = png_heap \ FailFrees, png_at' = "not_loaded"
  PROVE  LoadInOrder'
<1>1. Indexed' = Indexed
  BY DEF Indexed
<1>2. png_heap = Reading \cup BlocksOf(pimg)
      /\ (~Indexed => pimg.palette = 0 /\ pimg.palette_alpha = 0)
  BY DEF LoadInOrder
<1>3. Reading \subseteq FailFrees
  BY DEF Reading, FailFrees
<1>4. /\ BlocksOf(pimg) \ FailFrees \subseteq {"palette", "palette_alpha"}
      /\ ~Indexed => BlocksOf(pimg) \subseteq FailFrees
  BY <1>2 DEF BlocksOf, FailFrees
<1>5. LoadOwns'
  BY <1>1, <1>2, <1>3, <1>4 DEF LoadOwns
<1> QED
  BY <1>5 DEF LoadInOrder, BeforeImage, BeforeHeader

LEMMA FailKeeps ==
  ASSUME LoadInOrder, png_at \in BeforeImage, UNCHANGED png_file, LoadReturns(FailFrees)
  PROVE  LoadInOrder'
BY FailLeavesPalette DEF LoadReturns

LEMMA SlurpKeeps ==
  ASSUME LoadInOrder, Slurp
  PROVE  LoadInOrder'
<1>1. png_at = "load" /\ UNCHANGED <<png_file, pimg>>
  BY DEF Slurp, LoadFrameVars
<1>2. pimg = NoImage /\ png_heap = {}
  BY <1>1, NoImageOwnsNothing DEF LoadInOrder, BeforeImage, BeforeHeader, Reading
<1>3. Indexed' = Indexed
  BY <1>1 DEF Indexed
<1>4. CASE png_heap' = png_heap \ {} /\ png_at' = "not_loaded"
  BY <1>2, <1>4 DEF LoadInOrder, LoadOwns, BeforeImage, BeforeHeader
<1>5. CASE png_heap' = png_heap \cup {"file"} /\ png_at' = "signature"
  BY <1>1, <1>2, <1>3, <1>5, NoImageOwnsNothing
  DEF LoadInOrder, LoadOwns, BeforeImage, BeforeHeader, Reading, PngImages
<1> QED
  BY <1>4, <1>5 DEF Slurp, TakeBlock, LoadReturns

LEMMA SignatureKeeps ==
  ASSUME LoadInOrder, CheckSignature
  PROVE  LoadInOrder'
<1>1. png_at = "signature" /\ UNCHANGED <<png_file, pimg>>
  BY DEF CheckSignature, LoadFrameVars
<1>2. pimg = NoImage /\ png_heap = {"file"}
  BY <1>1, NoImageOwnsNothing DEF LoadInOrder, BeforeImage, BeforeHeader, Reading
<1>3. Indexed' = Indexed
  BY <1>1 DEF Indexed
<1>4. CASE png_heap' = png_heap \ {"file"} /\ png_at' = "not_loaded"
  BY <1>2, <1>4 DEF LoadInOrder, LoadOwns, BeforeImage, BeforeHeader
<1>5. CASE png_at' = "read_png" /\ UNCHANGED png_heap
  BY <1>1, <1>2, <1>3, <1>5, NoImageOwnsNothing
  DEF LoadInOrder, LoadOwns, BeforeImage, BeforeHeader, Reading, PngImages
<1> QED
  BY <1>4, <1>5 DEF CheckSignature, LoadReturns

LEMMA CreateReadKeeps ==
  ASSUME LoadInOrder, CreateRead
  PROVE  LoadInOrder'
<1>1. png_at \in {"read_png", "read_info"} /\ UNCHANGED <<png_file, pimg>>
  BY DEF CreateRead, LoadFrameVars
<1>2. /\ pimg = NoImage /\ png_at \in BeforeImage
      /\ png_heap = IF png_at = "read_png" THEN {"file"} ELSE {"file", "png"}
  BY <1>1, NoImageOwnsNothing DEF LoadInOrder, BeforeImage, BeforeHeader, Reading
<1>3. Indexed' = Indexed
  BY <1>1 DEF Indexed
<1>4. CASE LoadReturns(FailFrees)
  BY <1>1, <1>2, <1>4, FailKeeps
<1>5. CASE png_at = "read_png" /\ png_heap' = png_heap \cup {"png"} /\ png_at' = "read_info"
  BY <1>1, <1>2, <1>3, <1>5, NoImageOwnsNothing
  DEF LoadInOrder, LoadOwns, BeforeImage, BeforeHeader, Reading, PngImages
<1>6. CASE png_at = "read_info" /\ png_heap' = png_heap \cup {"info"} /\ png_at' = "header"
  BY <1>1, <1>2, <1>3, <1>6, NoImageOwnsNothing
  DEF LoadInOrder, LoadOwns, BeforeImage, BeforeHeader, Reading, PngImages
<1> QED
  BY <1>4, <1>5, <1>6 DEF CreateRead, TakeBlock

LEMMA HeaderKeeps ==
  ASSUME LoadInOrder, ReadHeader
  PROVE  LoadInOrder'
<1>1. png_at = "header" /\ UNCHANGED png_file
  BY DEF ReadHeader, LoadFrameVars
<1>2. pimg = NoImage /\ png_heap = {"file", "png", "info"} /\ png_at \in BeforeImage
  BY <1>1, NoImageOwnsNothing DEF LoadInOrder, BeforeImage, BeforeHeader, Reading
<1>3. Indexed' = Indexed
  BY <1>1 DEF Indexed
<1>4. CASE LoadFails
  BY <1>1, <1>2, <1>4, FailKeeps DEF LoadFails
<1>5. CASE ~LoadFails
  <2>1. PICK oom \in BOOLEAN :
          /\ pimg' = [NoImage EXCEPT !.metadata = png_file.records /\ ~oom]
          /\ png_heap' = png_heap \cup (IF png_file.records /\ ~oom THEN {"metadata"} ELSE {})
    BY <1>5, PngAssumption DEF ReadHeader, PngAssumption
  <2>2. png_at' = IF Indexed THEN "palette" ELSE "layout"
    BY <1>5 DEF ReadHeader
  <2> DEFINE got == png_file.records /\ ~oom
  <2>3. /\ pimg' \in PngImages /\ pimg'.palette = 0 /\ pimg'.palette_alpha = 0 /\ pimg'.size = 0
        /\ (pimg'.metadata <=> got)
    BY <2>1 DEF NoImage, PngImages
  <2>4. png_heap' = {"file", "png", "info"} \cup BlocksOf(pimg')
    BY <1>2, <2>1, <2>3 DEF BlocksOf
  <2>5. BlocksOf(pimg)' = BlocksOf(pimg')
    OBVIOUS
  <2> QED
    BY <1>3, <2>2, <2>3, <2>4, <2>5
    DEF LoadInOrder, LoadOwns, BeforeImage, BeforeHeader, Reading, PngImages
<1> QED
  BY <1>4, <1>5

LEMMA PaletteKeeps ==
  ASSUME LoadInOrder, LoadPalette, png_file \in PngFiles
  PROVE  LoadInOrder'
<1>1. png_at = "palette" /\ UNCHANGED png_file
  BY DEF LoadPalette, LoadFrameVars
<1>2. /\ pimg \in PngImages /\ Indexed /\ pimg.palette = 0 /\ pimg.palette_alpha = 0
      /\ png_heap = {"file", "png", "info"} \cup BlocksOf(pimg) /\ png_at \in BeforeImage
  BY <1>1 DEF LoadInOrder, BeforeImage, BeforeHeader, Reading, PngImages
<1>3. Indexed' = Indexed /\ png_file.entries \in Nat /\ png_file.alphas \in Nat
  BY <1>1, PngAssumption DEF Indexed, PngAssumption
<1>4. CASE LoadReturns(FailFrees)
  BY <1>1, <1>2, <1>4, FailKeeps
<1>5. CASE /\ png_file.entries \in 1..MaxEntries
           /\ png_heap' = png_heap \cup {"palette"}
           /\ png_at' = (IF png_file.alphas > 0 THEN "alpha" ELSE "layout")
           /\ pimg' = [pimg EXCEPT !.palette = png_file.entries]
  <2>1. png_file.entries > 0
    BY <1>5, PngAssumption DEF PngAssumption
  <2>2. /\ pimg' \in PngImages /\ pimg'.palette = png_file.entries /\ pimg'.palette_alpha = 0
        /\ pimg'.size = 0 /\ pimg'.metadata = pimg.metadata /\ pimg.size = 0
    BY <1>2, <1>3, <1>5 DEF PngImages
  <2>3. png_heap' = {"file", "png", "info"} \cup BlocksOf(pimg')
    BY <1>2, <1>5, <2>1, <2>2 DEF BlocksOf
  <2>4. BlocksOf(pimg)' = BlocksOf(pimg')
    OBVIOUS
  <2> QED
    BY <1>1, <1>2, <1>3, <1>5, <2>1, <2>2, <2>3, <2>4
    DEF LoadInOrder, LoadOwns, BeforeImage, BeforeHeader, Reading, PngImages
<1> QED
  BY <1>4, <1>5 DEF LoadPalette, TakeBlock, LoadFails, LoadReturns

LEMMA AlphaKeeps ==
  ASSUME LoadInOrder, LoadAlpha, png_file \in PngFiles
  PROVE  LoadInOrder'
<1>1. png_at = "alpha" /\ UNCHANGED png_file
  BY DEF LoadAlpha, LoadFrameVars
<1>2. /\ pimg \in PngImages /\ Indexed /\ pimg.palette > 0 /\ pimg.palette = png_file.entries
      /\ png_file.alphas > 0 /\ pimg.palette_alpha = 0
      /\ png_heap = {"file", "png", "info"} \cup BlocksOf(pimg) /\ png_at \in BeforeImage
  BY <1>1 DEF LoadInOrder, BeforeImage, BeforeHeader, Reading, PngImages
<1>3. Indexed' = Indexed /\ png_file.entries \in Nat /\ png_file.alphas \in Nat
  BY <1>1, PngAssumption DEF Indexed, PngAssumption
<1>4. CASE LoadReturns(FailFrees)
  BY <1>1, <1>2, <1>4, FailKeeps
<1>5. CASE /\ png_heap' = png_heap \cup {"palette_alpha"} /\ png_at' = "layout"
           /\ pimg' = [pimg EXCEPT !.palette_alpha = Least(png_file.alphas, png_file.entries)]
  <2>1. Least(png_file.alphas, png_file.entries) \in Nat /\ Least(png_file.alphas, png_file.entries) > 0
    BY <1>2, <1>3 DEF Least
  <2>2. /\ pimg' \in PngImages /\ pimg'.palette = pimg.palette /\ pimg'.palette_alpha > 0
        /\ pimg'.size = 0 /\ pimg'.metadata = pimg.metadata /\ pimg.size = 0
    BY <1>2, <1>5, <2>1 DEF PngImages
  <2>3. png_heap' = {"file", "png", "info"} \cup BlocksOf(pimg')
    BY <1>2, <1>5, <2>2 DEF BlocksOf
  <2>4. BlocksOf(pimg)' = BlocksOf(pimg')
    OBVIOUS
  <2> QED
    BY <1>1, <1>2, <1>3, <1>5, <2>2, <2>3, <2>4
    DEF LoadInOrder, LoadOwns, BeforeImage, BeforeHeader, Reading, PngImages
<1> QED
  BY <1>4, <1>5 DEF LoadAlpha, TakeBlock, LoadFails, LoadReturns

LEMMA LayoutKeeps ==
  ASSUME LoadInOrder, ReadLayout
  PROVE  LoadInOrder'
<1>1. png_at = "layout" /\ UNCHANGED png_file
  BY DEF ReadLayout, LoadFrameVars
<1>2. /\ pimg \in PngImages /\ (~Indexed => pimg.palette = 0 /\ pimg.palette_alpha = 0)
      /\ png_heap = {"file", "png", "info"} \cup BlocksOf(pimg) /\ png_at \in BeforeImage
  BY <1>1 DEF LoadInOrder, BeforeImage, BeforeHeader, Reading, PngImages
<1>3. Indexed' = Indexed /\ LayoutOk' = LayoutOk
  BY <1>1 DEF Indexed, LayoutOk, ReadDepth, ReadChannels, TrnsToAlpha, FileChannels
<1>4. CASE LoadReturns(FailFrees)
  BY <1>1, <1>2, <1>4, FailKeeps
<1>5. CASE /\ LayoutOk /\ pimg' = [pimg EXCEPT !.bit_depth = DepthKept]
           /\ png_at' = "buffer" /\ UNCHANGED png_heap
  <2>1. DepthKept \in Nat
    BY <1>5 DEF DepthKept, LayoutOk
  <2>2. /\ pimg' \in PngImages /\ pimg'.palette = pimg.palette /\ pimg'.size = 0
        /\ pimg'.palette_alpha = pimg.palette_alpha /\ pimg'.metadata = pimg.metadata
        /\ pimg.size = 0
    BY <1>2, <1>5, <2>1 DEF PngImages
  <2>3. png_heap' = {"file", "png", "info"} \cup BlocksOf(pimg')
    BY <1>2, <1>5, <2>2 DEF BlocksOf
  <2>4. BlocksOf(pimg)' = BlocksOf(pimg')
    OBVIOUS
  <2> QED
    BY <1>1, <1>2, <1>3, <1>5, <2>2, <2>3, <2>4
    DEF LoadInOrder, LoadOwns, BeforeImage, BeforeHeader, Reading, PngImages
<1> QED
  BY <1>4, <1>5 DEF ReadLayout, LoadFails

LEMMA AllocateKeeps ==
  ASSUME LoadInOrder, AllocateImage
  PROVE  LoadInOrder'
<1>1. png_at \in {"buffer", "row_table"} /\ UNCHANGED png_file
  BY DEF AllocateImage, LoadFrameVars
<1>2. /\ pimg \in PngImages /\ (~Indexed => pimg.palette = 0 /\ pimg.palette_alpha = 0)
      /\ LayoutOk /\ png_at \in BeforeImage
      /\ png_heap = (IF png_at = "buffer" THEN {"file", "png", "info"}
                     ELSE {"file", "png", "info", "buffer"}) \cup BlocksOf(pimg)
  BY <1>1 DEF LoadInOrder, BeforeImage, BeforeHeader, Reading, PngImages
<1>3. Indexed' = Indexed /\ LayoutOk' = LayoutOk
  BY <1>1 DEF Indexed, LayoutOk, ReadDepth, ReadChannels, TrnsToAlpha, FileChannels
<1>4. CASE LoadReturns(FailFrees)
  BY <1>1, <1>2, <1>4, FailKeeps
<1>5. CASE /\ UNCHANGED pimg
           /\ \/ png_at = "buffer" /\ png_heap' = png_heap \cup {"buffer"} /\ png_at' = "row_table"
              \/ png_at = "row_table" /\ png_heap' = png_heap \cup {"rows"} /\ png_at' = "image"
  <2>1. BlocksOf(pimg)' = BlocksOf(pimg)
    BY <1>5 DEF BlocksOf
  <2>2. png_heap' = Reading' \cup BlocksOf(pimg)
    BY <1>2, <1>5 DEF Reading, BeforeHeader
  <2> QED
    BY <1>1, <1>2, <1>3, <1>5, <2>1, <2>2
    DEF LoadInOrder, LoadOwns, BeforeImage, BeforeHeader, PngImages
<1> QED
  BY <1>4, <1>5 DEF AllocateImage, TakeBlock, LoadFails, LoadReturns

\* A picture that is read has rows.
LEMMA RowsHaveBytes ==
  ASSUME png_file \in PngFiles, LayoutOk
  PROVE  LET size == RowSize(png_file.w, ReadChannels, ReadDepth) * png_file.h
         IN  size \in Nat /\ size > 0
<1> DEFINE w == png_file.w
           h == png_file.h
           bits == w * ReadChannels * ReadDepth
           row == (bits + 7) \div 8
<1>1. w \in Nat \ {0} /\ h \in Nat \ {0}
  BY PngAssumption DEF PngAssumption
<1>2. ReadChannels \in 1..4 /\ ReadDepth \in {1, 2, 4, 8, 16} /\ (ReadDepth < 8 => ReadChannels = 1)
  BY DEF LayoutOk
<1> HIDE DEF w, h
<1>3. bits \in Nat /\ bits >= 1
  <2>1. w * ReadChannels \in Nat /\ w * ReadChannels >= 1
    BY <1>1, <1>2, SMT
  <2> DEFINE v == w * ReadChannels
  <2> HIDE DEF v
  <2>2. v * ReadDepth \in Nat /\ v * ReadDepth >= 1
    BY <1>2, <2>1, SMT DEF v
  <2> QED
    BY <2>2 DEF v
<1>4. RowSize(w, ReadChannels, ReadDepth) = row
  BY <1>1, <1>2 DEF RowSize
<1> HIDE DEF bits
<1>5. row \in Nat /\ row >= 1
  BY <1>3
<1> HIDE DEF row
<1>6. row * h \in Nat /\ row * h > 0
  BY <1>1, <1>5, SMT
<1> QED
  BY <1>4, <1>6 DEF w, h

LEMMA ImageKeeps ==
  ASSUME LoadInOrder, ReadImage, png_file \in PngFiles
  PROVE  LoadInOrder'
<1>1. png_at = "image" /\ UNCHANGED png_file
  BY DEF ReadImage, LoadFrameVars
<1>2. /\ pimg \in PngImages /\ LayoutOk /\ png_at \in BeforeImage
      /\ png_heap = {"file", "png", "info", "buffer", "rows"} \cup BlocksOf(pimg)
  BY <1>1 DEF LoadInOrder, BeforeImage, BeforeHeader, Reading, PngImages
<1>3. CASE LoadReturns(FailFrees)
  BY <1>1, <1>2, <1>3, FailKeeps
<1>4. CASE ~LoadReturns(FailFrees)
  <2> DEFINE size == RowSize(png_file.w, ReadChannels, ReadDepth) * png_file.h
  <2>1. size \in Nat /\ size > 0
    BY <1>2, RowsHaveBytes
  <2>2. pimg' = [pimg EXCEPT
                 !.size = size,
                 !.width = png_file.w, !.height = png_file.h, !.channels = ReadChannels,
                 !.bytes_per_channel = IF ReadDepth = 16 THEN 2 ELSE 1]
        /\ png_heap' = png_heap \ {"rows", "png", "info", "file"} /\ png_at' = "loaded"
    BY <1>4 DEF ReadImage, LoadFails
  <2> HIDE DEF size
  <2>3. /\ pimg'.size = size /\ pimg'.palette = pimg.palette
        /\ pimg'.palette_alpha = pimg.palette_alpha /\ pimg'.metadata = pimg.metadata
    BY <1>2, <2>2 DEF PngImages
  <2>4. png_heap' = BlocksOf(pimg')
    BY <1>2, <2>1, <2>2, <2>3 DEF BlocksOf, PngImages
  <2>5. BlocksOf(pimg)' = BlocksOf(pimg')
    OBVIOUS
  <2> QED
    BY <2>2, <2>4, <2>5 DEF LoadInOrder, LoadOwns, BeforeImage, BeforeHeader
<1> QED
  BY <1>3, <1>4

LEMMA LoadKeepsOrder ==
  ASSUME LoadInOrder, LoadPng, png_file \in PngFiles
  PROVE  LoadInOrder'
BY SlurpKeeps, SignatureKeeps, CreateReadKeeps, HeaderKeeps, PaletteKeeps, AlphaKeeps,
   LayoutKeeps, AllocateKeeps, ImageKeeps, Zenon DEF LoadPng


\* pxl_save_png: one step after another, whatever it allocates is known.
LEMMA SaveKeepsOrder ==
  ASSUME SaveInOrder, SavePng, png_ok \in BOOLEAN
  PROVE  SaveInOrder' /\ png_ok' \in BOOLEAN /\ UNCHANGED png_file
<1> DEFINE Image == {"buffer", "palette", "palette_alpha", "metadata"}
<1>1. png_heap \subseteq Image \cup SaveHolds
  BY DEF SaveInOrder
<1>2. ASSUME CheckImage PROVE SaveInOrder' /\ png_ok' \in BOOLEAN /\ UNCHANGED png_file
  BY <1>1, <1>2
  DEF CheckImage, SaveInOrder, SaveHolds, SaveFails, SaveReturns, SaveFrameVars
<1>3. ASSUME CreateWrite PROVE SaveInOrder' /\ png_ok' \in BOOLEAN /\ UNCHANGED png_file
  BY <1>1, <1>3
  DEF CreateWrite, TakeBlock, SaveInOrder, SaveHolds, SaveReturns, SaveFrameVars
<1>4. ASSUME BeginFile PROVE SaveInOrder' /\ png_ok' \in BOOLEAN /\ UNCHANGED png_file
  BY <1>1, <1>4
  DEF BeginFile, Writing, TakeBlock, SaveInOrder, SaveHolds, SaveReturns, SaveFrameVars
<1>5. ASSUME RowTable PROVE SaveInOrder' /\ png_ok' \in BOOLEAN /\ UNCHANGED png_file
  <2>1. png_at = "check_size" /\ png_ok' = FALSE /\ UNCHANGED png_file
    BY <1>5 DEF RowTable, SaveFrameVars
  <2>2. \/ png_heap' = png_heap \ Writing /\ png_at' = "saved"
        \/ png_heap' = png_heap \cup {"rows"} /\ png_at' = "write_image"
    BY <1>5 DEF RowTable, TakeBlock, SaveReturns
  <2> QED
    BY <1>1, <2>1, <2>2 DEF SaveInOrder, SaveHolds, Writing
<1>6. ASSUME WriteImageFails PROVE SaveInOrder' /\ png_ok' \in BOOLEAN /\ UNCHANGED png_file
  BY <1>1, <1>6
  DEF WriteImageFails, Writing, SaveInOrder, SaveHolds, SaveFails, SaveReturns, SaveFrameVars
<1>7. ASSUME WriteImage PROVE SaveInOrder' /\ png_ok' \in BOOLEAN /\ UNCHANGED png_file
  BY <1>1, <1>7 DEF WriteImage, SaveInOrder, SaveHolds, SaveFrameVars
<1>8. ASSUME Inject PROVE SaveInOrder' /\ png_ok' \in BOOLEAN /\ UNCHANGED png_file
  <2>1. png_at = "inject" /\ png_at' = "spit" /\ UNCHANGED <<png_file, png_ok>>
        /\ png_heap' \subseteq png_heap \cup {"merged"}
    BY <1>8 DEF Inject, SaveFrameVars
  <2> QED
    BY <1>1, <2>1 DEF SaveInOrder, SaveHolds
<1>9. ASSUME SpitFile PROVE SaveInOrder' /\ png_ok' \in BOOLEAN /\ UNCHANGED png_file
  <2>1. png_at = "spit" /\ png_at' = "saved" /\ UNCHANGED png_file
        /\ png_heap' = png_heap \ {"writer", "merged"} /\ png_ok' \in BOOLEAN
    BY <1>9 DEF SpitFile, Spit, SaveFails, SaveReturns, SaveFrameVars
  <2>2. png_ok' => png_disk'.state = "whole" \/ unflushed'
    BY <1>9 DEF SpitFile, Spit, SaveFails, SaveReturns
  <2> QED
    BY <1>1, <2>1, <2>2 DEF SaveInOrder, SaveHolds
<1> QED
  BY <1>2, <1>3, <1>4, <1>5, <1>6, <1>7, <1>8, <1>9, Zenon DEF SavePng

LEMMA InitTool ==
  ToolInit => ToolInv
<1> SUFFICES ASSUME ToolInit PROVE ToolInv
  OBVIOUS
<1>1. cmd \in {"c", "ca", "d", "da"} /\ png_file \in PngFiles /\ png_heap = {} /\ exit = -1
      /\ tool_at = "input" /\ pimg = NoImage /\ png_ok = FALSE
      /\ png_at = (IF cmd = "c" THEN "load" ELSE "idle")
  BY DEF ToolInit
<1>2. (tool_at = "input" /\ cmd = "c") => LoadInOrder
  BY <1>1, NoImageOwnsNothing
  DEF LoadInOrder, LoadOwns, BeforeImage, BeforeHeader, Reading, PngImages
<1>3. ExitIsHonest
  BY <1>1 DEF ExitIsHonest
<1>4. exit \in {-1, 0, 1} /\ (exit # -1 <=> tool_at = "exit")
  BY <1>1
<1>5. png_ok \in BOOLEAN
  BY <1>1
<1> QED
  BY <1>1, <1>2, <1>3, <1>4, <1>5 DEF ToolInv

LEMMA LoadStageKeeps ==
  ASSUME ToolInv, LoadStage
  PROVE  ToolInv'
<1>1. cmd = "c" /\ tool_at = "input" /\ LoadPng
      /\ UNCHANGED <<cmd, tool_at, exit, pxl_disk, ours>>
  BY DEF LoadStage, stageVars
<1>2. UNCHANGED <<png_file, png_ok>>
  BY <1>1
  DEF LoadPng, Slurp, CheckSignature, CreateRead, ReadHeader, LoadPalette, LoadAlpha,
      ReadLayout, AllocateImage, ReadImage, LoadFrameVars
<1>3. LoadInOrder'
  BY <1>1, LoadKeepsOrder DEF ToolInv
<1> QED
  BY <1>1, <1>2, <1>3 DEF ToolInv, ExitIsHonest

LEMMA LoadedKeeps ==
  ASSUME ToolInv, Loaded
  PROVE  ToolInv'
<1>1. tool_at = "input" /\ cmd = "c" /\ LoadInOrder
  BY DEF Loaded, ToolInv
<1>2. LoadOwns /\ BlocksOf(pimg) \subseteq ImageBlocks
  BY <1>1 DEF LoadInOrder, BlocksOf, ImageBlocks
<1> QED
  BY <1>1, <1>2 DEF ToolInv, Loaded, Return, ExitIsHonest, LoadOwns

LEMMA LoadAnimKeeps ==
  ASSUME ToolInv, LoadAnim
  PROVE  ToolInv'
BY DEF ToolInv, LoadAnim, Return, ExitIsHonest

LEMMA EncodeStageKeeps ==
  ASSUME ToolInv, EncodeStage
  PROVE  ToolInv'
BY DEF ToolInv, EncodeStage, Return, ExitIsHonest, ImageBlocks

LEMMA WriteFileKeeps ==
  ASSUME ToolInv, WriteFile
  PROVE  ToolInv'
<1>1. tool_at = "write" /\ cmd \in {"c", "ca"} /\ png_at = "idle"
      /\ png_heap \subseteq ImageBlocks \cup {"anim", "enc"}
  BY DEF ToolInv, WriteFile
<1>2. UNCHANGED <<png_at, png_file, pimg, png_disk, png_ok, cmd>>
      /\ tool_at' = "exit" /\ png_heap' = {} /\ exit' \in {0, 1}
  BY <1>1 DEF WriteFile, WriteFails, Return
<1>3. exit' = 0 => pxl_disk'.state = "whole" \/ unflushed'
  BY DEF WriteFile, WriteFails, Return
<1> QED
  BY <1>1, <1>2, <1>3 DEF ToolInv, ExitIsHonest, Output

LEMMA DecompressKeeps ==
  ASSUME ToolInv, Decompress
  PROVE  ToolInv'
BY DEF ToolInv, Decompress, ExitIsHonest

LEMMA ReadStageKeeps ==
  ASSUME ToolInv, ReadStage
  PROVE  ToolInv'
BY DEF ToolInv, ReadStage, Return, ExitIsHonest

LEMMA DecodeStageKeeps ==
  ASSUME ToolInv, DecodeStage
  PROVE  ToolInv'
<1>1. tool_at = "decode" /\ cmd \in {"d", "da"} /\ png_at = "idle" /\ png_heap = {"bytes"}
      /\ UNCHANGED <<png_file, png_disk, png_ok, unflushed, cmd, pxl_disk, ours>>
  BY DEF ToolInv, DecodeStage
<1>2. CASE Return(1, {"bytes"}) /\ UNCHANGED <<pimg, png_at>>
  BY <1>1, <1>2 DEF ToolInv, Return, ExitIsHonest
<1>3. CASE /\ png_heap' = IF Anim THEN {"anim"} ELSE BlocksOf(pimg')
           /\ tool_at' = "save" /\ png_at' = IF Anim THEN "idle" ELSE "save"
           /\ UNCHANGED exit
  <2>1. cmd' = cmd /\ (Anim <=> cmd = "da")
    BY <1>1 DEF Anim
  <2>2. CASE cmd = "da"
    BY <1>1, <1>3, <2>1, <2>2 DEF ToolInv, ExitIsHonest
  <2>3. CASE cmd = "d"
    <3>1. png_heap' \subseteq {"buffer", "palette", "palette_alpha", "metadata"}
      BY <1>3, <2>1, <2>3 DEF BlocksOf
    <3>2. SaveInOrder'
      BY <1>3, <2>1, <2>3, <3>1 DEF SaveInOrder, SaveHolds
    <3> QED
      BY <1>1, <1>3, <2>1, <2>3, <3>2 DEF ToolInv, ExitIsHonest
  <2> QED
    BY <1>1, <2>2, <2>3
<1> QED
  BY <1>2, <1>3 DEF DecodeStage

LEMMA SaveStageKeeps ==
  ASSUME ToolInv, SaveStage
  PROVE  ToolInv'
<1>1. cmd = "d" /\ tool_at = "save" /\ SavePng /\ SaveInOrder /\ png_ok \in BOOLEAN
      /\ UNCHANGED <<cmd, tool_at, exit, pxl_disk, ours>>
  BY DEF SaveStage, stageVars, ToolInv
<1>2. SaveInOrder' /\ png_ok' \in BOOLEAN /\ UNCHANGED png_file
  BY <1>1, SaveKeepsOrder
<1> QED
  BY <1>1, <1>2 DEF ToolInv, ExitIsHonest

LEMMA SavedStageKeeps ==
  ASSUME ToolInv, SavedStage
  PROVE  ToolInv'
<1>1. cmd = "d" /\ tool_at = "save" /\ png_at = "saved" /\ SaveInOrder /\ png_ok \in BOOLEAN
      /\ UNCHANGED <<png_at, png_file, pimg, png_short, png_disk, png_ok, unflushed, cmd,
                     pxl_disk, ours>>
  BY DEF SavedStage, ToolInv
<1>2. exit' = Verdict /\ tool_at' = "exit" /\ png_heap' = png_heap \ ImageBlocks
  BY DEF SavedStage, Return
<1>3. png_heap \subseteq ImageBlocks \cup (IF png_ok THEN {} ELSE {"rows"})
      /\ (png_ok => png_disk.state = "whole" \/ unflushed)
  BY <1>1 DEF SaveInOrder, SaveHolds, ImageBlocks
<1> QED
  BY <1>1, <1>2, <1>3 DEF ToolInv, ExitIsHonest, Output, Verdict

LEMMA SaveAnimKeeps ==
  ASSUME ToolInv, SaveAnim
  PROVE  ToolInv'
BY DEF ToolInv, SaveAnim, Return, ExitIsHonest

LEMMA ToolStepKeeps ==
  ASSUME ToolInv, [ToolNext]_toolVars
  PROVE  ToolInv'
<1>1. CASE UNCHANGED toolVars
  <2>1. UNCHANGED <<png_at, png_file, png_heap, pimg, png_short, png_disk, png_ok, unflushed,
                    cmd, tool_at, exit, pxl_disk, ours>>
    BY <1>1 DEF toolVars, pngVars
  <2>2. LoadInOrder' = LoadInOrder
    BY <2>1 DEF LoadInOrder, LoadOwns, Reading, BlocksOf, Indexed, LayoutOk, ReadDepth,
                ReadChannels, TrnsToAlpha, FileChannels, BeforeImage, BeforeHeader
  <2>3. SaveInOrder' = SaveInOrder
    BY <2>1 DEF SaveInOrder, SaveHolds
  <2>4. ExitIsHonest' = ExitIsHonest
    BY <2>1 DEF ExitIsHonest, Output
  <2> QED
    BY <2>1, <2>2, <2>3, <2>4 DEF ToolInv
<1> QED
  BY <1>1, LoadStageKeeps, LoadedKeeps, LoadAnimKeeps, EncodeStageKeeps, WriteFileKeeps,
     DecompressKeeps, ReadStageKeeps, DecodeStageKeeps, SaveStageKeeps, SavedStageKeeps,
     SaveAnimKeeps, Zenon DEF ToolNext

\* pxltool knows at each stage what it holds, so that it frees all of it on its way out.
THEOREM ToolSafe == ToolSpec => []ToolInv
<1> QED
  BY InitTool, ToolStepKeeps, PTL DEF ToolSpec

\* A load owns what its image says and nothing else, and a command that returns 0 has
\* written its whole output (or fclose lost it unseen) and holds nothing.
THEOREM ToolKeepsItsWord == ToolSpec => []ToolIsSound
<1>1. ToolInv => ToolIsSound
  BY DEF ToolInv, ToolIsSound, LoadInOrder, LoadOwns, SaveInOrder
<1> QED
  BY <1>1, ToolSafe, PTL

------------------------------------------------------------------------------
(* pxltool: from PNG to PXL and back                                         *)

\* An image is its fields.
LEMMA SameFields ==
  ASSUME NEW p, NEW q, p = [x \in DOMAIN p |-> p[x]], q = [x \in DOMAIN q |-> q[x]],
         DOMAIN p = {"width", "height", "channels", "bytes_per_channel", "bit_depth", "size",
                     "palette", "palette_alpha", "metadata"},
         DOMAIN q = DOMAIN p,
         p.width = q.width, p.height = q.height, p.channels = q.channels,
         p.bytes_per_channel = q.bytes_per_channel, p.bit_depth = q.bit_depth,
         p.size = q.size, p.palette = q.palette, p.palette_alpha = q.palette_alpha,
         p.metadata = q.metadata
  PROVE  p = q
<1>1. \A x \in DOMAIN p : p[x] = q[x]
  OBVIOUS
<1> QED
  BY <1>1, Zenon

\* What libpng reads to its end can be loaded whole.
LEMMA PicturesLoad ==
  ASSUME png_file \in PngFiles, png_file.breaks = "never"
  PROVE  /\ LayoutOk
         /\ Indexed => /\ png_file.entries \in 1..MaxEntries
                       /\ Least(png_file.alphas, png_file.entries) = png_file.alphas
         /\ ~Indexed => png_file.entries = 0 /\ png_file.alphas = 0
<1>1. /\ png_file.colour \in {"gray", "gray_alpha", "rgb", "rgb_alpha", "palette"}
      /\ png_file.depth \in {1, 2, 4, 8, 16} /\ png_file.trns \in BOOLEAN
      /\ png_file.entries \in Nat /\ png_file.alphas \in Nat
  BY PngAssumption DEF PngAssumption
<1>2. IsPicture(png_file)
  BY PngFilesAssumption DEF PngFilesAssumption
<1>3. CASE Indexed
  BY <1>1, <1>2, <1>3
  DEF IsPicture, LayoutOk, ReadDepth, ReadChannels, TrnsToAlpha, FileChannels, Indexed, Least
<1>4. CASE ~Indexed
  <2>1. ReadDepth \in {1, 2, 4, 8, 16} /\ (png_file.colour # "gray" => ReadDepth \in {8, 16})
        /\ (png_file.trns => ReadDepth \in {8, 16})
    BY <1>1, <1>2, <1>4 DEF IsPicture, ReadDepth, TrnsToAlpha, Indexed
  <2>2. ReadChannels \in 1..4 /\ (png_file.colour = "gray" /\ ~png_file.trns => ReadChannels = 1)
    BY <1>1, <1>2, <1>4 DEF IsPicture, ReadChannels, FileChannels, TrnsToAlpha, Indexed
  <2>3. LayoutOk
    BY <1>1, <1>4, <2>1, <2>2 DEF LayoutOk, Indexed
  <2> QED
    BY <1>2, <1>4, <2>3 DEF IsPicture, Indexed
<1> QED
  BY <1>3, <1>4

LEMMA FileStays ==
  ASSUME UNCHANGED png_file
  PROVE  /\ LoadedImage' = LoadedImage /\ DepthKept' = DepthKept /\ Indexed' = Indexed
         /\ SameStill(png_file)' = SameStill(png_file)
BY DEF LoadedImage, DepthKept, Indexed, ReadDepth, ReadChannels, TrnsToAlpha, FileChannels,
       SameStill

\* A load fails for a reason.
LEMMA FailsForReason ==
  ASSUME UNCHANGED png_file, png_at' = "not_loaded", png_file.breaks # "never" \/ png_short'
  PROVE  LoadGoesWell'
BY DEF LoadGoesWell, BeforeHeader

LEMMA WellBeforeHeader ==
  ASSUME LoadInOrder, LoadGoesWell, Slurp \/ CheckSignature \/ CreateRead
  PROVE  LoadGoesWell'
<1>1. UNCHANGED <<png_file, pimg>>
  BY DEF Slurp, CheckSignature, CreateRead, LoadFrameVars
<1>2. CASE png_at' = "not_loaded"
  <2>1. png_file.breaks # "never" \/ png_short'
    BY <1>2 DEF Slurp, CheckSignature, CreateRead, TakeBlock, LoadReturns
  <2> QED
    BY <1>1, <1>2, <2>1, FailsForReason
<1>3. CASE png_at' # "not_loaded"
  <2>1. png_at' \in BeforeHeader
    BY <1>3 DEF Slurp, CheckSignature, CreateRead, TakeBlock, LoadReturns, BeforeHeader
  <2>2. png_at' \notin {"load", "signature"} => png_file.breaks # "signature"
    BY <1>3 DEF Slurp, CheckSignature, CreateRead, TakeBlock, LoadReturns, LoadGoesWell
  <2> QED
    BY <1>1, <2>1, <2>2 DEF LoadGoesWell, LoadedSoFar, BeforeHeader
<1> QED
  BY <1>2, <1>3

LEMMA HeaderGoesWell ==
  ASSUME LoadInOrder, LoadGoesWell, ReadHeader, png_file \in PngFiles, png_short \in BOOLEAN
  PROVE  LoadGoesWell'
<1>1. png_at = "header" /\ UNCHANGED png_file
  BY DEF ReadHeader, LoadFrameVars
<1>2. png_file.breaks # "signature"
  BY <1>1 DEF LoadGoesWell
<1>3. CASE png_file.breaks = "header"
  <2>1. png_at' = "not_loaded"
    BY <1>3 DEF ReadHeader, LoadFails, LoadReturns
  <2> QED
    BY <1>1, <1>3, <2>1, FailsForReason
<1>4. CASE png_file.breaks # "header"
  <2>1. PICK oom \in (IF png_file.records THEN MemoryFails ELSE {FALSE}) :
          /\ pimg' = [NoImage EXCEPT !.metadata = png_file.records /\ ~oom]
          /\ png_short' = (png_short \/ oom)
    BY <1>4 DEF ReadHeader
  <2>2. png_at' = IF Indexed THEN "palette" ELSE "layout"
    BY <1>4 DEF ReadHeader
  <2>3. oom \in BOOLEAN /\ png_file.records \in BOOLEAN
    BY <2>1, PngAssumption DEF PngAssumption
  <2>4. ASSUME png_file.breaks = "never", ~png_short' PROVE pimg' = LoadedSoFar'
    <3>1. oom = FALSE
      BY <2>1, <2>3, <2>4
    <3>2. pimg' = ImageSoFar(0, 0, 0)
      BY <2>1, <2>3, <3>1 DEF NoImage, ImageSoFar
    <3>3. CASE Indexed
      BY <1>1, <2>2, <3>2, <3>3 DEF LoadedSoFar, ImageSoFar
    <3>4. CASE ~Indexed
      <4>1. png_file.entries = 0 /\ png_file.alphas = 0
        BY <2>4, <3>4, PicturesLoad
      <4>2. png_at' = "layout"
        BY <2>2, <3>4
      <4> QED
        BY <1>1, <3>2, <4>1, <4>2 DEF LoadedSoFar, ImageSoFar
    <3> QED
      BY <3>3, <3>4
  <2> QED
    BY <1>1, <1>2, <1>4, <2>2, <2>4 DEF LoadGoesWell
<1> QED
  BY <1>3, <1>4

LEMMA PaletteGoesWell ==
  ASSUME LoadInOrder, LoadGoesWell, LoadPalette \/ LoadAlpha, png_file \in PngFiles
  PROVE  LoadGoesWell'
<1>1. png_at \in {"palette", "alpha"} /\ UNCHANGED png_file /\ Indexed
  BY DEF LoadPalette, LoadAlpha, LoadFrameVars, LoadInOrder
<1>2. png_file.breaks \notin {"signature", "header"}
  BY <1>1 DEF LoadGoesWell, BeforeHeader
<1>3. CASE png_at' = "not_loaded"
  <2>1. png_file.breaks = "never" => png_file.entries \in 1..MaxEntries
    BY <1>1, PicturesLoad
  <2>2. png_file.breaks # "never" \/ png_short'
    BY <1>1, <1>3, <2>1 DEF LoadPalette, LoadAlpha, TakeBlock, LoadFails, LoadReturns
  <2> QED
    BY <1>1, <1>3, <2>2, FailsForReason
<1>4. CASE png_at' # "not_loaded"
  <2>1. UNCHANGED png_short
    BY <1>1, <1>4 DEF LoadPalette, LoadAlpha, TakeBlock, LoadFails, LoadReturns
  <2>2. png_at' \in {"alpha", "layout"}
    BY <1>1, <1>4 DEF LoadPalette, LoadAlpha, TakeBlock, LoadFails, LoadReturns
  <2>3. ASSUME png_file.breaks = "never", ~png_short PROVE pimg' = LoadedSoFar'
    <3>1. pimg = LoadedSoFar /\ Least(png_file.alphas, png_file.entries) = png_file.alphas
      BY <1>1, <2>3, PicturesLoad DEF LoadGoesWell
    <3>2. CASE LoadPalette
      <4>1. /\ png_at = "palette" /\ pimg' = [pimg EXCEPT !.palette = png_file.entries]
            /\ png_at' = IF png_file.alphas > 0 THEN "alpha" ELSE "layout"
        BY <1>4, <3>2 DEF LoadPalette, TakeBlock, LoadFails, LoadReturns
      <4>2. pimg' = ImageSoFar(png_file.entries, 0, 0)
        BY <3>1, <4>1 DEF LoadedSoFar, ImageSoFar
      <4>3. CASE png_file.alphas > 0
        BY <1>1, <4>1, <4>2, <4>3 DEF LoadedSoFar, ImageSoFar
      <4>4. CASE ~(png_file.alphas > 0)
        <5>1. png_file.alphas = 0
          BY <4>4, PngAssumption DEF PngAssumption
        <5> QED
          BY <1>1, <4>1, <4>2, <4>4, <5>1 DEF LoadedSoFar, ImageSoFar
      <4> QED
        BY <4>3, <4>4
    <3>3. CASE LoadAlpha
      <4>1. /\ png_at = "alpha" /\ png_at' = "layout"
            /\ pimg' = [pimg EXCEPT !.palette_alpha = png_file.alphas]
        BY <1>4, <3>1, <3>3 DEF LoadAlpha, TakeBlock, LoadFails, LoadReturns
      <4> QED
        BY <1>1, <3>1, <4>1 DEF LoadedSoFar, ImageSoFar
    <3> QED
      BY <3>2, <3>3
  <2> QED
    BY <1>1, <1>2, <2>1, <2>2, <2>3 DEF LoadGoesWell
<1> QED
  BY <1>3, <1>4

LEMMA ImageGoesWell ==
  ASSUME LoadInOrder, LoadGoesWell, ReadLayout \/ AllocateImage \/ ReadImage, png_file \in PngFiles
  PROVE  LoadGoesWell'
<1>1. png_at \in {"layout", "buffer", "row_table", "image"} /\ UNCHANGED png_file
  BY DEF ReadLayout, AllocateImage, ReadImage, LoadFrameVars
<1>2. png_file.breaks \notin {"signature", "header"}
  BY <1>1 DEF LoadGoesWell, BeforeHeader
<1>3. CASE png_at' = "not_loaded"
  <2>1. png_file.breaks = "never" => LayoutOk
    BY PicturesLoad
  <2>2. png_file.breaks # "never" \/ png_short'
    BY <1>1, <1>3, <2>1
    DEF ReadLayout, AllocateImage, ReadImage, TakeBlock, LoadFails, LoadReturns
  <2> QED
    BY <1>1, <1>3, <2>2, FailsForReason
<1>4. CASE png_at' # "not_loaded"
  <2>1. UNCHANGED png_short
    BY <1>1, <1>4 DEF ReadLayout, AllocateImage, ReadImage, TakeBlock, LoadFails, LoadReturns
  <2>2. /\ png_at' \in {"buffer", "row_table", "image", "loaded"}
        /\ png_at' = "loaded" => png_file.breaks # "image"
    BY <1>1, <1>4 DEF ReadLayout, AllocateImage, ReadImage, TakeBlock, LoadFails, LoadReturns
  <2>3. ASSUME png_file.breaks = "never", ~png_short PROVE pimg' = LoadedSoFar'
    <3>1. pimg = LoadedSoFar /\ DepthKept' = DepthKept /\ LoadedImage' = LoadedImage
      BY <1>1, <2>3, FileStays DEF LoadGoesWell
    <3>2. CASE ReadLayout
      <4>1. png_at = "layout" /\ png_at' = "buffer" /\ pimg' = [pimg EXCEPT !.bit_depth = DepthKept]
        BY <1>4, <3>2 DEF ReadLayout, LoadFails, LoadReturns
      <4>2. pimg = ImageSoFar(png_file.entries, png_file.alphas, 0)
        BY <3>1, <4>1 DEF LoadedSoFar
      <4>3. LoadedSoFar' = ImageSoFar(png_file.entries, png_file.alphas, DepthKept)
        BY <1>1, <3>1, <4>1 DEF LoadedSoFar, ImageSoFar
      <4> QED
        BY <4>1, <4>2, <4>3 DEF ImageSoFar
    <3>3. CASE AllocateImage
      <4>1. png_at \in {"buffer", "row_table"} /\ png_at' \in {"row_table", "image"} /\ pimg' = pimg
        BY <1>4, <3>3 DEF AllocateImage, TakeBlock, LoadFails, LoadReturns
      <4>2. pimg = ImageSoFar(png_file.entries, png_file.alphas, DepthKept)
        BY <3>1, <4>1 DEF LoadedSoFar
      <4>3. LoadedSoFar' = ImageSoFar(png_file.entries, png_file.alphas, DepthKept)
        BY <1>1, <3>1, <4>1 DEF LoadedSoFar, ImageSoFar
      <4> QED
        BY <4>1, <4>2, <4>3
    <3>4. CASE ReadImage
      <4>1. /\ png_at = "image" /\ png_at' = "loaded"
            /\ pimg' = [pimg EXCEPT
                 !.size = RowSize(png_file.w, ReadChannels, ReadDepth) * png_file.h,
                 !.width = png_file.w, !.height = png_file.h, !.channels = ReadChannels,
                 !.bytes_per_channel = IF ReadDepth = 16 THEN 2 ELSE 1]
        BY <1>4, <3>4 DEF ReadImage, LoadFails, LoadReturns
      <4>2. pimg = ImageSoFar(png_file.entries, png_file.alphas, DepthKept)
        BY <3>1, <4>1 DEF LoadedSoFar
      <4>3. LoadedSoFar' = LoadedImage
        BY <1>1, <3>1, <4>1 DEF LoadedSoFar
      <4> DEFINE size == RowSize(png_file.w, ReadChannels, ReadDepth) * png_file.h
                 bytes == IF ReadDepth = 16 THEN 2 ELSE 1
      <4>4. pimg' = [pimg EXCEPT !.size = size, !.width = png_file.w, !.height = png_file.h,
                                 !.channels = ReadChannels, !.bytes_per_channel = bytes]
        BY <4>1
      <4>5. LoadedImage =
              [ width |-> png_file.w, height |-> png_file.h, channels |-> ReadChannels,
                bytes_per_channel |-> bytes, bit_depth |-> DepthKept, size |-> size,
                palette |-> png_file.entries, palette_alpha |-> png_file.alphas,
                metadata |-> png_file.records ]
        BY DEF LoadedImage
      <4> HIDE DEF size, bytes
      <4> QED
        <5> DEFINE Fields == {"width", "height", "channels", "bytes_per_channel", "bit_depth",
                              "size", "palette", "palette_alpha", "metadata"}
        <5>1. /\ DOMAIN pimg = Fields /\ pimg.bit_depth = DepthKept
              /\ pimg.palette = png_file.entries /\ pimg.palette_alpha = png_file.alphas
              /\ pimg.metadata = png_file.records
          BY <4>2 DEF ImageSoFar
        <5>2. DOMAIN pimg' = Fields /\ pimg' = [x \in DOMAIN pimg' |-> pimg'[x]]
          BY <4>4, <5>1
        <5>3. /\ pimg'.width = png_file.w /\ pimg'.height = png_file.h
              /\ pimg'.channels = ReadChannels /\ pimg'.bytes_per_channel = bytes
              /\ pimg'.size = size
          BY <4>4, <5>1
        <5>4. /\ pimg'.bit_depth = DepthKept /\ pimg'.palette = png_file.entries
              /\ pimg'.palette_alpha = png_file.alphas /\ pimg'.metadata = png_file.records
          BY <4>4, <5>1
        <5>5. /\ DOMAIN LoadedImage = Fields
              /\ LoadedImage = [x \in DOMAIN LoadedImage |-> LoadedImage[x]]
          BY <4>5
        <5>6. /\ LoadedImage.width = png_file.w /\ LoadedImage.height = png_file.h
              /\ LoadedImage.channels = ReadChannels /\ LoadedImage.bytes_per_channel = bytes
              /\ LoadedImage.bit_depth = DepthKept /\ LoadedImage.size = size
              /\ LoadedImage.palette = png_file.entries
              /\ LoadedImage.palette_alpha = png_file.alphas
              /\ LoadedImage.metadata = png_file.records
          BY <4>5
        <5>7. pimg' = LoadedImage
          BY ONLY <5>2, <5>3, <5>4, <5>5, <5>6, SameFields
        <5> QED
          BY <4>3, <5>7, Zenon
    <3> QED
      BY <3>2, <3>3, <3>4
  <2> QED
    BY <1>1, <1>2, <2>1, <2>2, <2>3 DEF LoadGoesWell, BeforeHeader
<1> QED
  BY <1>3, <1>4

LEMMA LoadKeepsWell ==
  ASSUME LoadInOrder, LoadGoesWell, LoadPng, png_file \in PngFiles, png_short \in BOOLEAN
  PROVE  LoadGoesWell'
BY WellBeforeHeader, HeaderGoesWell, PaletteGoesWell, ImageGoesWell, Zenon DEF LoadPng

\* What the decoder gives back of a picture that was loaded can be saved, and the PNG is
\* the one that was loaded, up to its transparent colour.
LEMMA PicturesSave ==
  ASSUME png_file \in PngFiles, png_file.breaks = "never"
  PROVE  LET p == Decoded(LoadedImage, FALSE)
             stride == RowSize(p.width, p.channels, DepthOf(p))
         IN  /\ Savable(p) /\ p # NoImage /\ p.width > 0 /\ p.height > 0
             /\ stride # 0 /\ p.size = stride * p.height /\ p.size \in Nat
             /\ p.metadata = png_file.records
             /\ [PngOf(p) EXCEPT !.records = png_file.records] = SameStill(png_file)
<1> DEFINE p == Decoded(LoadedImage, FALSE)
<1>1. /\ png_file.w \in Nat \ {0} /\ png_file.h \in Nat \ {0}
      /\ png_file.colour \in {"gray", "gray_alpha", "rgb", "rgb_alpha", "palette"}
      /\ png_file.depth \in {1, 2, 4, 8, 16} /\ png_file.trns \in BOOLEAN
      /\ png_file.entries \in Nat /\ png_file.alphas \in Nat /\ png_file.records \in BOOLEAN
  BY PngAssumption DEF PngAssumption
<1>2. IsPicture(png_file)
  BY PngFilesAssumption DEF PngFilesAssumption
<1>3. LayoutOk /\ (~Indexed => png_file.entries = 0 /\ png_file.alphas = 0)
      /\ (Indexed => png_file.entries > 0)
  BY PicturesLoad, PngAssumption DEF PngAssumption
<1>4. /\ ReadDepth \in {1, 2, 4, 8, 16} /\ ReadChannels \in 1..4
      /\ (ReadDepth < 8 \/ Indexed => ReadChannels = 1 /\ ReadDepth \in {1, 2, 4, 8})
  BY <1>3 DEF LayoutOk
<1>5. DepthOf(LoadedImage) = ReadDepth
  <2>1. /\ LoadedImage.bit_depth = DepthKept
        /\ LoadedImage.bytes_per_channel = IF ReadDepth = 16 THEN 2 ELSE 1
    BY DEF LoadedImage
  <2>2. DepthKept = IF Indexed \/ ReadDepth < 8 THEN ReadDepth ELSE 0
    BY DEF DepthKept
  <2> QED
    BY <1>4, <2>1, <2>2 DEF DepthOf
<1>6. /\ p.width = png_file.w /\ p.height = png_file.h /\ p.channels = ReadChannels
      /\ p.size = RowSize(png_file.w, ReadChannels, ReadDepth) * png_file.h
      /\ p.palette = png_file.entries /\ p.palette_alpha = png_file.alphas
      /\ p.bit_depth = ReadDepth /\ p.bytes_per_channel = (IF ReadDepth = 16 THEN 2 ELSE 1)
  <2> DEFINE size == RowSize(png_file.w, ReadChannels, ReadDepth) * png_file.h
             bytes == IF ReadDepth = 16 THEN 2 ELSE 1
             records == png_file.records /\ ~FALSE
  <2>1. LoadedImage =
          [ width |-> png_file.w, height |-> png_file.h, channels |-> ReadChannels,
            bytes_per_channel |-> bytes, bit_depth |-> DepthKept, size |-> size,
            palette |-> png_file.entries, palette_alpha |-> png_file.alphas,
            metadata |-> png_file.records ]
    BY DEF LoadedImage
  <2>2. p = [LoadedImage EXCEPT !.bit_depth = ReadDepth, !.bytes_per_channel = bytes,
                                !.metadata = LoadedImage.metadata /\ ~FALSE]
    BY <1>5 DEF Decoded
  <2> HIDE DEF size, bytes, p
  <2> QED
    BY <2>1, <2>2 DEF size, bytes
<1>7. p.metadata = png_file.records
  <2>1. LoadedImage.metadata = png_file.records /\ "metadata" \in DOMAIN LoadedImage
    BY DEF LoadedImage
  <2>2. p.metadata = (LoadedImage.metadata /\ ~FALSE)
    BY <2>1 DEF Decoded
  <2> QED
    BY <1>1, <2>1, <2>2
<1> HIDE DEF p
<1>8. DepthOf(p) = ReadDepth
  BY <1>4, <1>6 DEF DepthOf
<1>9. /\ RowSize(png_file.w, ReadChannels, ReadDepth) * png_file.h \in Nat
      /\ RowSize(png_file.w, ReadChannels, ReadDepth) * png_file.h > 0
  BY <1>3, RowsHaveBytes
<1>10. RowSize(p.width, p.channels, DepthOf(p)) # 0
  <2>1. 0 * png_file.h = 0
    BY <1>1
  <2> QED
    BY <1>6, <1>8, <1>9, <2>1
<1>11. Savable(p)
  <2>1. CASE Indexed
    <3>1. png_file.entries <= 2^png_file.depth /\ png_file.alphas <= png_file.entries
      BY <1>2, <2>1 DEF IsPicture, Indexed
    <3>2. ReadDepth = png_file.depth
      BY <2>1 DEF ReadDepth, TrnsToAlpha
    <3>3. p.palette <= 2^DepthOf(p) /\ p.palette_alpha <= p.palette
      BY <1>6, <1>8, <3>1, <3>2
    <3> QED
      BY <1>3, <1>4, <1>6, <1>8, <2>1, <3>3 DEF Savable, PaletteAddressable
  <2>2. CASE ~Indexed
    BY <1>3, <1>4, <1>6, <1>8, <2>2 DEF Savable
  <2> QED
    BY <2>1, <2>2
<1>12. p # NoImage
  <2>1. NoImage.width = 0
    BY DEF NoImage
  <2> QED
    BY <1>1, <1>6, <2>1
<1>13. [PngOf(p) EXCEPT !.records = png_file.records] = SameStill(png_file)
  <2> DEFINE f == png_file
  <2>1. f.trns => f.colour \in {"gray", "rgb"}
    BY <1>2 DEF IsPicture
  <2>2. ReadDepth = IF f.trns /\ f.colour = "gray" /\ f.depth < 8 THEN 8 ELSE f.depth
    BY <1>1, <1>2, <2>1 DEF ReadDepth, TrnsToAlpha, Indexed, IsPicture
  <2>3. (IF p.palette > 0 THEN "palette"
         ELSE <<"gray", "gray_alpha", "rgb", "rgb_alpha">>[p.channels])
        = IF f.trns /\ f.colour = "gray" THEN "gray_alpha"
          ELSE IF f.trns /\ f.colour = "rgb" THEN "rgb_alpha" ELSE f.colour
    <3>1. CASE Indexed
      BY <1>3, <1>6, <2>1, <3>1 DEF Indexed
    <3>2. CASE ~Indexed
      <4>1. p.palette = 0
        BY <1>3, <1>6, <3>2
      <4>2. ReadChannels = FileChannels + (IF f.trns THEN 1 ELSE 0)
        BY <3>2 DEF ReadChannels, TrnsToAlpha
      <4>3. FileChannels = CASE f.colour = "gray" -> 1 [] f.colour = "gray_alpha" -> 2
                             [] f.colour = "rgb" -> 3 [] OTHER -> 4
        BY <3>2 DEF FileChannels, Indexed
      <4>4. CASE f.trns
        BY <1>6, <2>1, <4>1, <4>2, <4>3, <4>4
      <4>5. CASE ~f.trns
        BY <1>1, <1>6, <3>2, <4>1, <4>2, <4>3, <4>5 DEF Indexed
      <4> QED
        BY <4>4, <4>5
    <3> QED
      BY <3>1, <3>2
  <2> DEFINE colour == IF f.trns /\ f.colour = "gray" THEN "gray_alpha"
                       ELSE IF f.trns /\ f.colour = "rgb" THEN "rgb_alpha" ELSE f.colour
             depth == IF f.trns /\ f.colour = "gray" /\ f.depth < 8 THEN 8 ELSE f.depth
  <2>4. PngOf(p) = [ w |-> f.w, h |-> f.h, depth |-> depth, colour |-> colour,
                     entries |-> f.entries, alphas |-> f.alphas, records |-> p.metadata ]
    BY <1>6, <1>8, <2>2, <2>3 DEF PngOf
  <2>5. SameStill(f) = [ w |-> f.w, h |-> f.h, colour |-> colour, depth |-> depth,
                         entries |-> f.entries, alphas |-> f.alphas, records |-> f.records ]
    BY DEF SameStill
  <2> HIDE DEF colour, depth
  <2> QED
    BY <2>4, <2>5
<1>14. p.size = RowSize(p.width, p.channels, DepthOf(p)) * p.height /\ p.size \in Nat
  BY <1>6, <1>8, <1>9
<1>15. p.width > 0 /\ p.height > 0
  BY <1>1, <1>6
<1> QED
  BY <1>7, <1>10, <1>11, <1>12, <1>13, <1>14, <1>15, Zenon DEF p

\* A failure is not forgotten.
LEMMA ShortStays ==
  ASSUME LoadPng \/ SavePng, png_short \in BOOLEAN
  PROVE  png_short' \in BOOLEAN /\ (png_short => png_short')
<1>1. CASE ReadHeader
  <2>1. PICK oom \in BOOLEAN : png_short' = (png_short \/ oom)
    BY <1>1, PngAssumption DEF ReadHeader, PngAssumption
  <2> QED
    BY <2>1
<1>2. CASE Inject
  <2>1. PICK oom \in BOOLEAN : png_short' = (png_short \/ oom)
    BY <1>2, PngAssumption DEF Inject, PngAssumption
  <2> QED
    BY <2>1
<1>3. CASE LoadPng /\ ~ReadHeader
  <2>1. png_short' = TRUE \/ UNCHANGED png_short
    BY <1>3 DEF LoadPng, Slurp, CheckSignature, CreateRead, LoadPalette, LoadAlpha, ReadLayout,
                AllocateImage, ReadImage, TakeBlock
  <2> QED
    BY <2>1
<1>4. CASE SavePng /\ ~Inject
  <2>1. png_short' = TRUE \/ UNCHANGED png_short
    BY <1>4 DEF SavePng, CheckImage, CreateWrite, BeginFile, RowTable, WriteImageFails,
                WriteImage, SpitFile, TakeBlock
  <2> QED
    BY <2>1
<1> QED
  BY <1>1, <1>2, <1>3, <1>4

\* pxl_save_png of the picture that was loaded: whatever can go wrong takes memory or disk.
LEMMA SaveKeepsWell ==
  ASSUME SaveInOrder, SaveGoesWell, SavePng, png_file \in PngFiles, png_file.breaks = "never",
         png_short \in BOOLEAN, ~png_short', unflushed \in BOOLEAN
  PROVE  SaveGoesWell'
<1>1. UNCHANGED <<png_file, pimg>>
  BY DEF SavePng, CheckImage, CreateWrite, BeginFile, RowTable, WriteImageFails, WriteImage,
         Inject, SpitFile, SaveFrameVars
<1>2. pimg = Decoded(LoadedImage, FALSE)
  BY DEF SaveGoesWell
<1>3. pimg' = Decoded(LoadedImage', FALSE)
  <2>1. LoadedImage' = LoadedImage
    BY <1>1, FileStays
  <2> QED
    BY <1>1, <1>2, <2>1
<1>4. pimg' = Decoded(LoadedImage, FALSE)'
  BY <1>3 DEF Decoded, DepthOf
<1> DEFINE stride == RowSize(pimg.width, pimg.channels, DepthOf(pimg))
<1>5. /\ Savable(pimg) /\ pimg # NoImage /\ pimg.width > 0 /\ pimg.height > 0
      /\ stride # 0 /\ pimg.size = stride * pimg.height /\ pimg.size \in Nat
      /\ pimg.metadata = png_file.records
      /\ [PngOf(pimg) EXCEPT !.records = png_file.records] = SameStill(png_file)
  BY <1>2, PicturesSave
<1> HIDE DEF stride
<1>6. ~png_short
  BY ShortStays
<1>7. png_at' \notin {"spit", "saved"} => SaveGoesWell'
  BY <1>4 DEF SaveGoesWell
<1>8. CASE CheckImage
  BY <1>5, <1>7, <1>8 DEF CheckImage
<1>9. CASE CreateWrite
  BY <1>7, <1>9 DEF CreateWrite, TakeBlock
<1>10. CASE BeginFile
  <2>1. ~(pimg.width = 0 \/ pimg.height = 0)
    BY <1>5
  <2> QED
    BY <1>7, <1>10, <2>1 DEF BeginFile, TakeBlock
<1>11. CASE RowTable
  <2>1. ~(stride = 0 \/ pimg.size < stride * pimg.height)
    BY <1>5
  <2> QED
    BY <1>7, <1>11, <2>1 DEF RowTable, TakeBlock, stride
<1>12. CASE WriteImageFails
  BY <1>12 DEF WriteImageFails
<1>13. CASE WriteImage
  BY <1>7, <1>13 DEF WriteImage
<1>14. CASE Inject
  <2>1. PICK oom \in BOOLEAN :
          /\ png_heap' = png_heap \cup (IF pimg.metadata /\ ~oom THEN {"merged"} ELSE {})
          /\ png_short' = (png_short \/ oom)
    BY <1>14, PngAssumption DEF Inject, PngAssumption
  <2>2. ~oom
    BY <2>1
  <2>3. png_at = "inject" /\ png_at' = "spit"
    BY <1>14 DEF Inject
  <2>4. "merged" \notin png_heap
    BY <2>3 DEF SaveInOrder, SaveHolds
  <2>5. "merged" \in png_heap' <=> pimg.metadata
    BY <2>1, <2>2, <2>4
  <2> QED
    BY <1>1, <1>4, <2>3, <2>5 DEF SaveGoesWell
<1>15. CASE SpitFile
  <2>1. png_at = "spit" /\ png_at' = "saved"
    BY <1>15 DEF SpitFile, Spit, SaveFails, SaveReturns
  <2>2. "merged" \in png_heap <=> png_file.records
    BY <1>5, <2>1 DEF SaveGoesWell
  <2>3. unflushed' \/ Spit("whole", TRUE)
    BY <1>15 DEF SpitFile
  <2>4. ASSUME Spit("whole", TRUE) PROVE png_ok' /\ png_disk'.png = SameStill(png_file)
    <3>1. /\ png_ok' = TRUE
          /\ png_disk'.png = [PngOf(pimg) EXCEPT !.records = "merged" \in png_heap]
      BY <2>4 DEF Spit, SaveReturns
    <3>2. ("merged" \in png_heap) = png_file.records
      <4>1. png_file.records \in BOOLEAN
        BY PngAssumption DEF PngAssumption
      <4> QED
        BY <2>2, <4>1
    <3> QED
      BY <1>5, <3>1, <3>2
  <2>5. SameStill(png_file)' = SameStill(png_file)
    BY <1>1, FileStays
  <2> QED
    BY <1>4, <2>1, <2>3, <2>4, <2>5 DEF SaveGoesWell
<1> QED
  BY <1>8, <1>9, <1>10, <1>11, <1>12, <1>13, <1>14, <1>15, Zenon DEF SavePng

LEMMA InitRoundTrip ==
  ToolInit => RoundTripInv
<1> SUFFICES ASSUME ToolInit PROVE RoundTripInv
  OBVIOUS
<1>1. exit = -1 /\ ours = FALSE /\ png_short = FALSE /\ unflushed = FALSE
      /\ tool_at = "input" /\ (cmd = "c" => png_at = "load")
  BY DEF ToolInit
<1>2. cmd = "c" => LoadGoesWell
  BY <1>1 DEF LoadGoesWell, LoadedSoFar, BeforeHeader
<1>3. PngComesBack
  BY <1>1 DEF PngComesBack
<1> QED
  BY <1>1, <1>2, <1>3 DEF RoundTripInv

\* While a command runs it has told nothing.
LEMMA RunningTellsNothing ==
  ASSUME exit' = -1
  PROVE  PngComesBack'
BY DEF PngComesBack

LEMMA LoadStageGoesWell ==
  ASSUME ToolInv, RoundTripInv, LoadStage
  PROVE  RoundTripInv'
<1>1. cmd = "c" /\ tool_at = "input" /\ exit = -1 /\ LoadPng /\ png_file \in PngFiles
      /\ UNCHANGED <<cmd, tool_at, exit, pxl_disk, ours>>
  BY DEF LoadStage, stageVars, ToolInv
<1>2. UNCHANGED <<png_file, unflushed>>
  BY <1>1
  DEF LoadPng, Slurp, CheckSignature, CreateRead, ReadHeader, LoadPalette, LoadAlpha,
      ReadLayout, AllocateImage, ReadImage, LoadFrameVars
<1>3. LoadGoesWell'
  BY <1>1, LoadKeepsWell DEF ToolInv, RoundTripInv
<1>4. png_short' \in BOOLEAN /\ (png_short => png_short')
  BY <1>1, ShortStays DEF RoundTripInv
<1>5. LoadedImage' = LoadedImage
  BY <1>2, FileStays
<1> QED
  BY <1>1, <1>2, <1>3, <1>4, <1>5, RunningTellsNothing DEF RoundTripInv

LEMMA LoadedGoesWell ==
  ASSUME ToolInv, RoundTripInv, Loaded
  PROVE  RoundTripInv'
<1>1. /\ tool_at = "input" /\ cmd = "c" /\ exit = -1 /\ LoadGoesWell
      /\ UNCHANGED <<png_file, pimg, png_short, png_disk, png_ok, unflushed, cmd, pxl_disk, ours>>
  BY DEF Loaded, ToolInv, RoundTripInv
<1>2. LoadedImage' = LoadedImage
  BY <1>1, FileStays
<1>3. CASE png_at = "not_loaded" /\ exit' = 1 /\ tool_at' = "exit"
  <2>1. png_file.breaks = "never" => png_short
    BY <1>1, <1>3 DEF LoadGoesWell
  <2>2. PngComesBack'
    BY <1>1, <1>3, <2>1 DEF PngComesBack
  <2> QED
    BY <1>1, <1>2, <1>3, <2>2 DEF RoundTripInv
<1>4. CASE png_at = "loaded" /\ tool_at' = "encode" /\ exit' = exit
  <2>1. png_file.breaks \in {"signature", "header", "image", "never"}
    BY PngAssumption DEF PngAssumption, ToolInv
  <2>2. png_file.breaks = "never" /\ (~png_short => pimg = LoadedImage)
    BY <1>1, <1>4, <2>1 DEF LoadGoesWell, LoadedSoFar, BeforeHeader
  <2> QED
    BY <1>1, <1>2, <1>4, <2>2, RunningTellsNothing DEF RoundTripInv
<1> QED
  BY <1>3, <1>4 DEF Loaded, Return

LEMMA AnimsGoWell ==
  ASSUME ToolInv, RoundTripInv, LoadAnim \/ SaveAnim
  PROVE  RoundTripInv'
<1>1. /\ cmd \in {"ca", "da"} /\ ~ours
      /\ UNCHANGED <<png_file, pimg, png_short, png_disk, png_ok, unflushed, cmd, pxl_disk, ours>>
  BY DEF LoadAnim, SaveAnim, RoundTripInv
<1> QED
  BY <1>1 DEF RoundTripInv, PngComesBack

LEMMA EncodeStageGoesWell ==
  ASSUME ToolInv, RoundTripInv, EncodeStage
  PROVE  RoundTripInv'
<1>1. /\ tool_at = "encode" /\ cmd \in {"c", "ca"} /\ exit = -1
      /\ UNCHANGED <<png_file, pimg, png_disk, png_ok, unflushed, cmd, pxl_disk, ours>>
  BY DEF EncodeStage, ToolInv
<1>2. LoadedImage' = LoadedImage
  BY <1>1, FileStays
<1>3. CASE exit' = 1 /\ tool_at' = "exit" /\ png_short' = TRUE
  BY <1>1, <1>3 DEF RoundTripInv, PngComesBack
<1>4. CASE tool_at' = "write" /\ UNCHANGED <<exit, png_short>>
  BY <1>1, <1>2, <1>4, RunningTellsNothing DEF RoundTripInv
<1> QED
  BY <1>3, <1>4 DEF EncodeStage, Return

LEMMA WriteFileGoesWell ==
  ASSUME ToolInv, RoundTripInv, WriteFile
  PROVE  RoundTripInv'
<1>1. /\ tool_at = "write" /\ cmd \in {"c", "ca"} /\ tool_at' = "exit" /\ ours' = (cmd = "c")
      /\ UNCHANGED <<png_file, pimg, png_disk, png_ok, cmd>>
  BY DEF WriteFile, WriteFails, Return, ToolInv
<1>2. LoadedImage' = LoadedImage
  BY <1>1, FileStays
<1>3. cmd = "c" => png_file.breaks = "never" /\ (~png_short => pimg = LoadedImage)
  BY <1>1 DEF RoundTripInv
<1>4. /\ png_short' \in BOOLEAN /\ unflushed' \in BOOLEAN
      /\ exit' = 1 => png_short'
      /\ ~png_short' => /\ ~png_short /\ pxl_disk'.img = pimg
                        /\ pxl_disk'.state = "whole" \/ unflushed'
  <2>1. png_short \in BOOLEAN /\ unflushed \in BOOLEAN
    BY DEF RoundTripInv
  <2>2. \/ png_short' = TRUE /\ (unflushed' = unflushed \/ unflushed' = TRUE)
        \/ /\ exit' = 0 /\ pxl_disk' = [state |-> "whole", img |-> pimg]
           /\ UNCHANGED <<unflushed, png_short>>
        \/ /\ exit' = 0 /\ pxl_disk' = [state |-> "part", img |-> pimg]
           /\ unflushed' = TRUE /\ UNCHANGED png_short
    BY DEF WriteFile, WriteFails, Return
  <2>3. CASE png_short' = TRUE /\ (unflushed' = unflushed \/ unflushed' = TRUE)
    BY <2>1, <2>3
  <2>4. CASE /\ exit' = 0 /\ pxl_disk' = [state |-> "whole", img |-> pimg]
             /\ UNCHANGED <<unflushed, png_short>>
    BY <2>1, <2>4
  <2>5. CASE /\ exit' = 0 /\ pxl_disk' = [state |-> "part", img |-> pimg]
             /\ unflushed' = TRUE /\ UNCHANGED png_short
    BY <2>1, <2>5
  <2> QED
    BY <2>2, <2>3, <2>4, <2>5
<1>5. PngComesBack'
  BY <1>1, <1>4 DEF PngComesBack
<1> QED
  BY <1>1, <1>2, <1>3, <1>4, <1>5 DEF RoundTripInv

LEMMA DecompressGoesWell ==
  ASSUME ToolInv, RoundTripInv, Decompress
  PROVE  RoundTripInv'
<1>1. /\ cmd \in {"c", "ca"} /\ cmd' = (IF cmd = "c" THEN "d" ELSE "da")
      /\ tool_at' = "input" /\ exit' = -1
      /\ UNCHANGED <<png_file, png_short, unflushed, pxl_disk, ours>>
  BY DEF Decompress
<1>2. LoadedImage' = LoadedImage
  BY <1>1, FileStays
<1> QED
  BY <1>1, <1>2, RunningTellsNothing DEF RoundTripInv

LEMMA ReadStageGoesWell ==
  ASSUME ToolInv, RoundTripInv, ReadStage
  PROVE  RoundTripInv'
<1>1. /\ cmd \in {"d", "da"} /\ tool_at = "input" /\ exit = -1
      /\ UNCHANGED <<png_file, pimg, png_disk, png_ok, unflushed, cmd, pxl_disk, ours>>
  BY DEF ReadStage, ToolInv
<1>2. LoadedImage' = LoadedImage
  BY <1>1, FileStays
<1>3. CASE exit' = 1 /\ tool_at' = "exit" /\ png_short' = TRUE
  BY <1>1, <1>3 DEF RoundTripInv, PngComesBack
<1>4. CASE tool_at' = "decode" /\ UNCHANGED <<exit, png_short>>
  BY <1>1, <1>2, <1>4, RunningTellsNothing DEF RoundTripInv
<1> QED
  BY <1>3, <1>4 DEF ReadStage, Return

LEMMA DecodeStageGoesWell ==
  ASSUME ToolInv, RoundTripInv, DecodeStage
  PROVE  RoundTripInv'
<1>1. /\ cmd \in {"d", "da"} /\ tool_at = "decode" /\ exit = -1
      /\ UNCHANGED <<png_file, png_disk, png_ok, unflushed, cmd, pxl_disk, ours>>
  BY DEF DecodeStage, ToolInv
<1>2. LoadedImage' = LoadedImage
  BY <1>1, FileStays
<1>3. png_short \in BOOLEAN /\ ours \in BOOLEAN
      /\ (ours /\ ~png_short => pxl_disk.img = LoadedImage
                                 /\ (pxl_disk.state = "whole" \/ unflushed))
  BY DEF RoundTripInv
<1>4. CASE exit' = 1 /\ tool_at' = "exit" /\ png_short' = (png_short \/ pxl_disk.state = "whole")
  <2>1. PngComesBack'
    BY <1>1, <1>3, <1>4 DEF PngComesBack
  <2> QED
    BY <1>1, <1>2, <1>3, <1>4, <2>1 DEF RoundTripInv
<1>5. CASE /\ \E oom \in MemoryFails :
                /\ pimg' = IF Anim THEN NoImage ELSE Decoded(pxl_disk.img, oom)
                /\ png_short' = (png_short \/ oom)
           /\ tool_at' = "save" /\ png_at' = (IF Anim THEN "idle" ELSE "save")
           /\ UNCHANGED exit
  <2>1. PICK oom \in BOOLEAN :
          /\ pimg' = IF Anim THEN NoImage ELSE Decoded(pxl_disk.img, oom)
          /\ png_short' = (png_short \/ oom)
    BY <1>5, PngAssumption DEF PngAssumption
  <2>2. ASSUME cmd = "d", ours, ~png_short' PROVE SaveGoesWell'
    <3>1. oom = FALSE /\ ~png_short /\ ~Anim
      BY <1>3, <2>1, <2>2 DEF Anim
    <3>2. pimg' = Decoded(LoadedImage, FALSE) /\ png_at' = "save"
      BY <1>3, <1>5, <2>1, <2>2, <3>1
    <3>3. Decoded(LoadedImage, FALSE)' = Decoded(LoadedImage, FALSE)
      BY <1>2 DEF Decoded, DepthOf
    <3> QED
      BY <3>2, <3>3 DEF SaveGoesWell
  <2>3. png_short' \in BOOLEAN /\ (png_short => png_short')
    BY <1>3, <2>1
  <2> QED
    BY <1>1, <1>2, <1>3, <1>5, <2>2, <2>3, RunningTellsNothing DEF RoundTripInv
<1> QED
  BY <1>4, <1>5 DEF DecodeStage, Return

LEMMA SaveStageGoesWell ==
  ASSUME ToolInv, RoundTripInv, SaveStage
  PROVE  RoundTripInv'
<1>1. cmd = "d" /\ tool_at = "save" /\ exit = -1 /\ SavePng /\ SaveInOrder
      /\ png_ok \in BOOLEAN /\ png_file \in PngFiles
      /\ UNCHANGED <<cmd, tool_at, exit, pxl_disk, ours>>
  BY DEF SaveStage, stageVars, ToolInv
<1>2. UNCHANGED png_file
  BY <1>1, SaveKeepsOrder
<1>3. LoadedImage' = LoadedImage
  BY <1>2, FileStays
<1>4. png_short' \in BOOLEAN /\ (png_short => png_short')
  BY <1>1, ShortStays DEF RoundTripInv
<1>5. unflushed' \in BOOLEAN /\ (unflushed => unflushed')
  <2>1. CASE SpitFile
    <3>1. unflushed' = unflushed \/ unflushed' = TRUE
      BY <2>1 DEF SpitFile, SaveFails
    <3> QED
      BY <3>1 DEF RoundTripInv
  <2>2. CASE ~SpitFile
    <3>1. unflushed' = unflushed
      BY <1>1, <2>2
      DEF SavePng, CheckImage, CreateWrite, BeginFile, RowTable, WriteImageFails, WriteImage,
          Inject, SaveFails
    <3> QED
      BY <3>1 DEF RoundTripInv
  <2> QED
    BY <2>1, <2>2
<1>6. ours /\ ~png_short' => SaveGoesWell'
  BY <1>1, <1>4, SaveKeepsWell DEF RoundTripInv
<1> QED
  BY <1>1, <1>2, <1>3, <1>4, <1>5, <1>6, RunningTellsNothing DEF RoundTripInv

LEMMA SavedStageGoesWell ==
  ASSUME ToolInv, RoundTripInv, SavedStage
  PROVE  RoundTripInv'
<1>1. /\ cmd = "d" /\ tool_at = "save" /\ png_at = "saved" /\ tool_at' = "exit"
      /\ exit' = IF png_ok THEN 0 ELSE 1
      /\ UNCHANGED <<png_at, png_file, pimg, png_short, png_disk, png_ok, unflushed, cmd,
                     pxl_disk, ours>>
  BY DEF SavedStage, Return, Verdict
<1>2. ours /\ ~png_short => unflushed \/ (png_ok /\ png_disk.png = SameStill(png_file))
  BY <1>1 DEF RoundTripInv, SaveGoesWell
<1>3. LoadedImage' = LoadedImage /\ SameStill(png_file)' = SameStill(png_file)
  BY <1>1, FileStays
<1>4. PngComesBack'
  BY <1>1, <1>2, <1>3 DEF PngComesBack
<1> QED
  BY <1>1, <1>3, <1>4 DEF RoundTripInv

LEMMA RoundTripStep ==
  ASSUME ToolInv, RoundTripInv, [ToolNext]_toolVars
  PROVE  RoundTripInv'
<1>1. CASE UNCHANGED toolVars
  <2>1. UNCHANGED <<png_at, png_file, png_heap, pimg, png_short, png_disk, png_ok, unflushed,
                    cmd, tool_at, exit, pxl_disk, ours>>
    BY <1>1 DEF toolVars, pngVars
  <2>2. /\ LoadedImage' = LoadedImage /\ DepthKept' = DepthKept
        /\ SameStill(png_file)' = SameStill(png_file)
    BY <2>1, FileStays
  <2>3. LoadedSoFar' = LoadedSoFar
    BY <2>1, <2>2 DEF LoadedSoFar, ImageSoFar
  <2>4. LoadGoesWell' = LoadGoesWell
    BY <2>1, <2>3 DEF LoadGoesWell
  <2>5. Decoded(LoadedImage, FALSE)' = Decoded(LoadedImage, FALSE)
    BY <2>2 DEF Decoded, DepthOf
  <2>6. SaveGoesWell' = SaveGoesWell
    BY <2>1, <2>2, <2>5 DEF SaveGoesWell
  <2>7. PngComesBack' = PngComesBack
    BY <2>1, <2>2 DEF PngComesBack
  <2> QED
    BY <2>1, <2>2, <2>4, <2>6, <2>7 DEF RoundTripInv
<1> QED
  BY <1>1, LoadStageGoesWell, LoadedGoesWell, AnimsGoWell, EncodeStageGoesWell,
     WriteFileGoesWell, DecompressGoesWell, ReadStageGoesWell, DecodeStageGoesWell,
     SaveStageGoesWell, SavedStageGoesWell, Zenon DEF ToolNext

\* A PNG that pxltool compresses and decompresses comes back as it was, up to its
\* transparent colour, and neither command fails on it but for want of memory or disk: of
\* every type, depth, palette and transparency, and whatever fails on the way.
THEOREM PngsComeBack == ToolSpec => []PngComesBack
<1>1. RoundTripInv => PngComesBack
  BY DEF RoundTripInv
<1> QED
  BY <1>1, InitTool, ToolStepKeeps, InitRoundTrip, RoundTripStep, PTL DEF ToolSpec
==============================================================================
