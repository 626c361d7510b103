--------------------------------- MODULE GifProofs ---------------------------
(***************************************************************************)
(* gif.c, for any file and any image. deinterlace writes every row once,   *)
(* where GIF's order has it; gif_lzw_decode keeps its chains descending    *)
(* and its code width in step with its table, and is LZW on strings, step  *)
(* by step; no row is copied that was not decoded. Image k of a file is    *)
(* drawn under the control extension that belongs to it, the k-th snapshot *)
(* shows the layers of the first k images, and the verdict is the one the  *)
(* blocks deserve.                                                         *)
(***************************************************************************)
EXTENDS GifImage, GifLoad, CountingProofs, TLAPS

------------------------------------------------------------------------------
(* The blocks of a file that grows by one.                                   *)

LEMMA PositionsAre ==
  ASSUME file \in Seq(FileBlocks), NEW K
  PROVE  /\ Positions(K) \subseteq 1..Len(file) /\ Positions(K) \in SUBSET Nat
         /\ IsFiniteSet(Positions(K)) /\ Cardinality(Positions(K)) \in Nat
<1>1. Positions(K) \subseteq 1..Len(file) /\ Len(file) \in Nat
  BY DEF Positions
<1>2. IsFiniteSet(1..Len(file)) /\ 1..Len(file) \subseteq Nat
  BY <1>1, FS_Interval
<1>3. IsFiniteSet(Positions(K)) /\ Positions(K) \in SUBSET Nat
  BY <1>1, <1>2, FS_Subset
<1> QED
  BY <1>1, <1>3, FS_CardinalityType

LEMMA FileGrows ==
  ASSUME file \in Seq(FileBlocks), NEW b \in FileBlocks, file' = Append(file, b)
  PROVE  /\ file' \in Seq(FileBlocks) /\ Len(file') = Len(file) + 1
         /\ file'[Len(file) + 1] = b
         /\ \A n \in 1..Len(file) : file'[n] = file[n]
OBVIOUS

LEMMA PositionsGrow ==
  ASSUME file \in Seq(FileBlocks), NEW b \in FileBlocks, file' = Append(file, b), NEW K
  PROVE  Positions(K)' = IF b.kind \in K THEN Positions(K) \cup {Len(file) + 1}
                                         ELSE Positions(K)
<1>1. /\ Len(file') = Len(file) + 1 /\ Len(file) \in Nat
      /\ file'[Len(file) + 1] = b
      /\ \A n \in 1..Len(file) : file'[n] = file[n]
  OBVIOUS
<1>2. Positions(K)' = { n \in 1..Len(file') : file'[n].kind \in K }
  BY DEF Positions
<1> HIDE DEF Positions
<1>3. ASSUME NEW n
      PROVE  n \in Positions(K)' <=>
               \/ n \in Positions(K)
               \/ b.kind \in K /\ n = Len(file) + 1
  BY <1>1, <1>2 DEF Positions
<1> QED
  BY <1>3

LEMMA ImageAtGrows ==
  ASSUME file \in Seq(FileBlocks), NEW b \in FileBlocks, file' = Append(file, b)
  PROVE  /\ \A k \in 1..Cardinality(Positions({"image"})) : ImageAt(k)' = ImageAt(k)
         /\ b.kind = "image" =>
              /\ Cardinality(Positions({"image"}))' = Cardinality(Positions({"image"})) + 1
              /\ \A k : k = Cardinality(Positions({"image"})) + 1
                        => ImageAt(k)' = Len(file) + 1
<1> DEFINE S == Positions({"image"})
           e == Len(file) + 1
<1>1. S' = IF b.kind = "image" THEN S \cup {e} ELSE S
  BY PositionsGrow
<1>2. S \in SUBSET Nat /\ IsFiniteSet(S) /\ e \in Nat /\ \A s \in S : s < e
  <2>1. S \subseteq 1..Len(file) /\ S \in SUBSET Nat /\ IsFiniteSet(S) /\ Len(file) \in Nat
    BY PositionsAre
  <2> HIDE DEF S
  <2> QED
    BY <2>1
<1>3. /\ Cardinality(S \cup {e}) = Cardinality(S) + 1
      /\ Nth(S \cup {e}, Cardinality(S) + 1) = e
      /\ \A n \in 1..Cardinality(S) : Nth(S \cup {e}, n) = Nth(S, n)
  BY <1>2, NthGrown
<1>4. \A k : ImageAt(k) = Nth(S, k) /\ ImageAt(k)' = Nth(S', k)
  BY DEF ImageAt
<1> HIDE DEF S, e
<1>5. CASE b.kind = "image"
  <2>1. S' = S \cup {e}
    BY <1>1, <1>5
  <2>2. \A k \in 1..Cardinality(S) : ImageAt(k)' = ImageAt(k)
    BY <1>3, <1>4, <2>1, Zenon
  <2>3. Cardinality(S)' = Cardinality(S) + 1
    BY <1>3, <2>1
  <2>4. ASSUME NEW k, k = Cardinality(S) + 1 PROVE ImageAt(k)' = e
    BY <1>3, <1>4, <2>1, <2>4
  <2> QED
    BY <2>2, <2>3, <2>4 DEF S, e
<1>6. CASE b.kind # "image"
  <2>1. S' = S
    BY <1>1, <1>6
  <2>2. \A k \in 1..Cardinality(S) : ImageAt(k)' = ImageAt(k)
    BY <1>4, <2>1, Zenon
  <2> QED
    BY <1>6, <2>2 DEF S
<1> QED
  BY <1>5, <1>6

\* The control extensions that may belong to an image at n.
Found(n) == { m \in Positions({"gce"}) :
                m < n /\ Positions({"gce", "image"}) \cap ((m + 1)..(n - 1)) = {} }

LEMMA GceAtIs ==
  \A n : GceAt(n) = IF Found(n) = {} THEN NoGce
                                    ELSE file[CHOOSE m \in Found(n) : TRUE]
BY DEF GceAt, Found

\* What was found for an image up to the end of the file is still found.
LEMMA FoundGrows ==
  ASSUME file \in Seq(FileBlocks), NEW b \in FileBlocks, file' = Append(file, b),
         NEW n \in 1..(Len(file) + 1)
  PROVE  Found(n)' = Found(n) /\ Found(n) \subseteq 1..Len(file)
<1> DEFINE G == Positions({"gce"})
           A == Positions({"gce", "image"})
<1>1. /\ G \subseteq 1..Len(file) /\ Len(file) \in Nat
      /\ G' = G \/ G' = G \cup {Len(file) + 1}
      /\ A' = A \/ A' = A \cup {Len(file) + 1}
  BY PositionsAre, PositionsGrow
<1>2. /\ Found(n) = { m \in G : m < n /\ A \cap ((m + 1)..(n - 1)) = {} }
      /\ Found(n)' = { m \in G' : m < n /\ A' \cap ((m + 1)..(n - 1)) = {} }
  BY DEF Found
<1> HIDE DEF G, A
<1>3. ASSUME NEW m \in Nat
      PROVE  A' \cap ((m + 1)..(n - 1)) = A \cap ((m + 1)..(n - 1))
  <2>1. Len(file) + 1 \notin (m + 1)..(n - 1)
    BY <1>1
  <2> QED
    BY <1>1, <2>1
<1>4. ASSUME NEW m
      PROVE  m \in G' /\ m < n <=> m \in G /\ m < n
  BY <1>1
<1>5. \A m \in G : m \in Nat
  BY <1>1
<1>6. ASSUME NEW m
      PROVE  m \in Found(n)' <=> m \in Found(n)
  BY <1>2, <1>3, <1>4, <1>5
<1> QED
  BY <1>1, <1>2, <1>6

LEMMA GceAtGrows ==
  ASSUME file \in Seq(FileBlocks), NEW b \in FileBlocks, file' = Append(file, b),
         NEW n \in 1..(Len(file) + 1)
  PROVE  GceAt(n)' = GceAt(n)
<1> DEFINE j == CHOOSE m \in Found(n) : TRUE
<1>1. Found(n)' = Found(n) /\ Found(n) \subseteq 1..Len(file)
  BY FoundGrows
<1>2. GceAt(n) = IF Found(n) = {} THEN NoGce ELSE file[j]
  BY GceAtIs
<1>3. GceAt(n)' = IF Found(n)' = {} THEN NoGce ELSE file'[j']
  BY DEF GceAt, Found
<1>4. j' = CHOOSE m \in Found(n)' : TRUE
  OBVIOUS
<1>5. j' = j
  BY <1>1, <1>4
<1>6. Found(n) # {} => j \in Found(n)
  OBVIOUS
<1> HIDE DEF j
<1>7. j \in 1..Len(file) => file'[j] = file[j]
  BY FileGrows
<1>8. GceAt(n)' = IF Found(n) = {} THEN NoGce ELSE file'[j]
  BY <1>1, <1>3, <1>5
<1>9. CASE Found(n) = {}
  BY <1>2, <1>8, <1>9
<1>10. CASE Found(n) # {}
  <2>1. j \in 1..Len(file)
    BY <1>1, <1>6, <1>10
  <2> QED
    BY <1>2, <1>7, <1>8, <1>10, <2>1
<1> QED
  BY <1>9, <1>10

\* After one more block: its own position, if it is a control extension; none, if
\* it is an image; or what was found before.
LEMMA FoundNext ==
  ASSUME file \in Seq(FileBlocks), NEW b \in FileBlocks, file' = Append(file, b),
         NEW n, n = Len(file) + 2
  PROVE  Found(n)' = IF b.kind = "gce" THEN {n - 1}
                     ELSE IF b.kind = "image" THEN {} ELSE Found(n - 1)
<1> DEFINE G == Positions({"gce"})
           A == Positions({"gce", "image"})
<1>1. /\ G \subseteq 1..Len(file) /\ A \subseteq 1..Len(file) /\ Len(file) \in Nat
      /\ G' = IF b.kind = "gce" THEN G \cup {Len(file) + 1} ELSE G
      /\ A' = IF b.kind \in {"gce", "image"} THEN A \cup {Len(file) + 1} ELSE A
  <2>1. G' = IF b.kind \in {"gce"} THEN G \cup {Len(file) + 1} ELSE G
    BY PositionsGrow
  <2>2. A' = IF b.kind \in {"gce", "image"} THEN A \cup {Len(file) + 1} ELSE A
    BY PositionsGrow
  <2>3. G \subseteq 1..Len(file) /\ A \subseteq 1..Len(file) /\ Len(file) \in Nat
    BY PositionsAre
  <2> HIDE DEF G, A
  <2> QED
    BY <2>1, <2>2, <2>3
<1>2. /\ Found(n - 1) = { m \in G : m < n - 1 /\ A \cap ((m + 1)..(n - 1 - 1)) = {} }
      /\ Found(n)' = { m \in G' : m < n /\ A' \cap ((m + 1)..(n - 1)) = {} }
  BY DEF Found
<1> HIDE DEF G, A
<1>3. \A m \in G : m \in 1..Len(file)
  BY <1>1
<1>4. CASE b.kind = "gce"
  <2>1. ASSUME NEW m \in G PROVE Len(file) + 1 \in A' \cap ((m + 1)..(n - 1))
    BY <1>1, <1>3, <1>4
  <2>2. A' \cap ((n - 1 + 1)..(n - 1)) = {}
    BY <1>1
  <2>3. G' = G \cup {n - 1} /\ n - 1 < n /\ n - 1 \notin G
    BY <1>1, <1>4
  <2>4. ASSUME NEW m PROVE m \in Found(n)' <=> m = n - 1
    <3>1. CASE m \in G
      BY <1>2, <2>1, <2>3, <3>1
    <3>2. CASE m \notin G
      BY <1>2, <2>2, <2>3, <3>2
    <3> QED
      BY <3>1, <3>2
  <2>5. Found(n)' = {n - 1}
    BY <2>4
  <2> QED
    BY <1>4, <2>5
<1>5. CASE b.kind = "image"
  <2>1. ASSUME NEW m \in G' PROVE Len(file) + 1 \in A' \cap ((m + 1)..(n - 1))
    BY <1>1, <1>3, <1>5
  <2>2. Found(n)' = {}
    BY <1>2, <2>1
  <2> QED
    BY <1>5, <2>2
<1>6. CASE b.kind \notin {"gce", "image"}
  <2>1. G' = G /\ A' = A
    BY <1>1, <1>6
  <2>2. ASSUME NEW m \in G
        PROVE  /\ m < n /\ m < n - 1
               /\ A \cap ((m + 1)..(n - 1)) = A \cap ((m + 1)..(n - 1 - 1))
    BY <1>1, <1>3
  <2>3. Found(n)' = Found(n - 1)
    BY <1>2, <2>1, <2>2
  <2> QED
    BY <1>6, <2>3
<1> QED
  BY <1>4, <1>5, <1>6

LEMMA NextIs == \A m : m = Len(file) + 1 => GceAt(Len(file) + 1) = GceAt(m)
OBVIOUS

\* The control extension that the next image would have, after one more block.
LEMMA GceAtNext ==
  ASSUME file \in Seq(FileBlocks), NEW b \in FileBlocks, file' = Append(file, b)
  PROVE  GceAt(Len(file) + 1)' =
           IF b.kind = "gce" THEN b
           ELSE IF b.kind = "image" THEN NoGce
           ELSE GceAt(Len(file) + 1)
<1>0. PICK n : n = Len(file) + 2
  OBVIOUS
<1>1. Len(file') + 1 = n /\ Len(file) + 1 = n - 1 /\ n \in Nat /\ Len(file) \in Nat
  BY <1>0
<1>2. GceAt(Len(file) + 1)' =
        IF Found(n)' = {} THEN NoGce ELSE file'[CHOOSE m \in Found(n)' : TRUE]
  <2>1. GceAt(n)' = IF Found(n)' = {} THEN NoGce
                                      ELSE file'[CHOOSE m \in Found(n)' : TRUE]
    BY DEF GceAt, Found
  <2>2. GceAt(Len(file) + 1)' = GceAt(n)'
    <3>1. (\A m : m = Len(file) + 1 => GceAt(Len(file) + 1) = GceAt(m))'
      BY NextIs, PTL
    <3> QED
      BY <1>1, <3>1
  <2> QED
    BY <2>1, <2>2
<1>3. GceAt(Len(file) + 1) =
        IF Found(n - 1) = {} THEN NoGce ELSE file[CHOOSE m \in Found(n - 1) : TRUE]
  BY <1>1, GceAtIs
<1>4. Found(n)' = IF b.kind = "gce" THEN {n - 1}
                  ELSE IF b.kind = "image" THEN {} ELSE Found(n - 1)
  BY <1>0, FoundNext
<1>5. CASE b.kind = "gce"
  <2>1. (CHOOSE m \in {n - 1} : TRUE) = n - 1
    OBVIOUS
  <2> QED
    BY <1>1, <1>2, <1>4, <1>5, <2>1, FileGrows
<1>6. CASE b.kind = "image"
  BY <1>2, <1>4, <1>6
<1>7. CASE b.kind \notin {"gce", "image"}
  <2> DEFINE j == CHOOSE m \in Found(n - 1) : TRUE
  <2>1. Found(n)' = Found(n - 1)
    BY <1>4, <1>7
  <2>2. GceAt(Len(file) + 1)' = IF Found(n - 1) = {} THEN NoGce ELSE file'[j]
    BY <1>2, <2>1
  <2>3. Found(n - 1) # {} => j \in 1..Len(file)
    <3>1. n - 1 \in 1..(Len(file) + 1)
      BY <1>1
    <3>2. Found(n - 1) \subseteq 1..Len(file)
      BY <3>1, FoundGrows
    <3> QED
      BY <3>2
  <2> HIDE DEF j
  <2>4. Found(n - 1) # {} => file'[j] = file[j]
    BY <2>3, FileGrows
  <2> QED
    BY <1>3, <1>7, <2>2, <2>4 DEF j
<1> QED
  BY <1>5, <1>6, <1>7

LEMMA FileStays ==
  ASSUME file' = file
  PROVE  /\ \A K : Positions(K)' = Positions(K)
         /\ \A k : ImageAt(k)' = ImageAt(k)
         /\ \A n : GceAt(n)' = GceAt(n)
         /\ FileLayers' = FileLayers
         /\ FileLoops' = FileLoops /\ Malformed' = Malformed
<1>1. \A K : Positions(K)' = Positions(K)
  BY DEF Positions
<1>2. \A k : ImageAt(k)' = ImageAt(k)
  BY <1>1 DEF ImageAt
<1>3. \A n : GceAt(n)' = GceAt(n)
  <2>1. \A n : Found(n)' = Found(n)
    BY <1>1 DEF Found
  <2>2. \A n : GceAt(n)' = IF Found(n)' = {} THEN NoGce
                              ELSE file'[CHOOSE m \in Found(n)' : TRUE]
    BY DEF GceAt, Found
  <2> QED
    BY <2>1, <2>2, GceAtIs
<1>4. \A n : LayerAt(n)' = LayerAt(n)
  BY <1>3 DEF LayerAt
<1>5. FileLayers' = FileLayers
  BY <1>1, <1>2, <1>4 DEF FileLayers
<1>6. FileLoops' = FileLoops
  BY <1>1 DEF FileLoops, Told
<1>7. Malformed' = Malformed
  BY <1>1 DEF Malformed
<1> QED
  BY <1>1, <1>2, <1>3, <1>5, <1>6, <1>7

------------------------------------------------------------------------------
(* An image and the colours it is drawn with.                                *)

LEMMA TableIsSeq ==
  ASSUME NEW b \in FileBlocks, b.kind = "image"
  PROVE  TableOf(b) \in Seq(Range(TableOf(b)))
BY BlocksAssumption DEF IsBlock, TableOf

\* Every pixel of an image that decodes has an index, and each index a colour.
LEMMA ColourIs ==
  ASSUME NEW b \in FileBlocks, b.kind = "image", ImageOk(b), NEW p \in AreaOf(b)
  PROVE  b.indices[p] \in Nat /\ Colour(b, b.indices[p]) \in Colours
<1> DEFINE t == TableOf(b)
<1>1. b.indices[p] \in Nat
  BY BlocksAssumption DEF IsBlock
<1>2. t \in Seq(Range(t)) /\ t # <<>>
  BY TableIsSeq DEF ImageOk
<1>3. Range(t) \subseteq Colours
  BY DEF Colours
<1> HIDE DEF t
<1>4. Len(t) \in Nat \ {0} /\ \A n \in 1..Len(t) : t[n] \in Range(t)
  BY <1>2, EmptySeq, ElementOfSeq, LenProperties
<1>5. Colour(b, b.indices[p]) = IF b.indices[p] >= Len(t) THEN t[Len(t)]
                                                          ELSE t[b.indices[p] + 1]
  BY DEF Colour, t
<1>6. Colour(b, b.indices[p]) \in Range(t)
  BY <1>1, <1>4, <1>5
<1> QED
  BY <1>1, <1>3, <1>6

\* A canvas that an image is drawn on shows colours that its blocks give.
LEMMA DrawnIs ==
  ASSUME NEW im, im.block \in FileBlocks, im.block.kind = "image", ImageOk(im.block),
         canvas \in [Pixels -> Sights]
  PROVE  /\ Drawn(im) \in [Pixels -> Sights]
         /\ Disposed(im, Drawn(im)) \in [Pixels -> Sights]
<1>1. ASSUME NEW p \in AreaOf(im.block)
      PROVE  <<Colour(im.block, im.block.indices[p])>> \in Sights
  BY ColourIs DEF Sights
<1>2. <<Empty>> \in Sights
  BY DEF Sights
<1>3. Drawn(im) \in [Pixels -> Sights]
  BY <1>1 DEF Drawn
<1>4. Disposed(im, Drawn(im)) \in [Pixels -> Sights]
  BY <1>2, <1>3 DEF Disposed
<1> QED
  BY <1>3, <1>4

\* What an image of a load that goes on is.
LEMMA ImagesAre ==
  ASSUME LoadInv, Reading, NEW k \in 1..Len(images)
  PROVE  /\ images[k].block \in FileBlocks /\ images[k].gce \in Gces
         /\ images[k].block.kind = "image" /\ ImageOk(images[k].block)
         /\ images[k].block = file[ImageAt(k)]
         /\ Meaning(images[k].gce) = Meaning(GceAt(ImageAt(k)))
         /\ k \in 1..Cardinality(Positions({"image"}))
         /\ FileLayers[k] = LayerAt(ImageAt(k))
<1>1. /\ images \in Seq([block : FileBlocks, gce : Gces])
      /\ Len(images) = Cardinality(Positions({"image"}))
      /\ ImageAt(k) \in Positions({"image"})
      /\ images[k].block = file[ImageAt(k)]
      /\ Meaning(images[k].gce) = Meaning(GceAt(ImageAt(k)))
      /\ \A n \in Positions({"image"}) : ImageOk(file[n])
  BY DEF LoadInv, PartsOk, ImagesAreRead
<1>2. images[k] \in [block : FileBlocks, gce : Gces]
  BY <1>1, ElementOfSeq
<1>3. file[ImageAt(k)].kind = "image"
  BY <1>1 DEF Positions
<1>4. FileLayers[k] = LayerAt(ImageAt(k))
  BY <1>1 DEF FileLayers
<1> QED
  BY <1>1, <1>2, <1>3, <1>4

------------------------------------------------------------------------------
(* The steps keep the blocks, the images and the snapshots what they are.    *)

LEMMA NoGceIs == NoGce \in Gces
BY DEF NoGce, Gces

LEMMA PartsStep == LoadInv /\ [LoadNext]_loadVars => PartsOk'
<1> SUFFICES ASSUME LoadInv, [LoadNext]_loadVars PROVE PartsOk'
  OBVIOUS
<1>0. /\ file \in Seq(FileBlocks) /\ images \in Seq([block : FileBlocks, gce : Gces])
      /\ pending_gce \in Gces
      /\ shots \in Seq([pixels : [Pixels -> Sights], delay : Nat])
      /\ canvas \in [Pixels -> Sights] /\ Len(images) <= Len(file)
  BY DEF LoadInv, PartsOk
<1>1. ASSUME NEW b \in FileBlocks, Read(b)
      PROVE  file' \in Seq(FileBlocks) /\ Len(file') = Len(file) + 1
  BY <1>0, <1>1 DEF Read
<1>2. ASSUME NEW b \in FileBlocks, ReadBroken(b) \/ ReadNetscape(b) \/ ReadOther(b)
                                      \/ ReadTrailer(b)
      PROVE  PartsOk'
  <2>1. Read(b) /\ UNCHANGED <<images, pending_gce, shots, canvas>>
    BY <1>2 DEF ReadBroken, ReadNetscape, ReadOther, ReadTrailer, Fail, drawVars
  <2> QED
    BY <1>0, <1>1, <2>1 DEF PartsOk
<1>3. ASSUME NEW b \in FileBlocks, ReadGce(b) PROVE PartsOk'
  <2>1. /\ Read(b) /\ UNCHANGED <<images, shots, canvas>>
        /\ pending_gce' = [has_gce |-> TRUE, disposal |-> b.disposal,
                           transparent |-> b.transparent, delay |-> b.delay]
    BY <1>3 DEF ReadGce, drawVars
  <2>2. b.disposal \in Nat /\ b.delay \in Nat /\ b.transparent \in Nat \cup {-1}
    BY <1>3, BlocksAssumption DEF IsBlock, ReadGce
  <2>3. pending_gce' \in Gces
    BY <2>1, <2>2 DEF Gces
  <2> QED
    BY <1>0, <1>1, <2>1, <2>3 DEF PartsOk
<1>4. ASSUME NEW b \in FileBlocks, ReadImage(b) PROVE PartsOk'
  <2>1. /\ Read(b) /\ UNCHANGED <<shots, canvas>>
        /\ pending_gce' \in {pending_gce, NextGce}
        /\ images' = images \/ images' = Append(images, [block |-> b, gce |-> GceOfImage])
    BY <1>4, Zenon DEF ReadImage, Fail, drawVars
  <2>2. NextGce \in Gces /\ GceOfImage \in Gces
    BY <1>0, NoGceIs DEF NextGce, GceOfImage, Gces
  <2>3. [block |-> b, gce |-> GceOfImage] \in [block : FileBlocks, gce : Gces]
    BY <2>2
  <2>4. /\ images' \in Seq([block : FileBlocks, gce : Gces])
        /\ Len(images') <= Len(images) + 1
    <3> DEFINE S == [block : FileBlocks, gce : Gces]
               e == [block |-> b, gce |-> GceOfImage]
    <3>1. images \in Seq(S) /\ e \in S /\ (images' = images \/ images' = Append(images, e))
      BY <1>0, <2>1, <2>3
    <3> HIDE DEF S, e
    <3>2. images' \in Seq(S) /\ Len(images') <= Len(images) + 1
      BY <3>1
    <3> QED
      BY <3>2 DEF S
  <2> QED
    BY <1>0, <1>1, <2>1, <2>2, <2>4 DEF PartsOk
<1>5. CASE AllocateCanvas \/ Return
  <2>1. UNCHANGED <<file, images, pending_gce, shots, canvas>>
    BY <1>5 DEF AllocateCanvas, Return, Fail, drawVars
  <2> QED
    BY <1>0, <2>1 DEF PartsOk
<1>6. CASE Draw
  <2> DEFINE im == images[Len(shots) + 1]
  <2>1. pc = "draw" /\ Len(shots) < Len(images) /\ UNCHANGED <<file, images, pending_gce>>
    BY <1>6 DEF Draw
  <2>2. Len(shots) + 1 \in 1..Len(images)
    BY <1>0, <2>1
  <2>3. /\ im.block \in FileBlocks /\ im.block.kind = "image" /\ ImageOk(im.block)
        /\ im.gce \in Gces
    BY <2>1, <2>2, ImagesAre DEF Reading
  <2>4. \/ UNCHANGED <<shots, canvas>>
        \/ /\ shots' = Append(shots, [pixels |-> Drawn(im), delay |-> im.gce.delay])
           /\ canvas' = Disposed(im, Drawn(im))
    BY <1>6, Zenon DEF Draw, Fail, drawVars
  <2>5. Drawn(im) \in [Pixels -> Sights] /\ Disposed(im, Drawn(im)) \in [Pixels -> Sights]
    BY <1>0, <2>3, DrawnIs
  <2>6. im.gce.delay \in Nat
    BY <2>3 DEF Gces
  <2> HIDE DEF im
  <2>7. canvas' \in [Pixels -> Sights]
    BY <1>0, <2>4, <2>5
  <2>8. [pixels |-> Drawn(im), delay |-> im.gce.delay]
          \in [pixels : [Pixels -> Sights], delay : Nat]
    BY <2>5, <2>6
  <2>9. shots' \in Seq([pixels : [Pixels -> Sights], delay : Nat])
    <3> DEFINE S == [pixels : [Pixels -> Sights], delay : Nat]
               e == [pixels |-> Drawn(im), delay |-> im.gce.delay]
    <3>1. shots \in Seq(S) /\ e \in S /\ (shots' = shots \/ shots' = Append(shots, e))
      BY <1>0, <2>4, <2>8
    <3> HIDE DEF S, e
    <3>2. shots' \in Seq(S)
      BY <3>1
    <3> QED
      BY <3>2 DEF S
  <2> QED
    BY <1>0, <2>1, <2>7, <2>9 DEF PartsOk
<1>7. CASE UNCHANGED loadVars
  BY <1>0, <1>7 DEF loadVars, PartsOk
<1> QED
  BY <1>2, <1>3, <1>4, <1>5, <1>6, <1>7 DEF LoadNext

------------------------------------------------------------------------------
(* What is allocated.                                                        *)

LEMMA BlocksDiffer ==
  /\ \A m, n \in Nat : m <= n => Indices(m) \subseteq Indices(n) /\ Shots(m) \subseteq Shots(n)
  /\ \A n \in Nat, k \in Nat :
       /\ Indices(n) \cap Shots(k) = {}
       /\ \A name : Block(name) \notin Indices(n) /\ Block(name) \notin Shots(k)
  /\ Indices(0) = {} /\ Shots(0) = {}
<1>1. ASSUME NEW m \in Nat, NEW n \in Nat, m <= n
      PROVE  Indices(m) \subseteq Indices(n) /\ Shots(m) \subseteq Shots(n)
  BY <1>1 DEF Indices, Shots
<1>2. ASSUME NEW n \in Nat, NEW k \in Nat
      PROVE  /\ Indices(n) \cap Shots(k) = {}
             /\ \A name : Block(name) \notin Indices(n) /\ Block(name) \notin Shots(k)
  BY DEF Indices, Shots, Block
<1>3. Indices(0) = {} /\ Shots(0) = {}
  BY DEF Indices, Shots
<1> QED
  BY <1>1, <1>2, <1>3

\* `fail' leaves nothing of what the load had allocated.
LEMMA FailEmpties ==
  ASSUME NEW also, Fail(also), heap \cup also \subseteq FailFrees
  PROVE  heap' = {} /\ pc' = "done" /\ UNCHANGED <<canvas, shots, loaded>>
BY DEF Fail, drawVars

LEMMA HeapIs ==
  ASSUME LoadInv
  PROVE  /\ Len(images) \in Nat /\ Len(shots) \in Nat
         /\ pc \in {"walk", "canvas"} =>
              /\ heap \subseteq FailFrees /\ shots = <<>> /\ loaded = FALSE
              /\ heap = {Block("file")} \cup Indices(Len(images))
                          \cup (IF images = <<>> THEN {} ELSE {Block("images")})
         /\ pc = "draw" =>
              /\ heap \subseteq FailFrees /\ loaded = FALSE /\ images # <<>>
              /\ heap = {Block("file"), Block("images"), Block("frames"), Block("canvas"),
                         Block("prevbuf")} \cup Indices(Len(images)) \cup Shots(Len(shots))
<1>1. HeapInStep /\ loaded \in BOOLEAN /\ Len(images) \in Nat /\ Len(shots) \in Nat
  BY DEF LoadInv, PartsOk, LoadTypeOK
<1> QED
  BY <1>1 DEF HeapInStep, FailFrees, Scratch

LEMMA HeapStep ==
  LoadInv /\ PartsOk' /\ [LoadNext]_loadVars => HeapInStep' /\ NothingLeaks'
<1> SUFFICES ASSUME LoadInv, PartsOk', [LoadNext]_loadVars
             PROVE  HeapInStep' /\ NothingLeaks'
  OBVIOUS
<1>0. /\ HeapInStep /\ NothingLeaks /\ loaded \in BOOLEAN
      /\ Len(images) \in Nat /\ Len(shots) \in Nat
  BY HeapIs DEF LoadInv, LoadTypeOK
<1>1. ASSUME pc \in {"walk", "canvas", "draw"}, NEW also, Fail(also), also \subseteq FailFrees
      PROVE  HeapInStep' /\ NothingLeaks'
  <2>1. heap \subseteq FailFrees /\ loaded = FALSE
    BY <1>1, HeapIs
  <2>2. heap' = {} /\ pc' = "done" /\ loaded' = FALSE
    BY <1>1, <2>1, FailEmpties
  <2> QED
    BY <2>2 DEF HeapInStep, NothingLeaks
<1>2. CASE /\ pc \in {"walk", "canvas"} /\ pc' \in {"walk", "canvas"}
           /\ pc' = "canvas" => images # <<>>
           /\ UNCHANGED <<images, heap, shots, loaded>>
  <2>1. loaded = FALSE
    BY <1>2, HeapIs
  <2> QED
    BY <1>0, <1>2, <2>1 DEF HeapInStep, NothingLeaks
<1>3. ASSUME NEW b \in FileBlocks, ReadBroken(b) PROVE HeapInStep' /\ NothingLeaks'
  BY <1>1, <1>3 DEF ReadBroken, Read
<1>4. ASSUME NEW b \in FileBlocks, ReadGce(b) \/ ReadOther(b)
      PROVE  HeapInStep' /\ NothingLeaks'
  BY <1>2, <1>4 DEF ReadGce, ReadOther, Read, drawVars
<1>5. ASSUME NEW b \in FileBlocks, ReadNetscape(b) PROVE HeapInStep' /\ NothingLeaks'
  <2>1. PICK name_oom \in OutOfMemory :
          /\ name_oom => starved'
          /\ pc' = IF name_oom THEN "crashed" ELSE pc
    BY <1>5 DEF ReadNetscape
  <2>2. pc = "walk" /\ UNCHANGED <<images, heap, shots, loaded>>
    BY <1>5 DEF ReadNetscape, Read, drawVars
  <2>3. CASE name_oom
    <3>1. heap \subseteq Allocated
      BY DEF LoadInv, LoadTypeOK
    <3>2. shots = <<>> /\ loaded = FALSE
      BY <2>2, HeapIs
    <3>3. Allocated' = Allocated
      BY DEF Allocated
    <3> QED
      BY <2>1, <2>2, <2>3, <3>1, <3>2, <3>3 DEF HeapInStep, NothingLeaks
  <2>4. CASE ~name_oom
    BY <1>2, <2>1, <2>2, <2>4
  <2> QED
    BY <2>3, <2>4
<1>6. ASSUME NEW b \in FileBlocks, ReadImage(b) PROVE HeapInStep' /\ NothingLeaks'
  <2>1. CASE Fail({})
    BY <1>1, <1>6, <2>1 DEF ReadImage, Read
  <2>2. CASE ~Fail({})
    <3>1. /\ pc = "walk" /\ images' = Append(images, [block |-> b, gce |-> GceOfImage])
          /\ heap' = heap \cup {Block("images")} \cup Indices(Len(images'))
          /\ UNCHANGED <<pc, shots, loaded>>
      BY <1>6, <2>2 DEF ReadImage, Read, drawVars
    <3>2. Len(images') = Len(images) + 1 /\ images' # <<>>
      <4> DEFINE e == [block |-> b, gce |-> GceOfImage]
      <4>1. images \in Seq([block : FileBlocks, gce : Gces]) /\ images' = Append(images, e)
        BY <3>1 DEF LoadInv, PartsOk
      <4> HIDE DEF e
      <4> QED
        BY <4>1
    <3>3. Indices(Len(images)) \subseteq Indices(Len(images'))
      BY <1>0, <3>2, BlocksDiffer
    <3>4. /\ heap = {Block("file")} \cup Indices(Len(images))
                       \cup (IF images = <<>> THEN {} ELSE {Block("images")})
          /\ shots = <<>> /\ loaded = FALSE
      BY <3>1, HeapIs
    <3>5. heap' = {Block("file")} \cup Indices(Len(images')) \cup {Block("images")}
      BY <3>1, <3>3, <3>4
    <3> QED
      BY <3>1, <3>2, <3>4, <3>5 DEF HeapInStep, NothingLeaks
  <2> QED
    BY <2>1, <2>2
<1>7. ASSUME NEW b \in FileBlocks, ReadTrailer(b) PROVE HeapInStep' /\ NothingLeaks'
  <2>1. CASE images = <<>>
    BY <1>1, <1>7, <2>1 DEF ReadTrailer, Read
  <2>2. CASE images # <<>>
    BY <1>2, <1>7, <2>2 DEF ReadTrailer, Read, drawVars
  <2> QED
    BY <2>1, <2>2
<1>8. CASE AllocateCanvas
  <2> DEFINE wanted == {Block("frames"), Block("canvas"), Block("prevbuf")}
  <2>1. PICK missed \in SUBSET wanted :
          IF missed = {} THEN pc' = "draw" /\ heap' = heap \cup wanted /\ UNCHANGED drawVars
                         ELSE Fail(wanted \ missed)
    BY <1>8 DEF AllocateCanvas
  <2>2. pc = "canvas" /\ images' = images /\ wanted \subseteq FailFrees
    BY <1>8 DEF AllocateCanvas, FailFrees, Scratch
  <2>3. CASE missed # {}
    BY <1>1, <2>1, <2>2, <2>3
  <2>4. CASE missed = {}
    <3>1. /\ heap = {Block("file")} \cup Indices(Len(images))
                       \cup (IF images = <<>> THEN {} ELSE {Block("images")})
          /\ shots = <<>> /\ loaded = FALSE /\ images # <<>> /\ Len(shots) = 0
      BY <1>0, <2>2, HeapIs DEF HeapInStep
    <3>2. Shots(Len(shots)) = {}
      BY <3>1, BlocksDiffer
    <3> QED
      BY <2>1, <2>2, <2>4, <3>1, <3>2 DEF HeapInStep, NothingLeaks, drawVars
  <2> QED
    BY <2>3, <2>4
<1>9. CASE Draw
  <2>0. /\ heap = {Block("file"), Block("images"), Block("frames"), Block("canvas"),
                    Block("prevbuf")} \cup Indices(Len(images)) \cup Shots(Len(shots))
        /\ pc = "draw" /\ images' = images /\ images # <<>> /\ loaded = FALSE
    BY <1>9, HeapIs DEF Draw
  <2>1. CASE Fail({})
    BY <1>1, <2>0, <2>1
  <2>2. CASE ~Fail({})
    <3> DEFINE e == [pixels |-> Drawn(images[Len(shots) + 1]),
                     delay |-> images[Len(shots) + 1].gce.delay]
    <3>1. /\ shots' = Append(shots, e)
          /\ heap' = heap \cup Shots(Len(shots')) /\ UNCHANGED <<pc, loaded>>
      BY <1>9, <2>2 DEF Draw
    <3> HIDE DEF e
    <3>2. Len(shots') = Len(shots) + 1
      BY <3>1 DEF LoadInv, PartsOk
    <3>3. Shots(Len(shots)) \subseteq Shots(Len(shots'))
      BY <1>0, <3>2, BlocksDiffer
    <3> QED
      BY <2>0, <3>1, <3>3 DEF HeapInStep, NothingLeaks
  <2> QED
    BY <2>1, <2>2
<1>10. CASE Return
  <2>1. /\ heap = {Block("file"), Block("images"), Block("frames"), Block("canvas"),
                    Block("prevbuf")} \cup Indices(Len(images)) \cup Shots(Len(shots))
        /\ pc' = "done" /\ loaded' = TRUE /\ shots' = shots /\ heap' = heap \ Scratch
        /\ images # <<>> /\ Len(shots) = Len(images)
    BY <1>10, HeapIs DEF Return
  <2>2. heap' = {Block("frames")} \cup Shots(Len(shots))
    <3>1. Block("frames") \notin Scratch
      BY <1>0, BlocksDiffer DEF Scratch, Block
    <3>2. Shots(Len(shots)) \cap Scratch = {}
      BY <1>0, BlocksDiffer DEF Scratch
    <3> QED
      BY <2>1, <3>1, <3>2 DEF Scratch
  <2>3. shots # <<>>
    <3>1. Len(images) # 0
      BY <2>1, EmptySeq DEF LoadInv, PartsOk
    <3> QED
      BY <2>1, <3>1
  <2> QED
    BY <2>1, <2>2, <2>3 DEF HeapInStep, NothingLeaks
<1>11. CASE UNCHANGED loadVars
  BY <1>0, <1>11 DEF loadVars, HeapInStep, NothingLeaks
<1> QED
  BY <1>3, <1>4, <1>5, <1>6, <1>7, <1>8, <1>9, <1>10, <1>11 DEF LoadNext

------------------------------------------------------------------------------
(* Types and bounds.                                                         *)

LEMMA AllocatedIs ==
  ASSUME NEW m \in Nat, NEW n \in Nat, m <= MaxBlocks, n <= MaxBlocks
  PROVE  Indices(m) \subseteq Allocated /\ Shots(n) \subseteq Allocated
BY BlocksDiffer, GifAssumption DEF Allocated

\* What is allocated after a step is of the blocks there are.
LEMMA HeapStaysAllocated ==
  ASSUME PartsOk, HeapInStep, NothingLeaks, Len(file) <= MaxBlocks,
         Len(shots) <= Len(images),
         pc \in {"walk", "canvas", "draw", "done", "crashed"}
  PROVE  heap \subseteq Allocated
<1>1. /\ Len(images) \in Nat /\ Len(images) <= MaxBlocks
      /\ Len(shots) \in Nat /\ Len(shots) <= MaxBlocks
  BY GifAssumption DEF PartsOk
<1>2. Indices(Len(images)) \subseteq Allocated /\ Shots(Len(shots)) \subseteq Allocated
  BY <1>1, AllocatedIs
<1>3. {Block("file"), Block("images"), Block("frames"), Block("canvas"), Block("prevbuf")}
        \subseteq Allocated
  BY DEF Allocated
<1> HIDE DEF Allocated
<1>4. pc \in {"walk", "canvas"} => heap \subseteq Allocated
  BY <1>2, <1>3 DEF HeapInStep
<1>5. pc \in {"draw", "crashed"} => heap \subseteq Allocated
  BY <1>2, <1>3 DEF HeapInStep
<1>6. pc = "done" => heap \subseteq Allocated
  BY <1>2, <1>3 DEF NothingLeaks
<1> QED
  BY <1>4, <1>5, <1>6

\* Doubling makes room for one more image.
LEMMA CapacityGrows ==
  ASSUME icap \in Nat
  PROVE  Capacity \in Nat /\ Capacity > icap
BY GifAssumption DEF Capacity

LEMMA RoomStep ==
  LoadInv /\ PartsOk' /\ [LoadNext]_loadVars =>
    /\ pc' \in {"walk", "canvas", "draw", "done", "crashed"}
    /\ Len(file') <= MaxBlocks
    /\ loop_count' \in Nat /\ icap' \in 0..GIF_MAX_FRAMES /\ Len(images') <= icap'
    /\ Len(shots') <= Len(images')
    /\ {loaded', starved'} \subseteq BOOLEAN
<1> DEFINE Room ==
      /\ pc' \in {"walk", "canvas", "draw", "done", "crashed"}
      /\ Len(file') <= MaxBlocks
      /\ loop_count' \in Nat /\ icap' \in 0..GIF_MAX_FRAMES /\ Len(images') <= icap'
      /\ Len(shots') <= Len(images')
      /\ {loaded', starved'} \subseteq BOOLEAN
<1> SUFFICES ASSUME LoadInv, PartsOk', [LoadNext]_loadVars PROVE Room
  OBVIOUS
<1>0. /\ LoadTypeOK /\ PartsOk /\ Len(images) \in Nat /\ Len(shots) \in Nat
      /\ Len(file) \in Nat /\ OutOfMemory \subseteq BOOLEAN
      /\ MaxBlocks \in Nat /\ GIF_MAX_FRAMES \in Nat
  BY HeapIs, GifAssumption DEF LoadInv, PartsOk
<1>1. ASSUME NEW b \in FileBlocks, Read(b) PROVE Len(file') <= MaxBlocks
  BY <1>0, <1>1, FileGrows DEF Read, PartsOk
<1>2. ASSUME NEW b \in FileBlocks, ReadBroken(b) \/ ReadGce(b) \/ ReadOther(b)
                                      \/ ReadTrailer(b)
      PROVE  Room
  <2>1. /\ Read(b) /\ UNCHANGED <<loop_count, icap, images, shots, loaded, starved>>
        /\ pc' \in {pc, "canvas", "done"}
    BY <1>2, Zenon DEF ReadBroken, ReadGce, ReadOther, ReadTrailer, Fail, drawVars
  <2> QED
    BY <1>0, <1>1, <2>1 DEF LoadTypeOK
<1>3. ASSUME NEW b \in FileBlocks, ReadNetscape(b) PROVE Room
  <2>1. /\ Read(b) /\ UNCHANGED <<icap, images, shots, loaded>>
        /\ pc' \in {pc, "crashed"} /\ loop_count' \in {loop_count, b.loops}
    BY <1>3, Zenon DEF ReadNetscape, drawVars
  <2>2. starved' \in BOOLEAN
    BY <1>3 DEF ReadNetscape
  <2>3. b.loops \in Nat
    BY <1>3, BlocksAssumption DEF ReadNetscape, IsBlock
  <2> QED
    BY <1>0, <1>1, <2>1, <2>2, <2>3 DEF LoadTypeOK
<1>4. ASSUME NEW b \in FileBlocks, ReadImage(b) PROVE Room
  <2>1. Read(b) /\ UNCHANGED <<loop_count, shots, loaded>> /\ pc' \in {pc, "done"}
    BY <1>4, Zenon DEF ReadImage, Fail, drawVars
  <2>2. starved' \in BOOLEAN
    BY <1>4 DEF ReadImage
  <2>3. \/ UNCHANGED <<images, icap>>
        \/ /\ ~(Full /\ Capacity > GIF_MAX_FRAMES)
           /\ images' = Append(images, [block |-> b, gce |-> GceOfImage])
           /\ icap' = IF Full THEN Capacity ELSE icap
    BY <1>4, Zenon DEF ReadImage
  <2>4. CASE UNCHANGED <<images, icap>>
    BY <1>0, <1>1, <2>1, <2>2, <2>4 DEF LoadTypeOK
  <2>5. CASE ~UNCHANGED <<images, icap>>
    <3> DEFINE e == [block |-> b, gce |-> GceOfImage]
    <3>1. images' = Append(images, e) /\ images \in Seq([block : FileBlocks, gce : Gces])
      BY <1>0, <2>3, <2>5 DEF PartsOk
    <3> HIDE DEF e
    <3>2. Len(images') = Len(images) + 1
      BY <3>1
    <3>3. icap \in 0..GIF_MAX_FRAMES /\ Capacity \in Nat /\ Capacity > icap
      BY <1>0, CapacityGrows DEF LoadTypeOK
    <3>4. icap' \in 0..GIF_MAX_FRAMES /\ Len(images') <= icap'
      BY <1>0, <2>3, <2>5, <3>2, <3>3 DEF Full, LoadTypeOK
    <3> QED
      BY <1>0, <1>1, <2>1, <2>2, <3>2, <3>4 DEF LoadTypeOK
  <2> QED
    BY <2>4, <2>5
<1>5. CASE AllocateCanvas
  <2>1. /\ UNCHANGED <<file, loop_count, icap, images, shots, loaded>>
        /\ pc' \in {"draw", "done"}
    BY <1>5 DEF AllocateCanvas, Fail, drawVars
  <2>2. starved' \in BOOLEAN
    BY <1>5 DEF AllocateCanvas
  <2> QED
    BY <1>0, <2>1, <2>2 DEF LoadTypeOK
<1>6. CASE Draw
  <2> DEFINE e == [pixels |-> Drawn(images[Len(shots) + 1]),
                   delay |-> images[Len(shots) + 1].gce.delay]
  <2>1. /\ UNCHANGED <<file, loop_count, icap, images, loaded>>
        /\ pc' \in {pc, "done"} /\ (shots' = shots \/ shots' = Append(shots, e))
        /\ Len(shots) < Len(images)
    BY <1>6, Zenon DEF Draw, Fail, drawVars
  <2>2. starved' \in BOOLEAN
    BY <1>6 DEF Draw
  <2> HIDE DEF e
  <2>3. Len(shots') <= Len(shots) + 1
    BY <1>0, <2>1 DEF PartsOk
  <2>4. Len(shots') \in Nat
    BY DEF PartsOk
  <2> QED
    BY <1>0, <2>1, <2>2, <2>3, <2>4 DEF LoadTypeOK
<1>7. CASE Return
  BY <1>0, <1>7 DEF Return, LoadTypeOK
<1>8. CASE UNCHANGED loadVars
  BY <1>0, <1>8 DEF loadVars, LoadTypeOK
<1> QED
  BY <1>2, <1>3, <1>4, <1>5, <1>6, <1>7, <1>8 DEF LoadNext

LEMMA TypeStep ==
  LoadInv /\ PartsOk' /\ HeapInStep' /\ NothingLeaks' /\ [LoadNext]_loadVars => LoadTypeOK'
<1> SUFFICES ASSUME LoadInv, PartsOk', HeapInStep', NothingLeaks', [LoadNext]_loadVars
             PROVE  LoadTypeOK'
  OBVIOUS
<1>1. /\ pc' \in {"walk", "canvas", "draw", "done", "crashed"}
      /\ Len(file') <= MaxBlocks
      /\ loop_count' \in Nat /\ icap' \in 0..GIF_MAX_FRAMES /\ Len(images') <= icap'
      /\ Len(shots') <= Len(images')
      /\ {loaded', starved'} \subseteq BOOLEAN
  BY RoomStep
<1>2. (PartsOk /\ HeapInStep /\ NothingLeaks /\ Len(file) <= MaxBlocks
        /\ Len(shots) <= Len(images)
        /\ pc \in {"walk", "canvas", "draw", "done", "crashed"} => heap \subseteq Allocated)'
  BY HeapStaysAllocated, PTL
<1> QED
  BY <1>1, <1>2 DEF LoadTypeOK

------------------------------------------------------------------------------
(* What has been read.                                                       *)

LEMMA OfImage == \A i, j : j = ImageAt(i) => GceAt(ImageAt(i)) = GceAt(j)
OBVIOUS

\* One more block leaves the images before it and their control extensions.
LEMMA OlderImagesStay ==
  ASSUME PartsOk, ImagesAreRead, Reading, NEW b \in FileBlocks, file' = Append(file, b),
         NEW k \in 1..Len(images)
  PROVE  /\ ImageAt(k)' = ImageAt(k) /\ ImageAt(k) \in 1..Len(file)
         /\ file'[ImageAt(k)'] = file[ImageAt(k)]
         /\ GceAt(ImageAt(k))' = GceAt(ImageAt(k))
<1> DEFINE n == ImageAt(k)
<1>1. /\ k \in 1..Cardinality(Positions({"image"})) /\ n \in Positions({"image"})
      /\ file \in Seq(FileBlocks)
  BY DEF ImagesAreRead, PartsOk
<1>2. n' = n /\ n \in 1..Len(file)
  BY <1>1, ImageAtGrows, PositionsAre
<1>3. file'[n] = file[n]
  BY <1>1, <1>2, FileGrows
<1>4. PICK m : m = n
  OBVIOUS
<1>5. GceAt(m)' = GceAt(m)
  BY <1>1, <1>2, <1>4, GceAtGrows
<1>6. GceAt(n)' = GceAt(m)'
  <2>1. (\A i, j : j = ImageAt(i) => GceAt(ImageAt(i)) = GceAt(j))'
    BY OfImage, PTL
  <2> QED
    BY <1>2, <1>4, <2>1
<1> QED
  BY <1>2, <1>3, <1>4, <1>5, <1>6

\* What a block that is no image leaves read.
LEMMA ReadKeepsImages ==
  ASSUME PartsOk, ImagesAreRead, Reading, NEW b \in FileBlocks, file' = Append(file, b),
         b.kind \notin {"broken", "image"}, images' = images
  PROVE  ImagesAreRead'
<1>1. /\ Positions({"broken"})' = Positions({"broken"})
      /\ Positions({"image"})' = Positions({"image"})
  BY PositionsGrow DEF PartsOk
<1>2. \A n \in Positions({"image"}) : file'[n] = file[n]
  BY PositionsAre, FileGrows DEF PartsOk
<1>3. \A k \in 1..Len(images) :
        /\ ImageAt(k)' = ImageAt(k) /\ file'[ImageAt(k)'] = file[ImageAt(k)]
        /\ GceAt(ImageAt(k))' = GceAt(ImageAt(k))
  BY OlderImagesStay
<1>4. /\ Positions({"broken"}) = {}
      /\ \A n \in Positions({"image"}) : ImageOk(file[n])
      /\ Len(images) = Cardinality(Positions({"image"}))
      /\ \A k \in 1..Len(images) :
           /\ ImageAt(k) \in Positions({"image"})
           /\ images[k].block = file[ImageAt(k)]
           /\ Meaning(images[k].gce) = Meaning(GceAt(ImageAt(k)))
  BY DEF ImagesAreRead
<1>5. /\ Positions({"broken"})' = {}
      /\ \A n \in Positions({"image"})' : ImageOk(file'[n])
      /\ Len(images') = Cardinality(Positions({"image"})')
  BY <1>1, <1>2, <1>4
<1>6. ASSUME NEW k \in 1..Len(images')
      PROVE  /\ ImageAt(k)' \in Positions({"image"})'
             /\ images'[k].block = file'[ImageAt(k)']
             /\ Meaning(images'[k].gce) = Meaning(GceAt(ImageAt(k))')
  BY <1>1, <1>3, <1>4, <1>6
<1> QED
  BY <1>5, <1>6 DEF ImagesAreRead

\* The image just read is the last of the file.
LEMMA ReadAddsImage ==
  ASSUME PartsOk, ImagesAreRead, PendingIsNext, pc = "walk",
         NEW b \in FileBlocks, file' = Append(file, b),
         b.kind = "image", ImageOk(b),
         images' = Append(images, [block |-> b, gce |-> GceOfImage])
  PROVE  ImagesAreRead'
<1> DEFINE S == Positions({"image"})
           e == [block |-> b, gce |-> GceOfImage]
<1>c. PICK c : c = Len(images) + 1
  OBVIOUS
<1>0. /\ file \in Seq(FileBlocks) /\ Reading
      /\ Positions({"broken"}) = {}
      /\ \A n \in S : ImageOk(file[n])
      /\ Len(images) = Cardinality(S) /\ Len(file) \in Nat
      /\ \A k \in 1..Len(images) :
           /\ ImageAt(k) \in S
           /\ images[k].block = file[ImageAt(k)]
           /\ Meaning(images[k].gce) = Meaning(GceAt(ImageAt(k)))
  BY DEF ImagesAreRead, PartsOk, Reading
<1>1. Positions({"broken"})' = {}
  BY <1>0, PositionsGrow
<1>2. S' = S \cup {Len(file) + 1} /\ S \subseteq 1..Len(file)
  BY <1>0, PositionsGrow, PositionsAre
<1>3. Cardinality(S)' = c /\ ImageAt(c)' = Len(file) + 1
  BY <1>0, <1>c, ImageAtGrows
<1>4. /\ Len(images') = c /\ images'[c] = e /\ Len(images) \in Nat
      /\ \A k \in 1..Len(images) : images'[k] = images[k]
  <2>1. images' = Append(images, e) /\ images \in Seq([block : FileBlocks, gce : Gces])
    BY DEF PartsOk
  <2> HIDE DEF e
  <2> QED
    BY <1>c, <2>1
<1>5. \A n \in S' : ImageOk(file'[n])
  <2>1. \A n \in 1..Len(file) : file'[n] = file[n]
    BY <1>0, FileGrows
  <2>2. file'[Len(file) + 1] = b
    BY <1>0, FileGrows
  <2> HIDE DEF S
  <2> QED
    BY <1>0, <1>2, <2>1, <2>2
<1>6. ASSUME NEW k \in 1..Len(images)
      PROVE  /\ ImageAt(k)' \in S'
             /\ images'[k].block = file'[ImageAt(k)']
             /\ Meaning(images'[k].gce) = Meaning(GceAt(ImageAt(k))')
  <2>1. /\ ImageAt(k)' = ImageAt(k) /\ file'[ImageAt(k)'] = file[ImageAt(k)]
        /\ GceAt(ImageAt(k))' = GceAt(ImageAt(k))
    BY <1>0, OlderImagesStay
  <2> HIDE DEF S
  <2> QED
    BY <1>0, <1>2, <1>4, <2>1
<1>7. /\ ImageAt(c)' \in S' /\ images'[c].block = file'[ImageAt(c)']
      /\ Meaning(images'[c].gce) = Meaning(GceAt(ImageAt(c))')
  <2>1. ImageAt(c)' \in S' /\ images'[c].block = file'[ImageAt(c)']
    <3>1. file'[Len(file) + 1] = b /\ images'[c].block = b
      BY <1>0, <1>4, FileGrows
    <3> HIDE DEF S, e
    <3> QED
      BY <1>2, <1>3, <3>1
  <2>2. Meaning(GceOfImage) = Meaning(GceAt(Len(file) + 1))
    BY DEF PendingIsNext
  <2>3. PICK n : n = Len(file) + 1
    OBVIOUS
  <2>4. GceAt(n)' = GceAt(n)
    BY <1>0, <2>3, GceAtGrows
  <2>5. (\A i, j : j = ImageAt(i) => GceAt(ImageAt(i)) = GceAt(j))'
    BY OfImage, PTL
  <2>6. GceAt(ImageAt(c))' = GceAt(n)'
    BY <1>3, <2>3, <2>5
  <2>7. images'[c].gce = GceOfImage
    BY <1>4
  <2> QED
    BY <2>1, <2>2, <2>3, <2>4, <2>6, <2>7
<1>8. ASSUME NEW k \in 1..Len(images')
      PROVE  /\ ImageAt(k)' \in S'
             /\ images'[k].block = file'[ImageAt(k)']
             /\ Meaning(images'[k].gce) = Meaning(GceAt(ImageAt(k))')
  <2>1. k \in 1..Len(images) \/ k = c
    BY <1>c, <1>4
  <2> HIDE DEF S
  <2> QED
    BY <1>6, <1>7, <2>1, Zenon
<1>9. Len(images') = Cardinality(S')
  BY <1>3, <1>4
<1> QED
  BY <1>1, <1>5, <1>8, <1>9 DEF ImagesAreRead

LEMMA ImagesStep == LoadInv /\ [LoadNext]_loadVars => ImagesAreRead'
<1> SUFFICES ASSUME LoadInv, [LoadNext]_loadVars, Reading' PROVE ImagesAreRead'
  BY DEF ImagesAreRead
<1>0. PartsOk /\ ImagesAreRead /\ PendingIsNext /\ pc' # "done" /\ pc' # "crashed"
  BY DEF LoadInv, Reading
<1>1. ASSUME file' = file, images' = images, Reading PROVE ImagesAreRead'
  <2>1. /\ \A K : Positions(K)' = Positions(K)
        /\ \A k : ImageAt(k)' = ImageAt(k)
        /\ \A n : GceAt(n)' = GceAt(n)
    BY <1>1, FileStays
  <2>2. (\A i, j : j = ImageAt(i) => GceAt(ImageAt(i)) = GceAt(j))'
    BY OfImage, PTL
  <2>3. \A k : GceAt(ImageAt(k))' = GceAt(ImageAt(k))
    BY <2>1, <2>2
  <2> QED
    BY <1>0, <1>1, <2>1, <2>3 DEF ImagesAreRead
<1>2. ASSUME NEW b \in FileBlocks,
             ReadGce(b) \/ ReadNetscape(b) \/ ReadOther(b) \/ ReadTrailer(b)
      PROVE  ImagesAreRead'
  <2>1. /\ Read(b) /\ images' = images
        /\ b.kind \in {"gce", "netscape", "other", "trailer"}
    BY <1>2 DEF ReadGce, ReadNetscape, ReadOther, ReadTrailer
  <2> QED
    BY <1>0, <2>1, ReadKeepsImages DEF Read, Reading
<1>3. ASSUME NEW b \in FileBlocks, ReadImage(b) PROVE ImagesAreRead'
  <2>1. /\ Read(b) /\ b.kind = "image" /\ ImageOk(b)
        /\ images' = Append(images, [block |-> b, gce |-> GceOfImage])
    BY <1>0, <1>3 DEF ReadImage, Fail
  <2> QED
    BY <1>0, <2>1, ReadAddsImage DEF Read
<1>4. ASSUME NEW b \in FileBlocks, ReadBroken(b) PROVE FALSE
  BY <1>0, <1>4 DEF ReadBroken, Fail
<1>5. CASE AllocateCanvas \/ Draw
  BY <1>1, <1>5 DEF AllocateCanvas, Draw, Reading
<1>6. CASE Return
  BY <1>0, <1>6 DEF Return
<1>7. CASE UNCHANGED loadVars
  BY <1>1, <1>7 DEF loadVars, Reading
<1> QED
  BY <1>2, <1>3, <1>4, <1>5, <1>6, <1>7 DEF LoadNext

LEMMA PendingStep == LoadInv /\ [LoadNext]_loadVars => PendingIsNext'
<1> SUFFICES ASSUME LoadInv, [LoadNext]_loadVars, pc' = "walk" PROVE PendingIsNext'
  BY DEF PendingIsNext
<1>0. /\ file \in Seq(FileBlocks)
      /\ pc = "walk" => Meaning(GceOfImage) = Meaning(GceAt(Len(file) + 1))
  BY DEF LoadInv, PartsOk, PendingIsNext
<1>1. ASSUME NEW b \in FileBlocks, Read(b)
      PROVE  GceAt(Len(file) + 1)' =
               IF b.kind = "gce" THEN b
               ELSE IF b.kind = "image" THEN NoGce ELSE GceAt(Len(file) + 1)
  BY <1>0, <1>1, GceAtNext DEF Read
<1>2. ASSUME NEW b \in FileBlocks, ReadGce(b) PROVE PendingIsNext'
  <2>1. GceAt(Len(file) + 1)' = b
    BY <1>1, <1>2 DEF ReadGce
  <2>2. GceOfImage' = [has_gce |-> TRUE, disposal |-> b.disposal,
                       transparent |-> b.transparent, delay |-> b.delay]
    BY <1>2 DEF ReadGce, GceOfImage
  <2>3. Meaning(GceOfImage') = Meaning(b)
    BY <2>2 DEF Meaning
  <2> QED
    BY <2>1, <2>3 DEF PendingIsNext
<1>3. ASSUME NEW b \in FileBlocks, ReadNetscape(b) \/ ReadOther(b) PROVE PendingIsNext'
  <2>1. /\ Read(b) /\ b.kind \in {"netscape", "other"} /\ pending_gce' = pending_gce
        /\ pc = "walk"
    BY <1>3 DEF ReadNetscape, ReadOther, Read
  <2>2. GceOfImage' = GceOfImage
    BY <2>1 DEF GceOfImage
  <2> QED
    BY <1>0, <1>1, <2>1, <2>2 DEF PendingIsNext
<1>4. ASSUME NEW b \in FileBlocks, ReadImage(b) PROVE PendingIsNext'
  <2>1. Read(b) /\ b.kind = "image" /\ pending_gce' = NextGce
    BY <1>4 DEF ReadImage, Fail
  <2>2. GceOfImage' = NoGce
    BY <2>1 DEF GceOfImage, NextGce, LoadInv, PartsOk, Gces
  <2>3. GceAt(Len(file) + 1)' = NoGce
    BY <1>1, <2>1
  <2> QED
    BY <2>2, <2>3 DEF PendingIsNext
<1>5. ASSUME NEW b \in FileBlocks, ReadBroken(b) \/ ReadTrailer(b) PROVE FALSE
  BY <1>5 DEF ReadBroken, ReadTrailer, Fail
<1>6. ASSUME AllocateCanvas \/ Draw \/ Return PROVE FALSE
  BY <1>6 DEF AllocateCanvas, Draw, Return, Fail
<1>7. CASE UNCHANGED loadVars
  <2>1. GceOfImage' = GceOfImage /\ Len(file') = Len(file) /\ pc = "walk"
    BY <1>7 DEF loadVars, GceOfImage
  <2>2. \A n : GceAt(n)' = GceAt(n)
    BY <1>7, FileStays DEF loadVars
  <2>3. (\A m : m = Len(file) + 1 => GceAt(Len(file) + 1) = GceAt(m))'
    BY NextIs, PTL
  <2>4. GceAt(Len(file) + 1)' = GceAt(Len(file) + 1)
    BY <2>1, <2>2, <2>3
  <2> QED
    BY <1>0, <2>1, <2>4 DEF PendingIsNext
<1> QED
  BY <1>2, <1>3, <1>4, <1>5, <1>6, <1>7 DEF LoadNext

LEMMA ToldGrows ==
  ASSUME file \in Seq(FileBlocks), NEW b \in FileBlocks, file' = Append(file, b)
  PROVE  /\ Told \subseteq 1..Len(file)
         /\ \A n \in Told : file'[n] = file[n]
         /\ Told' = IF b.kind = "netscape" /\ b.valid THEN Told \cup {Len(file) + 1} ELSE Told
<1> DEFINE N == Positions({"netscape"})
<1>1. /\ N' = IF b.kind \in {"netscape"} THEN N \cup {Len(file) + 1} ELSE N
      /\ N \subseteq 1..Len(file) /\ Len(file) \in Nat
  <2>1. N' = IF b.kind \in {"netscape"} THEN N \cup {Len(file) + 1} ELSE N
    BY PositionsGrow
  <2>2. N \subseteq 1..Len(file) /\ Len(file) \in Nat
    BY PositionsAre
  <2> QED
    BY <2>1, <2>2
<1>2. file'[Len(file) + 1] = b /\ \A n \in 1..Len(file) : file'[n] = file[n]
  BY FileGrows
<1>3. Told = { n \in N : file[n].valid } /\ Told' = { n \in N' : file'[n].valid }
  BY DEF Told
<1> HIDE DEF N
<1>4. ASSUME NEW n
      PROVE  n \in Told' <=> n \in Told \/ (n = Len(file) + 1 /\ b.kind = "netscape" /\ b.valid)
  BY <1>1, <1>2, <1>3, <1>4
<1> QED
  BY <1>1, <1>2, <1>3, <1>4

LEMMA LoopsStep == LoadInv /\ [LoadNext]_loadVars => LoopsAreLast'
<1> SUFFICES ASSUME LoadInv, [LoadNext]_loadVars, ~starved' PROVE LoopsAreLast'
  BY DEF LoopsAreLast
<1>0. /\ file \in Seq(FileBlocks) /\ Len(file) \in Nat
      /\ ~starved => \/ Told = {} /\ loop_count = 1
                     \/ \E m \in Told : loop_count = file[m].loops /\ \A n \in Told : n <= m
  BY DEF LoadInv, PartsOk, LoopsAreLast
<1>1. /\ (Told' = {} /\ loop_count' = 1) => LoopsAreLast'
      /\ (\E m \in Told' : loop_count' = file'[m].loops /\ \A n \in Told' : n <= m)
            => LoopsAreLast'
  BY DEF LoopsAreLast
<1>2. ASSUME ~starved, NEW b \in FileBlocks, file' = Append(file, b), loop_count' = loop_count,
             b.kind # "netscape" \/ ~b.valid
      PROVE  LoopsAreLast'
  <2>1. Told' = Told /\ \A n \in Told : file'[n] = file[n]
    BY <1>0, <1>2, ToldGrows
  <2> QED
    BY <1>0, <1>1, <1>2, <2>1
<1>3. ASSUME ~starved, file' = file, loop_count' = loop_count PROVE LoopsAreLast'
  <2>1. Told' = Told
    BY <1>3, FileStays DEF Told
  <2> QED
    BY <1>0, <1>1, <1>3, <2>1
<1>4. ASSUME NEW b \in FileBlocks, ReadNetscape(b) PROVE LoopsAreLast'
  <2>1. PICK name_oom \in OutOfMemory, data_oom \in OutOfMemory :
          /\ starved' = (starved \/ name_oom \/ data_oom)
          /\ loop_count' = IF ~name_oom /\ ~data_oom /\ LoopsGiven(b)
                             THEN b.loops ELSE loop_count
    BY <1>4 DEF ReadNetscape
  <2>2. ~starved /\ loop_count' = IF b.valid THEN b.loops ELSE loop_count
    BY <2>1 DEF LoopsGiven
  <2>3. file' = Append(file, b) /\ b.kind = "netscape"
    BY <1>4 DEF ReadNetscape, Read
  <2>4. CASE b.valid
    <3>1. Told' = Told \cup {Len(file) + 1} /\ Told \subseteq 1..Len(file)
      BY <1>0, <2>3, <2>4, ToldGrows
    <3>2. file'[Len(file) + 1] = b
      BY <1>0, <2>3, FileGrows
    <3>3. \A n \in Told' : n <= Len(file) + 1
      BY <1>0, <3>1
    <3> QED
      BY <1>1, <2>2, <2>4, <3>1, <3>2, <3>3
  <2>5. CASE ~b.valid
    BY <1>2, <2>2, <2>3, <2>5
  <2> QED
    BY <2>4, <2>5
<1>5. ASSUME NEW b \in FileBlocks, ReadBroken(b) \/ ReadGce(b) \/ ReadOther(b)
                                      \/ ReadTrailer(b)
      PROVE  LoopsAreLast'
  <2>1. /\ file' = Append(file, b) /\ b.kind # "netscape"
        /\ loop_count' = loop_count /\ starved' = starved
    BY <1>5 DEF ReadBroken, ReadGce, ReadOther, ReadTrailer, Read
  <2> QED
    BY <1>2, <2>1
<1>6. ASSUME NEW b \in FileBlocks, ReadImage(b) PROVE LoopsAreLast'
  <2>1. /\ file' = Append(file, b) /\ b.kind # "netscape"
        /\ loop_count' = loop_count /\ ~starved
    BY <1>6 DEF ReadImage, Read
  <2> QED
    BY <1>2, <2>1
<1>7. CASE AllocateCanvas \/ Draw \/ Return
  <2>1. file' = file /\ loop_count' = loop_count
    BY <1>7 DEF AllocateCanvas, Draw, Return
  <2>2. ~starved
    <3>1. CASE AllocateCanvas
      BY <3>1 DEF AllocateCanvas
    <3>2. CASE Draw
      BY <3>2 DEF Draw
    <3>3. CASE Return
      BY <3>3 DEF Return
    <3> QED
      BY <1>7, <3>1, <3>2, <3>3
  <2> QED
    BY <1>3, <2>1, <2>2
<1>8. CASE UNCHANGED loadVars
  BY <1>3, <1>8 DEF loadVars
<1> QED
  BY <1>4, <1>5, <1>6, <1>7, <1>8 DEF LoadNext

------------------------------------------------------------------------------
(* The verdict.                                                              *)

LEMMA LoopsTold ==
  ASSUME file \in Seq(FileBlocks), LoopsAreLast, ~starved
  PROVE  loop_count = FileLoops
<1>1. FileLoops = IF Told = {} THEN 1 ELSE file[Max(Told)].loops
  BY DEF FileLoops
<1>2. \/ Told = {} /\ loop_count = 1
      \/ \E m \in Told : loop_count = file[m].loops /\ \A n \in Told : n <= m
  BY DEF LoopsAreLast
<1>3. CASE Told = {} /\ loop_count = 1
  BY <1>1, <1>3
<1>4. ASSUME NEW m \in Told, loop_count = file[m].loops, \A n \in Told : n <= m
      PROVE  loop_count = FileLoops
  <2>1. Told \in SUBSET Int
    BY PositionsAre DEF Told
  <2>2. Max(Told) = m
    BY <1>4, <2>1, MaxIs
  <2> QED
    BY <1>1, <1>4, <2>2
<1> QED
  BY <1>2, <1>3, <1>4

\* A load that reads no further was right not to.
LEMMA RefusedRightly ==
  ASSUME LoadInv, pc = "walk", NEW b \in FileBlocks, file' = Append(file, b),
         loaded' = loaded, UNCHANGED <<images, icap>>,
         \/ b.kind = "broken"
         \/ b.kind = "image" /\ (ImageOk(b) => Full /\ Capacity > GIF_MAX_FRAMES)
         \/ b.kind = "trailer" /\ images = <<>>
  PROVE  VerdictIsExact'
<1>1. /\ file \in Seq(FileBlocks) /\ loaded = FALSE /\ Len(images) \in Nat
      /\ Len(images) = Cardinality(Positions({"image"}))
  BY HeapIs DEF LoadInv, PartsOk, ImagesAreRead, Reading
<1>2. file'[Len(file) + 1] = b
  BY <1>1, FileGrows
<1>3. CASE b.kind = "broken"
  <2>1. Positions({"broken"})' # {}
    BY <1>1, <1>3, PositionsGrow
  <2> QED
    BY <1>1, <2>1 DEF VerdictIsExact, Malformed
<1>4. CASE b.kind = "image"
  <2>1. Len(file) + 1 \in Positions({"image"})'
    BY <1>1, <1>4, PositionsGrow
  <2>2. CASE ~ImageOk(b)
    BY <1>1, <1>2, <2>1, <2>2 DEF VerdictIsExact, Malformed
  <2>3. CASE Full /\ Capacity > GIF_MAX_FRAMES
    <3>1. Cardinality(Positions({"image"}))' = Len(images) + 1
      BY <1>1, <1>4, ImageAtGrows
    <3>2. (Full /\ Capacity > GIF_MAX_FRAMES)'
      BY <2>3 DEF Full, Capacity
    <3> QED
      BY <1>1, <3>1, <3>2 DEF VerdictIsExact
  <2> QED
    BY <1>4, <2>2, <2>3
<1>5. CASE b.kind = "trailer" /\ images = <<>>
  <2>1. Positions({"image"})' = Positions({"image"})
    BY <1>1, <1>5, PositionsGrow
  <2>2. Positions({"image"}) = {}
    BY <1>1, <1>5, PositionsAre, FS_EmptySet
  <2> QED
    BY <1>1, <2>1, <2>2 DEF VerdictIsExact, Malformed
<1> QED
  BY <1>3, <1>4, <1>5

LEMMA VerdictStep == LoadInv /\ [LoadNext]_loadVars => VerdictIsExact'
<1> SUFFICES ASSUME LoadInv, [LoadNext]_loadVars, pc' = "done", ~starved'
             PROVE  VerdictIsExact'
  BY DEF VerdictIsExact
<1>1. ASSUME NEW b \in FileBlocks, ReadBroken(b) PROVE VerdictIsExact'
  <2>1. /\ pc = "walk" /\ file' = Append(file, b) /\ b.kind = "broken"
        /\ UNCHANGED <<loaded, images, icap>>
    BY <1>1 DEF ReadBroken, Read, Fail, drawVars
  <2> QED
    BY <2>1, RefusedRightly
<1>2. ASSUME NEW b \in FileBlocks, ReadGce(b) \/ ReadNetscape(b) \/ ReadOther(b) PROVE FALSE
  BY <1>2 DEF ReadGce, ReadNetscape, ReadOther, Read
<1>3. ASSUME NEW b \in FileBlocks, ReadImage(b) PROVE VerdictIsExact'
  <2>1. /\ pc = "walk" /\ file' = Append(file, b) /\ b.kind = "image"
        /\ UNCHANGED <<loaded, images, icap>>
        /\ ImageOk(b) => Full /\ Capacity > GIF_MAX_FRAMES
    BY <1>3 DEF ReadImage, Read, Fail, drawVars
  <2> QED
    BY <2>1, RefusedRightly
<1>4. ASSUME NEW b \in FileBlocks, ReadTrailer(b) PROVE VerdictIsExact'
  <2>1. /\ pc = "walk" /\ file' = Append(file, b) /\ b.kind = "trailer" /\ images = <<>>
        /\ UNCHANGED <<loaded, images, icap>>
    BY <1>4 DEF ReadTrailer, Read, Fail, drawVars
  <2> QED
    BY <2>1, RefusedRightly
<1>5. ASSUME AllocateCanvas PROVE FALSE
  BY <1>5 DEF AllocateCanvas
<1>6. ASSUME Draw PROVE FALSE
  BY <1>6 DEF Draw
<1>7. CASE Return
  <2>1. /\ pc = "draw" /\ Len(shots) = Len(images) /\ loaded' = TRUE /\ ~starved
        /\ UNCHANGED <<file, loop_count, images, shots>>
    BY <1>7 DEF Return
  <2>2. /\ file \in Seq(FileBlocks) /\ LoopsAreLast /\ images # <<>>
        /\ Len(images) = Cardinality(Positions({"image"}))
        /\ images \in Seq([block : FileBlocks, gce : Gces])
        /\ Positions({"broken"}) = {} /\ \A n \in Positions({"image"}) : ImageOk(file[n])
    BY <2>1, HeapIs DEF LoadInv, PartsOk, ImagesAreRead, Reading
  <2>3. Positions({"image"}) # {}
    BY <2>2, EmptySeq, FS_EmptySet
  <2>4. ~Malformed /\ loop_count = FileLoops
    BY <2>1, <2>2, <2>3, LoopsTold DEF Malformed
  <2>5. /\ Malformed' = Malformed /\ FileLoops' = FileLoops
        /\ Positions({"image"})' = Positions({"image"})
    BY <2>1, FileStays
  <2> QED
    BY <2>1, <2>2, <2>4, <2>5 DEF VerdictIsExact
<1>8. CASE UNCHANGED loadVars
  <2>1. /\ Malformed' = Malformed /\ FileLoops' = FileLoops
        /\ Positions({"image"})' = Positions({"image"})
    BY <1>8, FileStays DEF loadVars
  <2> QED
    BY <1>8, <2>1 DEF loadVars, LoadInv, VerdictIsExact, Full, Capacity
<1> QED
  BY <1>1, <1>2, <1>3, <1>4, <1>5, <1>6, <1>7, <1>8 DEF LoadNext

------------------------------------------------------------------------------
(* What layers without glazes show.                                          *)

\* Layer j hides what lies under it when layer i has been drawn.
Hides(layers, i, j, p) ==
  \/ Cleared(layers, i, j, p)
  \/ Lies(layers, i, j, p) /\ layers[j].paint[p].kind = "solid"

NoGlaze(layers, i, p) ==
  \A j \in 1..i : p \in layers[j].area => layers[j].paint[p].kind # "glaze"

LEMMA ShownIs ==
  ASSUME NEW layers, NEW i \in Nat, NEW p, NoGlaze(layers, i, p), NEW g \in 0..i,
         g # 0 => Hides(layers, i, g, p),
         \A j \in (g + 1)..i : ~Hides(layers, i, j, p)
  PROVE  Shown(layers, i, p) =
           <<IF g = 0 \/ Cleared(layers, i, g, p) THEN Empty ELSE layers[g].paint[p].colour>>
<1>1. Ground(layers, i, p) = g
  <2> DEFINE S == {0} \cup { j \in 1..i : Hides(layers, i, j, p) }
  <2>1. Ground(layers, i, p) = Max(S)
    BY DEF Ground, Hides
  <2>2. S \in SUBSET Int /\ g \in S
    OBVIOUS
  <2>3. \A s \in S : s <= g
    OBVIOUS
  <2> HIDE DEF S
  <2> QED
    BY <2>1, <2>2, <2>3, MaxIs
<1>2. Glazes(layers, i, g, p) = {}
  BY DEF Glazes, NoGlaze, Lies
<1>3. Shown(layers, i, p) =
        <<IF g = 0 \/ Cleared(layers, i, g, p) THEN Empty ELSE layers[g].paint[p].colour>>
          \o [n \in 1..Cardinality(Glazes(layers, i, g, p)) |->
                layers[Nth(Glazes(layers, i, g, p), n)].paint[p].colour]
  BY <1>1, Zenon DEF Shown
<1> DEFINE x == IF g = 0 \/ Cleared(layers, i, g, p) THEN Empty ELSE layers[g].paint[p].colour
           G == Glazes(layers, i, g, p)
           c(n) == layers[Nth(G, n)].paint[p].colour
<1>4. Cardinality(G) = 0
  BY <1>2, FS_EmptySet
<1>5. Shown(layers, i, p) = <<x>> \o [n \in 1..0 |-> c(n)]
  BY <1>3, <1>4
<1> HIDE DEF x, c
<1>6. [n \in 1..0 |-> c(n)] = <<>>
  OBVIOUS
<1>7. Shown(layers, i, p) = <<x>>
  BY <1>5, <1>6
<1> QED
  BY <1>7 DEF x

\* Layer k is drawn as image k is.
LEMMA LayerIs ==
  ASSUME LoadInv, Reading, NEW k \in 1..Len(images)
  PROVE  /\ FileLayers[k].area = AreaOf(images[k].block)
         /\ FileLayers[k].dispose = CASE images[k].gce.disposal = 2 -> "background"
                                      [] images[k].gce.disposal = 3 -> "previous"
                                      [] OTHER -> "none"
         /\ images[k].gce.delay = GceAt(ImageAt(k)).delay
         /\ \A p \in AreaOf(images[k].block) :
              IF LetsThrough(images[k], images[k].block.indices[p])
                THEN FileLayers[k].paint[p].kind = "nothing"
                ELSE /\ FileLayers[k].paint[p].kind = "solid"
                     /\ FileLayers[k].paint[p].colour =
                          Colour(images[k].block, images[k].block.indices[p])
<1> DEFINE b == images[k].block
           g == GceAt(ImageAt(k))
<1>1. /\ b \in FileBlocks /\ b.kind = "image" /\ ImageOk(b) /\ b = file[ImageAt(k)]
      /\ FileLayers[k] = LayerAt(ImageAt(k))
  BY ImagesAre
<1>2. /\ images[k].gce.disposal = g.disposal /\ images[k].gce.transparent = g.transparent
      /\ images[k].gce.delay = g.delay
  BY ImagesAre DEF Meaning
<1>3. FileLayers[k] =
        [ area    |-> AreaOf(b),
          paint   |-> [p \in AreaOf(b) |->
                         IF b.indices[p] = g.transparent
                           THEN [kind |-> "nothing"]
                           ELSE [kind |-> "solid", colour |-> Colour(b, b.indices[p])]],
          dispose |-> CASE g.disposal = 2 -> "background"
                        [] g.disposal = 3 -> "previous"
                        [] OTHER -> "none" ]
  BY <1>1, Zenon DEF LayerAt
<1>4. ASSUME NEW p \in AreaOf(b)
      PROVE  b.indices[p] = g.transparent <=> LetsThrough(images[k], b.indices[p])
  BY <1>1, <1>2, ColourIs DEF LetsThrough
<1> HIDE DEF b, g
<1>5. /\ FileLayers[k].area = AreaOf(b)
      /\ FileLayers[k].dispose = CASE g.disposal = 2 -> "background"
                                   [] g.disposal = 3 -> "previous"
                                   [] OTHER -> "none"
  BY <1>3
<1>6. ASSUME NEW p \in AreaOf(b)
      PROVE  FileLayers[k].paint[p] = IF b.indices[p] = g.transparent
                           THEN [kind |-> "nothing"]
                           ELSE [kind |-> "solid", colour |-> Colour(b, b.indices[p])]
  BY <1>3
<1>7. ASSUME NEW p \in AreaOf(b)
      PROVE  IF LetsThrough(images[k], b.indices[p])
               THEN FileLayers[k].paint[p].kind = "nothing"
               ELSE /\ FileLayers[k].paint[p].kind = "solid"
                    /\ FileLayers[k].paint[p].colour = Colour(b, b.indices[p])
  <2>1. CASE LetsThrough(images[k], b.indices[p])
    <3>1. FileLayers[k].paint[p] = [kind |-> "nothing"]
      BY <1>4, <1>6, <2>1
    <3> QED
      BY <2>1, <3>1
  <2>2. CASE ~LetsThrough(images[k], b.indices[p])
    <3> DEFINE c == Colour(b, b.indices[p])
    <3>1. FileLayers[k].paint[p] = [kind |-> "solid", colour |-> c]
      BY <1>4, <1>6, <2>2
    <3> HIDE DEF c
    <3>2. FileLayers[k].paint[p].kind = "solid" /\ FileLayers[k].paint[p].colour = c
      BY <3>1
    <3> QED
      BY <2>2, <3>2 DEF c
  <2> QED
    BY <2>1, <2>2
<1>8. FileLayers[k].dispose = CASE images[k].gce.disposal = 2 -> "background"
                                [] images[k].gce.disposal = 3 -> "previous"
                                [] OTHER -> "none"
  BY <1>2, <1>5
<1>9. FileLayers[k].area = AreaOf(b) /\ images[k].gce.delay = g.delay
  BY <1>2, <1>5
<1> QED
  BY <1>7, <1>8, <1>9, Zenon DEF b, g

------------------------------------------------------------------------------
(* What is drawn.                                                            *)

LEMMA LayersAreFlat ==
  ASSUME LoadInv, Reading, NEW i \in Nat, i <= Len(images), NEW p
  PROVE  NoGlaze(FileLayers, i, p)
<1>1. ASSUME NEW j \in 1..i, p \in FileLayers[j].area
      PROVE  FileLayers[j].paint[p].kind # "glaze"
  <2>1. j \in 1..Len(images)
    BY DEF LoadInv, PartsOk
  <2> QED
    BY <1>1, <2>1, LayerIs
<1> QED
  BY <1>1 DEF NoGlaze

\* Of the layers before the one drawn, those hide that have marked the canvas.
LEMMA HidesIsMarks ==
  ASSUME NEW i \in Nat, NEW j \in 1..(i - 1), NEW p
  PROVE  Hides(FileLayers, i, j, p) <=> Marks(j, p)
<1>1. j < i /\ j # i
  OBVIOUS
<1> QED
  BY <1>1 DEF Hides, Cleared, Lies, Marks

LEMMA PixelIsDrawn ==
  ASSUME LoadInv, pc = "draw", NEW i \in 1..Len(images), i = Len(shots) + 1, NEW p \in Pixels
  PROVE  Drawn(images[i])[p] = Shown(FileLayers, i, p)
<1> DEFINE im == images[i]
           over == p \in AreaOf(im.block) /\ ~LetsThrough(im, im.block.indices[p])
<1>0. Reading /\ i \in Nat /\ Len(images) \in Nat /\ Len(shots) = i - 1
  BY HeapIs DEF Reading
<1>1. NoGlaze(FileLayers, i, p)
  BY <1>0, LayersAreFlat
<1>2. /\ FileLayers[i].area = AreaOf(im.block)
      /\ p \in AreaOf(im.block) =>
           IF LetsThrough(im, im.block.indices[p])
             THEN FileLayers[i].paint[p].kind = "nothing"
             ELSE /\ FileLayers[i].paint[p].kind = "solid"
                  /\ FileLayers[i].paint[p].colour = Colour(im.block, im.block.indices[p])
  BY <1>0, LayerIs
<1>3. Drawn(im)[p] = IF over THEN <<Colour(im.block, im.block.indices[p])>> ELSE canvas[p]
  BY DEF Drawn
<1>4. ~Cleared(FileLayers, i, i, p) /\ (Hides(FileLayers, i, i, p) <=> over)
  BY <1>0, <1>2 DEF Hides, Cleared, Lies
<1>5. \A j \in 1..(i - 1) : Hides(FileLayers, i, j, p) <=> Marks(j, p)
  BY <1>0, HidesIsMarks
<1>6. LeftBy(i - 1, canvas[p], p)
  BY <1>0 DEF LoadInv, CanvasIsMarked
<1>7. CASE over
  <2>1. i # 0 /\ i \in 0..i /\ \A j \in (i + 1)..i : ~Hides(FileLayers, i, j, p)
    BY <1>0
  <2>2. Shown(FileLayers, i, p) =
          <<IF i = 0 \/ Cleared(FileLayers, i, i, p) THEN Empty
                                                    ELSE FileLayers[i].paint[p].colour>>
    BY <1>0, <1>1, <1>4, <1>7, <2>1, ShownIs
  <2>3. FileLayers[i].paint[p].colour = Colour(im.block, im.block.indices[p])
    BY <1>2, <1>7
  <2> QED
    BY <1>3, <1>4, <1>7, <2>1, <2>2, <2>3
<1>8. CASE ~over
  <2> HIDE DEF over, im
  <2>1. CASE (\A j \in 1..(i - 1) : ~Marks(j, p)) /\ canvas[p] = <<Empty>>
    <3>1. 0 \in 0..i /\ \A j \in (0 + 1)..i : ~Hides(FileLayers, i, j, p)
      <4>1. \A j \in (0 + 1)..i : j = i \/ j \in 1..(i - 1)
        BY <1>0
      <4> QED
        BY <1>0, <1>4, <1>5, <1>8, <2>1, <4>1
    <3>2. Shown(FileLayers, i, p) =
            <<IF 0 = 0 \/ Cleared(FileLayers, i, 0, p) THEN Empty
                                                      ELSE FileLayers[0].paint[p].colour>>
      BY <1>0, <1>1, <3>1, ShownIs
    <3> QED
      BY <1>3, <1>8, <2>1, <3>2 DEF im
  <2>2. ASSUME NEW g \in 1..(i - 1),
               Marks(g, p), \A j \in (g + 1)..(i - 1) : ~Marks(j, p),
               canvas[p] = IF FileLayers[g].dispose = "background" THEN <<Empty>>
                                                     ELSE <<FileLayers[g].paint[p].colour>>
        PROVE  Drawn(images[i])[p] = Shown(FileLayers, i, p)
    <3>1. g \in 0..i /\ g # 0 /\ \A j \in (g + 1)..i : ~Hides(FileLayers, i, j, p)
      <4>1. \A j \in (g + 1)..i : j = i \/ (j \in 1..(i - 1) /\ j \in (g + 1)..(i - 1))
        BY <1>0
      <4> QED
        BY <1>0, <1>4, <1>5, <1>8, <2>2, <4>1
    <3>2. Hides(FileLayers, i, g, p)
      BY <1>5, <2>2
    <3>3. Shown(FileLayers, i, p) =
            <<IF g = 0 \/ Cleared(FileLayers, i, g, p) THEN Empty
                                                      ELSE FileLayers[g].paint[p].colour>>
      BY <1>0, <1>1, <3>1, <3>2, ShownIs
    <3>4. Cleared(FileLayers, i, g, p) <=> FileLayers[g].dispose = "background"
      BY <1>0, <2>2 DEF Cleared, Marks
    <3> QED
      BY <1>3, <1>8, <2>2, <3>1, <3>3, <3>4 DEF im
  <2> QED
    BY <1>6, <2>1, <2>2 DEF LeftBy
<1> QED
  BY <1>7, <1>8

LEMMA PixelIsLeft ==
  ASSUME LoadInv, pc = "draw", NEW i \in 1..Len(images), i = Len(shots) + 1, NEW p \in Pixels
  PROVE  LeftBy(i, Disposed(images[i], Drawn(images[i]))[p], p)
<1> DEFINE im == images[i]
           over == p \in AreaOf(im.block) /\ ~LetsThrough(im, im.block.indices[p])
           c == Disposed(im, Drawn(im))[p]
<1>0. Reading /\ i \in Nat /\ Len(images) \in Nat /\ Len(shots) = i - 1
      /\ canvas \in [Pixels -> Sights]
  BY HeapIs DEF Reading, LoadInv, PartsOk
<1>1. LeftBy(i - 1, canvas[p], p)
  BY <1>0 DEF LoadInv, CanvasIsMarked
<1>2. /\ FileLayers[i].area = AreaOf(im.block)
      /\ FileLayers[i].dispose = CASE im.gce.disposal = 2 -> "background"
                                   [] im.gce.disposal = 3 -> "previous"
                                   [] OTHER -> "none"
      /\ p \in AreaOf(im.block) =>
           IF LetsThrough(im, im.block.indices[p])
             THEN FileLayers[i].paint[p].kind = "nothing"
             ELSE /\ FileLayers[i].paint[p].kind = "solid"
                  /\ FileLayers[i].paint[p].colour = Colour(im.block, im.block.indices[p])
  BY <1>0, LayerIs
<1>3. Drawn(im)[p] = IF over THEN <<Colour(im.block, im.block.indices[p])>> ELSE canvas[p]
  BY DEF Drawn
<1>4. c = CASE im.gce.disposal = 2 ->
                 IF p \in AreaOf(im.block) THEN <<Empty>> ELSE Drawn(im)[p]
            [] im.gce.disposal = 3 -> canvas[p]
            [] OTHER -> Drawn(im)[p]
  BY DEF Disposed
<1> HIDE DEF c, im
<1>5. ASSUME ~Marks(i, p), c = canvas[p] PROVE LeftBy(i, c, p)
  <2>1. \A j \in 1..i : j = i \/ j \in 1..(i - 1)
    BY <1>0
  <2>2. \A g \in 1..(i - 1) : g \in 1..i /\ \A j \in (g + 1)..i : j = i \/ j \in (g + 1)..(i - 1)
    BY <1>0
  <2> QED
    BY <1>1, <1>5, <2>1, <2>2 DEF LeftBy
<1>6. ASSUME Marks(i, p),
             c = IF FileLayers[i].dispose = "background" THEN <<Empty>>
                                                   ELSE <<FileLayers[i].paint[p].colour>>
      PROVE  LeftBy(i, c, p)
  <2>1. i \in 1..i /\ \A j \in (i + 1)..i : ~Marks(j, p)
    BY <1>0
  <2> QED
    BY <1>6, <2>1 DEF LeftBy
<1>7. ASSUME im.gce.disposal = 2 PROVE LeftBy(i, c, p)
  BY <1>2, <1>3, <1>4, <1>5, <1>6, <1>7 DEF Marks
<1>8. ASSUME im.gce.disposal = 3 PROVE LeftBy(i, c, p)
  BY <1>2, <1>3, <1>4, <1>5, <1>6, <1>8 DEF Marks
<1>9. ASSUME im.gce.disposal \notin {2, 3} PROVE LeftBy(i, c, p)
  BY <1>2, <1>3, <1>4, <1>5, <1>6, <1>9 DEF Marks
<1>10. LeftBy(i, c, p)
  BY <1>7, <1>8, <1>9
<1> QED
  BY <1>10 DEF c, im

LEMMA CanvasStep == LoadInv /\ [LoadNext]_loadVars => CanvasIsMarked'
<1> SUFFICES ASSUME LoadInv, [LoadNext]_loadVars PROVE CanvasIsMarked'
  OBVIOUS
<1>0. /\ pc \in {"walk", "canvas"} => canvas = [p \in Pixels |-> <<Empty>>] /\ shots = <<>>
      /\ pc = "draw" => \A p \in Pixels : LeftBy(Len(shots), canvas[p], p)
      /\ canvas \in [Pixels -> Sights] /\ Len(shots) \in Nat
  BY HeapIs DEF LoadInv, CanvasIsMarked, PartsOk
<1>1. ASSUME file' = file, NEW n, NEW c, NEW p, LeftBy(n, c, p)
      PROVE  LeftBy(n, c, p)'
  <2>1. FileLayers' = FileLayers
    BY <1>1, FileStays
  <2>2. \A j : Marks(j, p)' <=> Marks(j, p)
    BY <2>1 DEF Marks
  <2> QED
    BY <1>1, <2>1, <2>2 DEF LeftBy
<1>2. CASE pc \in {"walk", "canvas"} /\ pc' \in {"walk", "canvas"} /\ canvas' = canvas
  BY <1>0, <1>2 DEF CanvasIsMarked
<1>3. CASE pc' \in {"done", "crashed"}
  BY <1>3 DEF CanvasIsMarked
<1>4. ASSUME NEW b \in FileBlocks,
             \/ ReadBroken(b) \/ ReadGce(b) \/ ReadNetscape(b) \/ ReadOther(b)
             \/ ReadImage(b) \/ ReadTrailer(b)
      PROVE  CanvasIsMarked'
  <2>1. CASE ReadBroken(b)
    BY <1>3, <2>1 DEF ReadBroken, Fail
  <2>2. CASE ReadGce(b) \/ ReadOther(b)
    BY <1>2, <2>2 DEF ReadGce, ReadOther, Read, drawVars
  <2>3. CASE ReadNetscape(b)
    <3>1. pc = "walk" /\ pc' \in {"walk", "crashed"} /\ canvas' = canvas
      BY <2>3 DEF ReadNetscape, Read, drawVars
    <3> QED
      BY <1>2, <1>3, <3>1
  <2>4. CASE ReadImage(b)
    <3>1. pc = "walk" /\ pc' \in {"walk", "done"} /\ canvas' = canvas
      BY <2>4, Zenon DEF ReadImage, Read, Fail, drawVars
    <3> QED
      BY <1>2, <1>3, <3>1
  <2>5. CASE ReadTrailer(b)
    <3>1. pc = "walk" /\ pc' \in {"canvas", "done"} /\ canvas' = canvas
      BY <2>5, Zenon DEF ReadTrailer, Read, Fail, drawVars
    <3> QED
      BY <1>2, <1>3, <3>1
  <2> QED
    BY <1>4, <2>1, <2>2, <2>3, <2>4, <2>5
<1>5. CASE AllocateCanvas
  <2>1. pc = "canvas" /\ file' = file /\ canvas' = canvas /\ shots' = shots
        /\ pc' \in {"draw", "done"}
    BY <1>5 DEF AllocateCanvas, Fail, drawVars
  <2>2. PICK c : c = canvas'
    OBVIOUS
  <2>3. ASSUME NEW p \in Pixels PROVE LeftBy(0, c[p], p)'
    <3>1. LeftBy(0, <<Empty>>, p) /\ c[p] = <<Empty>>
      BY <1>0, <2>1, <2>2 DEF LeftBy
    <3> QED
      BY <1>1, <2>1, <3>1
  <2>4. Len(shots') = 0
    BY <1>0, <2>1
  <2> QED
    BY <2>1, <2>2, <2>3, <2>4 DEF CanvasIsMarked
<1>6. CASE Draw
  <2>1. CASE pc' = "done"
    BY <1>3, <2>1
  <2>2. CASE pc' # "done"
    <3>1. PICK i : i = Len(shots) + 1
      OBVIOUS
    <3>2. PICK im : im = images[i]
      OBVIOUS
    <3>3. /\ pc = "draw" /\ pc' = "draw" /\ file' = file /\ Len(shots) < Len(images)
          /\ shots' = Append(shots, [pixels |-> Drawn(im), delay |-> im.gce.delay])
          /\ canvas' = Disposed(im, Drawn(im))
      BY <1>6, <2>2, <3>1, <3>2 DEF Draw, Fail
    <3>4. i \in 1..Len(images)
      BY <1>0, <3>1, <3>3, HeapIs
    <3>5. Len(shots') = i
      <4> DEFINE e == [pixels |-> Drawn(im), delay |-> im.gce.delay]
      <4>1. shots' = Append(shots, e)
        BY <3>3
      <4> HIDE DEF e
      <4> QED
        BY <3>1, <4>1 DEF LoadInv, PartsOk
    <3>6. PICK c : c = canvas'
      OBVIOUS
    <3>7. \A p \in Pixels : LeftBy(i, c[p], p)
      BY <3>1, <3>2, <3>3, <3>4, <3>6, PixelIsLeft
    <3>8. \A p \in Pixels : LeftBy(i, c[p], p)'
      BY <1>1, <3>3, <3>7
    <3> QED
      BY <3>3, <3>5, <3>6, <3>8 DEF CanvasIsMarked
  <2> QED
    BY <2>1, <2>2
<1>7. CASE Return
  BY <1>3, <1>7 DEF Return
<1>8. CASE UNCHANGED loadVars
  <2>1. file' = file /\ canvas' = canvas /\ shots' = shots /\ pc' = pc
    BY <1>8 DEF loadVars
  <2>2. PICK n, c : n = Len(shots) /\ c = canvas
    OBVIOUS
  <2>3. pc = "draw" => \A p \in Pixels : LeftBy(n, c[p], p)'
    BY <1>0, <1>1, <2>1, <2>2
  <2> QED
    BY <1>0, <2>1, <2>2, <2>3 DEF CanvasIsMarked
<1> QED
  BY <1>4, <1>5, <1>6, <1>7, <1>8 DEF LoadNext

LEMMA FramesStep == LoadInv /\ [LoadNext]_loadVars => FramesAreLayers'
<1> SUFFICES ASSUME LoadInv, [LoadNext]_loadVars PROVE FramesAreLayers'
  OBVIOUS
<1> DEFINE IsFrame(k) ==
      /\ shots[k].pixels = [p \in Pixels |-> Shown(FileLayers, k, p)]
      /\ shots[k].delay = GceAt(ImageAt(k)).delay
<1>0. /\ pc \in {"walk", "canvas"} => shots = <<>>
      /\ pc \in {"draw", "done"} => \A k \in 1..Len(shots) : IsFrame(k)
      /\ Len(shots) \in Nat
  BY HeapIs DEF LoadInv, FramesAreLayers
<1>1. ASSUME file' = file
      PROVE  /\ FileLayers' = FileLayers
             /\ \A k : GceAt(ImageAt(k))' = GceAt(ImageAt(k))
  <2>1. /\ \A k : ImageAt(k)' = ImageAt(k)
        /\ \A n : GceAt(n)' = GceAt(n)
        /\ FileLayers' = FileLayers
    BY <1>1, FileStays
  <2>2. (\A i, j : j = ImageAt(i) => GceAt(ImageAt(i)) = GceAt(j))'
    BY OfImage, PTL
  <2> QED
    BY <2>1, <2>2
<1>2. CASE shots = <<>> /\ shots' = shots
  BY <1>2 DEF FramesAreLayers
<1>3. CASE pc \in {"draw", "done"} /\ file' = file /\ shots' = shots
  BY <1>0, <1>1, <1>3 DEF FramesAreLayers
<1>4. CASE pc' \notin {"draw", "done"}
  BY <1>4 DEF FramesAreLayers
<1>5. ASSUME NEW b \in FileBlocks,
             \/ ReadBroken(b) \/ ReadGce(b) \/ ReadNetscape(b) \/ ReadOther(b)
             \/ ReadImage(b) \/ ReadTrailer(b)
      PROVE  FramesAreLayers'
  <2>1. pc = "walk" /\ shots' = shots
    BY <1>5, Zenon DEF ReadBroken, ReadGce, ReadNetscape, ReadOther, ReadImage, ReadTrailer,
                       Read, Fail, drawVars
  <2> QED
    BY <1>0, <1>2, <2>1
<1>6. CASE AllocateCanvas
  BY <1>0, <1>2, <1>6 DEF AllocateCanvas, Fail, drawVars
<1>7. CASE Draw
  <2>1. CASE pc' = "done"
    BY <1>3, <1>7, <2>1 DEF Draw, Fail, drawVars
  <2>2. CASE pc' # "done"
    <3>1. PICK i : i = Len(shots) + 1
      OBVIOUS
    <3>2. PICK im : im = images[i]
      OBVIOUS
    <3> DEFINE e == [pixels |-> Drawn(im), delay |-> im.gce.delay]
    <3>3. /\ pc = "draw" /\ file' = file /\ Len(shots) < Len(images)
          /\ shots' = Append(shots, e)
      BY <1>7, <2>2, <3>1, <3>2 DEF Draw, Fail
    <3>4. i \in 1..Len(images) /\ Reading
      BY <1>0, <3>1, <3>3, HeapIs DEF Reading
    <3>5. e.pixels = [p \in Pixels |-> Shown(FileLayers, i, p)]
      <4>1. \A p \in Pixels : Drawn(im)[p] = Shown(FileLayers, i, p)
        BY <3>1, <3>2, <3>3, <3>4, PixelIsDrawn
      <4>2. Drawn(im) = [p \in Pixels |-> Drawn(im)[p]]
        BY DEF Drawn
      <4> QED
        BY <4>1, <4>2
    <3>6. e.delay = GceAt(ImageAt(i)).delay
      BY <3>2, <3>4, LayerIs
    <3> HIDE DEF e
    <3>7. Len(shots') = i /\ shots'[i] = e /\ \A k \in 1..Len(shots) : shots'[k] = shots[k]
      BY <3>1, <3>3 DEF LoadInv, PartsOk
    <3>8. ASSUME NEW k \in 1..Len(shots')
          PROVE  /\ shots'[k].pixels = [p \in Pixels |-> Shown(FileLayers, k, p)]
                 /\ shots'[k].delay = GceAt(ImageAt(k)).delay
      <4>1. k = i \/ k \in 1..Len(shots)
        BY <1>0, <3>1, <3>7
      <4> QED
        BY <1>0, <3>3, <3>5, <3>6, <3>7, <4>1
    <3> QED
      BY <1>1, <3>3, <3>8 DEF FramesAreLayers
  <2> QED
    BY <2>1, <2>2
<1>8. CASE Return
  BY <1>3, <1>8 DEF Return
<1>9. CASE UNCHANGED loadVars
  <2>1. file' = file /\ shots' = shots /\ pc' = pc
    BY <1>9 DEF loadVars
  <2> QED
    BY <1>3, <1>4, <2>1
<1> QED
  BY <1>5, <1>6, <1>7, <1>8, <1>9 DEF LoadNext

------------------------------------------------------------------------------
LEMMA LoadInvInit == LoadInit => LoadInv
<1> SUFFICES ASSUME LoadInit PROVE LoadInv
  OBVIOUS
<1>0. /\ pc = "walk" /\ file = <<>> /\ pending_gce = NoGce /\ loop_count = 1
      /\ images = <<>> /\ icap = 0 /\ canvas = [p \in Pixels |-> <<Empty>>] /\ shots = <<>>
      /\ heap = {Block("file")} /\ loaded = FALSE /\ starved = FALSE
      /\ Len(file) = 0 /\ Len(images) = 0 /\ Len(shots) = 0
  BY DEF LoadInit
<1>1. \A K : Positions(K) = {}
  BY <1>0 DEF Positions
<1>2. LoadTypeOK
  <2>1. heap \subseteq Allocated
    BY <1>0 DEF Allocated
  <2>2. MaxBlocks \in Nat /\ GIF_MAX_FRAMES \in Nat
    BY GifAssumption
  <2>3. /\ Len(file) <= MaxBlocks /\ loop_count \in Nat /\ icap \in 0..GIF_MAX_FRAMES
        /\ Len(images) <= icap /\ Len(shots) <= Len(images)
    BY <1>0, <2>2
  <2>4. pc \in {"walk", "canvas", "draw", "done", "crashed"}
    BY <1>0
  <2>5. {loaded, starved} \subseteq BOOLEAN
    BY <1>0
  <2> QED
    BY <2>1, <2>3, <2>4, <2>5 DEF LoadTypeOK
<1>3. PartsOk
  <2>1. <<Empty>> \in Sights
    BY DEF Sights
  <2>2. canvas \in [Pixels -> Sights]
    BY <1>0, <2>1
  <2> QED
    BY <1>0, <2>2, NoGceIs, EmptySeq DEF PartsOk
<1>4. ImagesAreRead
  BY <1>0, <1>1, FS_EmptySet DEF ImagesAreRead
<1>5. PendingIsNext
  <2>1. GceAt(Len(file) + 1) = NoGce
    BY <1>1, GceAtIs DEF Found
  <2>2. GceOfImage = NoGce
    BY <1>0 DEF GceOfImage
  <2> QED
    BY <2>1, <2>2 DEF PendingIsNext
<1>6. LoopsAreLast
  BY <1>0, <1>1 DEF LoopsAreLast, Told
<1>7. HeapInStep
  BY <1>0, BlocksDiffer DEF HeapInStep
<1>8. NothingLeaks /\ VerdictIsExact /\ CanvasIsMarked /\ FramesAreLayers
  BY <1>0 DEF NothingLeaks, VerdictIsExact, CanvasIsMarked, FramesAreLayers
<1> QED
  BY <1>2, <1>3, <1>4, <1>5, <1>6, <1>7, <1>8 DEF LoadInv

LEMMA LoadInvStep == LoadInv /\ [LoadNext]_loadVars => LoadInv'
<1> SUFFICES ASSUME LoadInv, [LoadNext]_loadVars PROVE LoadInv'
  OBVIOUS
<1>1. PartsOk'
  BY PartsStep
<1>2. HeapInStep' /\ NothingLeaks'
  BY <1>1, HeapStep
<1>3. LoadTypeOK'
  BY <1>1, <1>2, TypeStep
<1> QED
  BY <1>1, <1>2, <1>3, VerdictStep, ImagesStep, PendingStep, LoopsStep, CanvasStep, FramesStep
     DEF LoadInv

\* LoadInv holds throughout a load of any blocks onto any canvas, within any limits.
THEOREM LoadKeepsInv == LoadSpec => []LoadInv
<1>1. LoadInit => LoadInv
  BY LoadInvInit
<1>2. LoadInv /\ [LoadNext]_loadVars => LoadInv'
  BY LoadInvStep
<1> QED
  BY <1>1, <1>2, PTL DEF LoadSpec

\* gif_load returns an animation for just the files it should, whose loop count is
\* that of the file, and whatever fails, only the animation stays allocated.
THEOREM LoadsSoundly == LoadSpec => []LoadIsSound
<1>1. LoadInv => LoadIsSound
  BY DEF LoadInv, LoadIsSound
<1> QED
  BY <1>1, LoadKeepsInv, PTL

\* Each snapshot that gif_load takes shows the layers of the images up to its own.
THEOREM SnapshotsShowLayers == LoadSpec => []FramesAreLayers
<1>1. LoadInv => FramesAreLayers
  BY DEF LoadInv
<1> QED
  BY <1>1, LoadKeepsInv, PTL

------------------------------------------------------------------------------
(* deinterlace                                                               *)

\* The rows of a pass are those its loop visits.
LEMMA PassRows ==
  ASSUME NEW r \in Nat, NEW p \in 0..3
  PROVE  PassOf(r) = p <=> r % step(p) = start(p)
<1>1. CASE p = 0
  BY <1>1, SMTT(60) DEF PassOf, step, start
<1>2. CASE p = 1
  BY <1>2, SMTT(60) DEF PassOf, step, start
<1>3. CASE p = 2
  BY <1>3, SMTT(60) DEF PassOf, step, start
<1>4. CASE p = 3
  BY <1>4, SMTT(60) DEF PassOf, step, start
<1> QED
  BY <1>1, <1>2, <1>3, <1>4

LEMMA PassRange == ASSUME NEW r \in Nat PROVE PassOf(r) \in 0..3
  BY DEF PassOf

\* Between two visited rows lies no other row of the pass.
LEMMA NextVisited ==
  ASSUME NEW r \in Nat, NEW q \in Nat, NEW p \in 0..3,
         PassOf(r) = p, PassOf(q) = p, r < q
  PROVE  r + step(p) <= q
  BY DEF PassOf, step

LEMMA StepKeepsPass ==
  ASSUME NEW r \in Nat, NEW p \in 0..3, r % step(p) = start(p)
  PROVE  /\ step(p) \in Nat \ {0}
         /\ (r + step(p)) % step(p) = start(p)
  BY DEF step, start

\* No row of a pass comes before its first.
LEMMA FirstVisited ==
  ASSUME NEW r \in Nat, NEW p \in 0..3, PassOf(r) = p
  PROVE  start(p) <= r
  BY DEF PassOf, start

LEMMA StartType ==
  ASSUME NEW p \in 0..4
  PROVE  start(p) \in Nat /\ (p < 4 => start(p) % step(p) = start(p))
  BY DEF start, step

\* A visited row has not been passed, and is the only one that its turn adds.
LEMMA PassedAfterCopy ==
  ASSUME InterlaceInv, pass < 4, row < h
  PROVE  /\ row \in Rows /\ PassOf(row) = pass
         /\ row \notin Passed
         /\ Passed \cup {row} =
              { r \in Rows : PassOf(r) < pass
                               \/ (PassOf(r) = pass /\ r < row + step(pass)) }
<1>1. h \in Nat /\ pass \in 0..3 /\ row \in Nat
  BY DEF InterlaceInv, RowsTypeOK
<1>2. row \in Rows /\ PassOf(row) = pass
  BY <1>1, PassRows DEF InterlaceInv, Rows
<1>3. row \notin Passed
  BY <1>1, <1>2 DEF Passed
<1>4. ASSUME NEW r \in Rows, PassOf(r) = pass
      PROVE  r < row + step(pass) <=> r < row \/ r = row
  <2>1. r \in Nat /\ step(pass) \in Nat \ {0}
    BY <1>1, <1>4, StepKeepsPass DEF Rows, InterlaceInv
  <2>2. row < r => row + step(pass) <= r
    BY <1>1, <1>2, <1>4, <2>1, NextVisited
  <2> QED
    BY <1>1, <2>1, <2>2
<1>5. Passed \cup {row} =
        { r \in Rows : PassOf(r) < pass
                         \/ (PassOf(r) = pass /\ r < row + step(pass)) }
  BY <1>2, <1>4, Zenon DEF Passed
<1> QED
  BY <1>2, <1>3, <1>5

\* When the loop has run past the end, its pass is done.
LEMMA PassedAfterPass ==
  ASSUME InterlaceInv, pass < 4, row >= h
  PROVE  Passed = { r \in Rows : PassOf(r) < pass + 1
                                   \/ (PassOf(r) = pass + 1 /\ r < start(pass + 1)) }
<1>1. h \in Nat /\ pass \in 0..3 /\ row \in Nat
  BY DEF InterlaceInv, RowsTypeOK
<1>2. ASSUME NEW r \in Rows
      PROVE  PassOf(r) < pass \/ (PassOf(r) = pass /\ r < row)
               <=> PassOf(r) < pass + 1 \/ (PassOf(r) = pass + 1 /\ r < start(pass + 1))
  <2>1. r \in Nat /\ r < row /\ PassOf(r) \in 0..3
    BY <1>1, PassRange DEF Rows
  <2>2. PassOf(r) = pass + 1 => start(pass + 1) <= r
    BY <1>1, <2>1, FirstVisited
  <2>3. start(pass + 1) \in Nat
    BY <1>1, StartType
  <2> QED
    BY <1>1, <2>1, <2>2, <2>3
<1> QED
  BY <1>2, Zenon DEF Passed

LEMMA RowsFinite == ASSUME h \in Nat PROVE IsFiniteSet(Rows) /\ Cardinality(Rows) = h
  BY FS_Interval DEF Rows

------------------------------------------------------------------------------
LEMMA InterlaceInvInit == RowsInit => InterlaceInv
<1> SUFFICES ASSUME RowsInit PROVE InterlaceInv
  OBVIOUS
<1>1. RowsTypeOK /\ pass = 0 /\ row = 0 /\ sy = 0 /\ DOMAIN dst = {}
  BY DEF RowsInit, RowsTypeOK, start
<1>2. row % step(pass) = start(pass)
  BY <1>1 DEF step, start
<1>3. ASSUME NEW r \in Rows PROVE ~(PassOf(r) < 0 \/ (PassOf(r) = 0 /\ r < 0))
  BY PassRange, <1>1 DEF Rows, RowsTypeOK
<1>4. Passed = {}
  BY <1>1, <1>3 DEF Passed
<1> QED
  BY <1>1, <1>2, <1>4, FS_EmptySet DEF InterlaceInv

LEMMA InterlaceInvStep == InterlaceInv /\ [RowsNext]_rowVars => InterlaceInv'
<1> SUFFICES ASSUME InterlaceInv, [RowsNext]_rowVars PROVE InterlaceInv'
  OBVIOUS
<1>0. h \in Nat /\ pass \in 0..4 /\ row \in Nat /\ sy \in Nat /\ RowsTypeOK
  BY DEF InterlaceInv, RowsTypeOK
<1>1. CASE CopyRow
  <2>1. /\ row \in Rows /\ row \notin Passed /\ PassOf(row) = pass
        /\ Passed \cup {row} =
              { r \in Rows : PassOf(r) < pass
                               \/ (PassOf(r) = pass /\ r < row + step(pass)) }
    BY <1>1, PassedAfterCopy DEF CopyRow
  <2>2. DOMAIN dst' = Passed \cup {row} /\ h' = h /\ pass' = pass
        /\ row' = row + step(pass) /\ sy' = sy + 1 /\ pass \in 0..3
    BY <1>0, <1>1 DEF CopyRow, InterlaceInv
  <2>3. Rows' = Rows
    BY <2>2 DEF Rows
  <2>4. Passed' = Passed \cup {row}
    BY <2>1, <2>2, <2>3 DEF Passed
  <2>5. row % step(pass) = start(pass)
    BY <2>2 DEF InterlaceInv
  <2>6. step(pass) \in Nat \ {0} /\ (row + step(pass)) % step(pass) = start(pass)
    BY <1>0, <2>2, <2>5, StepKeepsPass
  <2>7. IsFiniteSet(Passed)
    BY <1>0, RowsFinite, FS_Subset DEF Passed
  <2>8. Cardinality(Passed \cup {row}) = sy + 1
    BY <2>1, <2>7, FS_AddElement DEF InterlaceInv
  <2>9. RowsTypeOK'
    BY <1>0, <2>1, <2>2, <2>3, <2>6 DEF RowsTypeOK, Passed
  <2> QED
    BY <2>2, <2>4, <2>6, <2>8, <2>9 DEF InterlaceInv
<1>2. CASE NextPass
  <2>1. pass \in 0..3 /\ row >= h /\ pass' = pass + 1 /\ row' = start(pass + 1)
        /\ h' = h /\ sy' = sy /\ dst' = dst
    BY <1>0, <1>2 DEF NextPass
  <2>2. Rows' = Rows
    BY <2>1 DEF Rows
  <2>3. Passed' = Passed
    BY <1>0, <2>1, <2>2, PassedAfterPass DEF Passed
  <2>4. start(pass + 1) \in Nat
        /\ (pass + 1 < 4 => start(pass + 1) % step(pass + 1) = start(pass + 1))
    BY <2>1, StartType
  <2>5. RowsTypeOK'
    BY <1>0, <2>1, <2>2, <2>4 DEF RowsTypeOK
  <2> QED
    BY <2>1, <2>3, <2>4, <2>5 DEF InterlaceInv
<1>3. CASE UNCHANGED rowVars
  BY <1>3 DEF rowVars, InterlaceInv, RowsTypeOK, Passed, Rows
<1> QED
  BY <1>1, <1>2, <1>3 DEF RowsNext

\* deinterlace, for every height: the loops have written exactly the rows that
\* GIF's order puts before the one they stand at.
THEOREM InterlaceInvariant == RowsSpec => []InterlaceInv
  BY InterlaceInvInit, InterlaceInvStep, PTL DEF RowsSpec

LEMMA InvGivesEachRowOnce == InterlaceInv => EachRowOnce
<1> SUFFICES ASSUME InterlaceInv PROVE EachRowOnce
  OBVIOUS
<1>0. h \in Nat /\ pass \in 0..4 /\ row \in Nat /\ sy \in Nat
  BY DEF InterlaceInv, RowsTypeOK
<1>1. ASSUME pass < 4, row < h PROVE row \notin DOMAIN dst /\ sy < h
  <2>1. row \in Rows /\ row \notin Passed
    BY <1>1, PassedAfterCopy
  <2>2. Passed \subseteq Rows /\ Passed # Rows
    BY <2>1 DEF Passed
  <2>3. Cardinality(Passed) < h
    BY <1>0, <2>2, RowsFinite, FS_Subset, FS_CardinalityType
  <2> QED
    BY <2>1, <2>3 DEF InterlaceInv
<1>2. ASSUME pass = 4 PROVE DOMAIN dst = Rows /\ sy = h
  <2>1. \A r \in Rows : PassOf(r) < 4
    BY <1>0, PassRange DEF Rows
  <2>2. Passed = Rows
    BY <1>2, <2>1 DEF Passed
  <2> QED
    BY <1>0, <2>2, RowsFinite DEF InterlaceInv
<1> QED
  BY <1>1, <1>2 DEF EachRowOnce

\* deinterlace, for every height: no row of dst is written twice or left as
\* malloc returned it, and src is not read past its end.
THEOREM EveryRowIsWrittenOnce == RowsSpec => []EachRowOnce
  BY InterlaceInvariant, InvGivesEachRowOnce, PTL

------------------------------------------------------------------------------
LEMMA DisplayOrderInit == RowsInit => InDisplayOrder
  BY DEF RowsInit, InDisplayOrder

LEMMA DisplayOrderStep ==
  InterlaceInv /\ InDisplayOrder /\ [RowsNext]_rowVars => InDisplayOrder'
<1> SUFFICES ASSUME InterlaceInv, InDisplayOrder, [RowsNext]_rowVars PROVE InDisplayOrder'
  OBVIOUS
<1>0. h \in Nat /\ pass \in 0..4 /\ row \in Nat
  BY DEF InterlaceInv, RowsTypeOK
<1>1. h' = h
  BY DEF RowsNext, CopyRow, NextPass, rowVars
<1>2. \A r : Arrival(r)' = Arrival(r)
  BY <1>1 DEF Arrival, Rows
<1>3. CASE CopyRow
  <2>1. PassOf(row) = pass
    BY <1>3, PassedAfterCopy DEF CopyRow
  <2>2. { q \in Rows : Precedes(q, row) } = Passed
    BY <2>1 DEF Passed, Precedes
  <2>3. Arrival(row) = sy
    BY <2>2 DEF Arrival, InterlaceInv
  <2>4. ASSUME NEW r \in DOMAIN dst' PROVE dst'[r] = Arrival(r)
    BY <1>3, <2>3, <2>4 DEF CopyRow, InDisplayOrder
  <2> QED
    BY <1>2, <2>4 DEF InDisplayOrder
<1>4. CASE UNCHANGED dst
  BY <1>2, <1>4 DEF InDisplayOrder
<1> QED
  BY <1>3, <1>4 DEF RowsNext, NextPass, rowVars

\* deinterlace, for every height: each row ends up where GIF's order says.
THEOREM RowsAreInDisplayOrder == RowsSpec => []InDisplayOrder
  BY InterlaceInvariant, DisplayOrderInit, DisplayOrderStep, PTL DEF RowsSpec

(* For every height deinterlace writes each row once, and from the position   *)
(* that GIF's order gives it.                                                 *)
THEOREM RowsAreInPlace == RowsSpec => []RowsInPlace
<1>1. EachRowOnce /\ InDisplayOrder => RowsInPlace
  BY DEF RowsInPlace
<1> QED
  BY <1>1, EveryRowIsWrittenOnce, RowsAreInDisplayOrder, PTL

------------------------------------------------------------------------------
(* gif_lzw_decode                                                            *)

USE LzwAssumption

Top == MAX_CODE_BITS + BYTE_BITS + 1

\* Powers are positive, and each is twice the one before.
LEMMA PowerIs ==
  ASSUME NEW n \in 0..Top
  PROVE  2 ^ n \in Nat \ {0} /\ (n > 0 => 2 ^ n = 2 * 2 ^ (n - 1))
<1> DEFINE p(k) == 2 ^ k
           N == { k \in 0..Top : p(k) \notin Nat \ {0} }
<1>0. p(0) = 1 /\ \A k \in 0..(Top - 1) : p(k + 1) = 2 * p(k)
  BY PowersAssumption DEF Top
<1> HIDE DEF p
<1>1. Top \in Nat
  BY DEF Top
<1>2. \A k \in 0..Top : k > 0 => p(k) = 2 * p(k - 1)
  <2> TAKE k \in 0..Top
  <2> HAVE k > 0
  <2>1. k - 1 \in 0..(Top - 1) /\ k - 1 + 1 = k
    BY <1>1
  <2> QED
    BY <1>0, <2>1
<1>3. N = {}
  <2>1. SUFFICES ASSUME N # {} PROVE FALSE
    OBVIOUS
  <2>2. PICK k \in N : \A j \in N : k <= j
    <3>1. N \in SUBSET Nat
      BY <1>1
    <3> QED
      BY <2>1, <3>1, LeastOf
  <2>3. k > 0 /\ k \in 0..Top
    BY <1>0, <1>1, <2>2
  <2>4. k - 1 \in 0..Top /\ k - 1 \notin N
    BY <1>1, <2>2, <2>3
  <2>5. p(k - 1) \in Nat \ {0}
    BY <2>4
  <2> QED
    BY <1>2, <2>2, <2>3, <2>5
<1>4. p(n) \in Nat \ {0}
  BY <1>3
<1> QED
  BY <1>2, <1>4 DEF p

LEMMA PowerSum ==
  ASSUME NEW a \in Nat, NEW b \in Nat, a + b <= Top
  PROVE  2 ^ (a + b) = 2 ^ a * 2 ^ b
<1> DEFINE p(k) == 2 ^ k
           N == { k \in 0..b : p(a + k) # p(a) * p(k) }
<1>0. Top \in Nat
  BY DEF Top
<1>1. p(0) = 1 /\ \A k \in 0..Top : p(k) \in Nat /\ (k > 0 => p(k) = 2 * p(k - 1))
  <2>1. p(0) = 1
    BY PowersAssumption
  <2>2. \A k \in 0..Top : p(k) \in Nat /\ (k > 0 => p(k) = 2 * p(k - 1))
    BY PowerIs
  <2> QED
    BY <2>1, <2>2
<1> HIDE DEF p
<1>2. N = {}
  <2>1. SUFFICES ASSUME N # {} PROVE FALSE
    OBVIOUS
  <2>2. PICK k \in N : \A j \in N : k <= j
    <3>1. N \in SUBSET Nat
      OBVIOUS
    <3> QED
      BY <2>1, <3>1, LeastOf
  <2>3. k \in 0..b /\ k \in Nat /\ a + k \in 0..Top /\ k \in 0..Top /\ a \in 0..Top
    BY <1>0, <2>2
  <2>4. k > 0
    BY <1>1, <2>2, <2>3
  <2>5. /\ k - 1 \in 0..b /\ ~(k <= k - 1) /\ k - 1 \in 0..Top
        /\ a + (k - 1) \in 0..Top /\ a + k > 0 /\ (a + k) - 1 = a + (k - 1)
    <3> HIDE DEF N
    <3> QED
      BY <1>0, <2>3, <2>4
  <2>10. k - 1 \notin N
    BY <2>2, <2>5
  <2>6. p(a + (k - 1)) = p(a) * p(k - 1)
    BY <2>5, <2>10
  <2>7. p(a + k) = 2 * p(a + (k - 1)) /\ p(k) = 2 * p(k - 1)
    BY <1>1, <2>3, <2>4, <2>5
  <2>8. p(a) \in Nat /\ p(k - 1) \in Nat
    BY <1>1, <2>3, <2>5
  <2>9. p(a) * (2 * p(k - 1)) = 2 * (p(a) * p(k - 1))
    BY <2>8
  <2> QED
    BY <2>2, <2>6, <2>7, <2>9
<1>3. p(a + b) = p(a) * p(b)
  BY <1>2
<1> QED
  BY <1>3 DEF p

LEMMA Powers ==
  ASSUME NEW n \in 0..MAX_CODE_BITS
  PROVE  /\ 2 ^ n \in Nat \ {0}
         /\ \A m \in 0..(n - 1) : 2 ^ m \in Nat \ {0} /\ 2 * 2 ^ m <= 2 ^ n
<1>1. n \in 0..Top /\ \A m \in 0..(n - 1) : m \in 0..Top
  BY DEF Top
<1>2. 2 ^ n \in Nat \ {0} /\ \A m \in 0..(n - 1) : 2 ^ m \in Nat \ {0}
  BY <1>1, PowerIs
<1>3. ASSUME NEW m \in 0..(n - 1) PROVE 2 * 2 ^ m <= 2 ^ n
  <2>1. m + 1 \in Nat /\ n - (m + 1) \in Nat /\ (m + 1) + (n - (m + 1)) = n /\ n <= Top
        /\ m + 1 \in 0..Top /\ n - (m + 1) \in 0..Top /\ m + 1 > 0 /\ m + 1 - 1 = m
    BY DEF Top
  <2>2. 2 ^ n = 2 ^ (m + 1) * 2 ^ (n - (m + 1))
    BY <2>1, PowerSum
  <2>3. 2 ^ (m + 1) = 2 * 2 ^ m /\ 2 ^ (n - (m + 1)) \in Nat \ {0} /\ 2 ^ m \in Nat
    BY <2>1, <1>2, PowerIs
  <2> DEFINE x == 2 ^ m
             z == 2 ^ (n - (m + 1))
             v == 2 ^ n
  <2>4. x \in Nat /\ z \in Nat \ {0} /\ v = (2 * x) * z
    BY <2>2, <2>3
  <2> HIDE DEF x, z, v
  <2>5. 2 * x <= (2 * x) * z
    BY <2>4
  <2>6. 2 * x <= v
    BY <2>4, <2>5
  <2> QED
    BY <2>6 DEF x, v
<1> QED
  BY <1>2, <1>3

\* The quotient and the remainder are the only ones.
LEMMA DivIs ==
  ASSUME NEW d \in Nat \ {0}, NEW q \in Nat, NEW r \in 0..(d - 1)
  PROVE  (q * d + r) \div d = q /\ (q * d + r) % d = r
<1> DEFINE u == q * d + r
           a == u \div d
           b == u % d
<1>1. u = q * d + r /\ u \in Nat
  OBVIOUS
<1>2. a \in Nat /\ b \in 0..(d - 1) /\ u = a * d + b
  <2> HIDE DEF u
  <2> QED
    BY <1>1
<1> HIDE DEF u, a, b
<1>3. a <= q
  <2>1. SUFFICES ASSUME a > q PROVE FALSE
    BY <1>2
  <2>2. PICK k \in Nat : a = q + 1 + k
    <3>1. a - (q + 1) \in Nat /\ a = q + 1 + (a - (q + 1))
      BY <1>2, <2>1
    <3> QED
      BY <3>1
  <2>3. (q + 1 + k) * d = q * d + d + k * d /\ k * d \in Nat
    OBVIOUS
  <2> QED
    BY <1>1, <1>2, <2>2, <2>3
<1>4. q <= a
  <2>1. SUFFICES ASSUME q > a PROVE FALSE
    BY <1>2
  <2>2. PICK k \in Nat : q = a + 1 + k
    <3>1. q - (a + 1) \in Nat /\ q = a + 1 + (q - (a + 1))
      BY <1>2, <2>1
    <3> QED
      BY <3>1
  <2>3. (a + 1 + k) * d = a * d + d + k * d /\ k * d \in Nat
    BY <1>2
  <2> QED
    BY <1>1, <1>2, <2>2, <2>3
<1>5. a = q /\ b = r
  BY <1>1, <1>2, <1>3, <1>4
<1> QED
  BY <1>5 DEF a, b, u

\* Halving a quotient divides by twice as much.
LEMMA DivTwice ==
  ASSUME NEW u \in Nat, NEW d \in Nat \ {0}
  PROVE  /\ u \div (2 * d) = (u \div d) \div 2
         /\ u % (2 * d) = (u % d) + ((u \div d) % 2) * d
<1> DEFINE q == u \div d
           r == u % d
           t == q \div 2
           b == q % 2
<1>1. q \in Nat /\ r \in 0..(d - 1) /\ u = q * d + r
  OBVIOUS
<1>2. t \in Nat /\ b \in 0..1 /\ q = 2 * t + b
  <2> HIDE DEF q
  <2> QED
    BY <1>1
<1> HIDE DEF q, r, t, b
<1>3. q * d = t * (2 * d) + b * d
  BY <1>2
<1>4. b * d + r \in 0..(2 * d - 1) /\ 2 * d \in Nat \ {0}
  <2>1. CASE b = 0
    BY <1>1, <2>1
  <2>2. CASE b = 1
    BY <1>1, <2>2
  <2> QED
    BY <1>2, <2>1, <2>2
<1>5. u = t * (2 * d) + (b * d + r)
  <2> DEFINE x == t * (2 * d)
             z == b * d
             v == q * d
  <2>1. x \in Nat /\ z \in Nat /\ v = x + z
    BY <1>2, <1>3
  <2>2. u = v + r /\ r \in Nat
    BY <1>1
  <2> HIDE DEF x, z, v
  <2>3. u = x + (z + r)
    BY <2>1, <2>2
  <2> QED
    BY <2>3 DEF x, z
<1>6. u \div (2 * d) = t /\ u % (2 * d) = b * d + r
  <2> DEFINE e == 2 * d
             s == b * d + r
  <2>1. e \in Nat \ {0} /\ s \in 0..(e - 1) /\ u = t * e + s
    BY <1>4, <1>5
  <2> HIDE DEF e, s
  <2>2. (t * e + s) \div e = t /\ (t * e + s) % e = s
    BY <1>2, <2>1, DivIs
  <2>3. u \div e = t /\ u % e = s
    BY <2>1, <2>2
  <2> QED
    BY <2>3 DEF e, s
<1>7. b * d + r = r + b * d
  BY <1>1, <1>2
<1> QED
  BY <1>6, <1>7 DEF q, r, t, b

\* A quotient of a quotient divides by the product.
LEMMA QuotientOf ==
  ASSUME NEW u \in Nat, NEW a \in Nat, NEW b \in Nat, a + b <= Top
  PROVE  (u \div 2 ^ a) \div 2 ^ b = u \div 2 ^ (a + b)
<1> DEFINE p(k) == 2 ^ k
           N == { k \in 0..b : (u \div p(a)) \div p(k) # u \div p(a + k) }
<1>0. Top \in Nat
  BY DEF Top
<1>1. p(0) = 1 /\ \A k \in 0..Top : p(k) \in Nat \ {0} /\ (k > 0 => p(k) = 2 * p(k - 1))
  <2>1. p(0) = 1
    BY PowersAssumption
  <2>2. \A k \in 0..Top : p(k) \in Nat \ {0} /\ (k > 0 => p(k) = 2 * p(k - 1))
    BY PowerIs
  <2> QED
    BY <2>1, <2>2
<1>2. ASSUME NEW k \in 0..Top PROVE u \div p(k) \in Nat
  <2>1. p(k) \in Nat \ {0}
    BY <1>1
  <2> HIDE DEF p
  <2> QED
    BY <2>1
<1> HIDE DEF p
<1>3. N = {}
  <2>1. SUFFICES ASSUME N # {} PROVE FALSE
    OBVIOUS
  <2>2. PICK k \in N : \A j \in N : k <= j
    <3>1. N \in SUBSET Nat
      OBVIOUS
    <3> QED
      BY <2>1, <3>1, LeastOf
  <2>3. k \in 0..b /\ a \in 0..Top /\ k \in 0..Top /\ a + k \in 0..Top
    <3>1. k \in 0..b
      OBVIOUS
    <3> HIDE DEF N
    <3> QED
      BY <1>0, <3>1
  <2>4. k > 0
    <3>1. SUFFICES ASSUME k = 0 PROVE FALSE
      BY <2>3
    <3>2. a + k = a /\ (u \div p(a)) \div 1 = u \div p(a)
      BY <1>2, <2>3, <3>1
    <3> QED
      BY <1>1, <2>2, <3>1, <3>2
  <2>5. /\ k - 1 \in 0..b /\ ~(k <= k - 1) /\ k - 1 \in 0..Top
        /\ a + (k - 1) \in 0..Top /\ a + k > 0 /\ (a + k) - 1 = a + (k - 1)
    <3> HIDE DEF N
    <3> QED
      BY <1>0, <2>3, <2>4
  <2>6. (u \div p(a)) \div p(k - 1) = u \div p(a + (k - 1))
    <3>1. k - 1 \notin N
      BY <2>2, <2>5
    <3> QED
      BY <2>5, <3>1
  <2>7. p(k) = 2 * p(k - 1) /\ p(a + k) = 2 * p(a + (k - 1))
        /\ p(k - 1) \in Nat \ {0} /\ p(a + (k - 1)) \in Nat \ {0}
    BY <1>1, <2>3, <2>4, <2>5
  <2>8. u \div p(a) \in Nat
    BY <1>2, <2>3
  <2>9. /\ (u \div p(a)) \div (2 * p(k - 1)) = ((u \div p(a)) \div p(k - 1)) \div 2
        /\ u \div (2 * p(a + (k - 1))) = (u \div p(a + (k - 1))) \div 2
    BY <2>7, <2>8, DivTwice
  <2> QED
    BY <2>2, <2>6, <2>7, <2>9
<1>4. (u \div p(a)) \div p(b) = u \div p(a + b)
  BY <1>3
<1> QED
  BY <1>4 DEF p

\* The low bits of a number add up to what it leaves.
LEMMA BitsAdd ==
  ASSUME NEW u \in Nat, NEW n \in 0..Top, NEW v,
         \A k \in 1..n : v[k] = ((u \div 2 ^ (k - 1)) % 2) * 2 ^ (k - 1)
  PROVE  SumTo(v, n) = u % 2 ^ n
<1> DEFINE p(k) == 2 ^ k
           s(k) == SumTo(v, k)
           N == { k \in 0..n : s(k) # u % p(k) }
<1>0. Top \in Nat /\ n \in Nat
  BY DEF Top
<1>1. p(0) = 1 /\ \A k \in 0..Top : p(k) \in Nat \ {0} /\ (k > 0 => p(k) = 2 * p(k - 1))
  <2>1. p(0) = 1
    BY PowersAssumption
  <2>2. \A k \in 0..Top : p(k) \in Nat \ {0} /\ (k > 0 => p(k) = 2 * p(k - 1))
    BY PowerIs
  <2> QED
    BY <2>1, <2>2
<1>2. ASSUME NEW k \in Nat PROVE s(k) = IF k = 0 THEN 0 ELSE s(k - 1) + v[k]
  BY SumIs
<1>3. \A k \in 1..n : v[k] = ((u \div p(k - 1)) % 2) * p(k - 1)
  OBVIOUS
<1> HIDE DEF p, s
<1>4. N = {}
  <2>1. SUFFICES ASSUME N # {} PROVE FALSE
    OBVIOUS
  <2>2. PICK k \in N : \A j \in N : k <= j
    <3>1. N \in SUBSET Nat
      BY <1>0
    <3> QED
      BY <2>1, <3>1, LeastOf
  <2>3. k \in 0..n /\ k \in 0..Top /\ k \in Nat
    <3>1. k \in 0..n
      OBVIOUS
    <3> HIDE DEF N
    <3> QED
      BY <1>0, <3>1
  <2>4. k > 0
    <3>1. SUFFICES ASSUME k = 0 PROVE FALSE
      BY <2>3
    <3>2. s(k) = 0
      BY <1>2, <2>3, <3>1
    <3>3. u % 1 = 0
      OBVIOUS
    <3> QED
      BY <1>1, <2>2, <3>1, <3>2, <3>3
  <2>5. k - 1 \in 0..n /\ ~(k <= k - 1) /\ k - 1 \in 0..Top /\ k \in 1..n
    <3> HIDE DEF N
    <3> QED
      BY <1>0, <2>3, <2>4
  <2>6. s(k - 1) = u % p(k - 1)
    <3>1. k - 1 \notin N
      BY <2>2, <2>5
    <3> QED
      BY <2>5, <3>1
  <2>7. p(k) = 2 * p(k - 1) /\ p(k - 1) \in Nat \ {0}
    BY <1>1, <2>3, <2>4, <2>5
  <2>8. u % (2 * p(k - 1)) = (u % p(k - 1)) + ((u \div p(k - 1)) % 2) * p(k - 1)
    BY <2>7, DivTwice
  <2>9. s(k) = s(k - 1) + v[k]
    BY <1>2, <2>3, <2>4
  <2>10. s(k) = u % p(k)
    BY <1>3, <2>5, <2>6, <2>7, <2>8, <2>9
  <2> QED
    BY <2>2, <2>10
<1>5. s(n) = u % p(n)
  BY <1>0, <1>4
<1> QED
  BY <1>5 DEF p, s

LEMMA BitsAre ==
  ASSUME NEW u \in Nat, NEW n \in 0..Top
  PROVE  /\ Bits(u, n) \in Seq(0..1) /\ Len(Bits(u, n)) = n
         /\ \A k \in 1..n : Bits(u, n)[k] = (u \div 2 ^ (k - 1)) % 2
<1>1. ASSUME NEW k \in 1..n PROVE (u \div 2 ^ (k - 1)) % 2 \in 0..1
  <2>1. k - 1 \in 0..Top
    BY DEF Top
  <2> DEFINE d == 2 ^ (k - 1)
  <2>2. d \in Nat \ {0}
    BY <2>1, PowerIs
  <2> HIDE DEF d
  <2>3. (u \div d) % 2 \in 0..1
    BY <2>2
  <2> QED
    BY <2>3 DEF d
<1>2. n \in Nat
  BY DEF Top
<1>3. Bits(u, n) \in [1..n -> 0..1]
  BY <1>1 DEF Bits
<1> QED
  BY <1>2, <1>3 DEF Bits

\* The first bits, and those that follow them.
LEMMA BitsTaken ==
  ASSUME NEW u \in Nat, NEW n \in 0..Top, NEW m \in 0..Top, n <= m
  PROVE  /\ SubSeq(Bits(u, m), 1, n) = Bits(u, n)
         /\ SubSeq(Bits(u, m), n + 1, m) = Bits(u \div 2 ^ n, m - n)
         /\ u \div 2 ^ n \in Nat
         /\ u < 2 ^ m => u \div 2 ^ n < 2 ^ (m - n)
<1> DEFINE d == 2 ^ n
           e == 2 ^ (m - n)
<1>0. Top \in Nat /\ n \in Nat /\ m \in Nat /\ m - n \in 0..Top
  BY DEF Top
<1>1. d \in Nat \ {0} /\ e \in Nat \ {0} /\ 2 ^ m = d * e
  <2>1. n + (m - n) = m /\ m <= Top /\ m - n \in Nat
    BY <1>0
  <2>2. d \in Nat \ {0} /\ e \in Nat \ {0}
    BY <1>0, PowerIs
  <2>3. 2 ^ (n + (m - n)) = 2 ^ n * 2 ^ (m - n)
    BY <1>0, <2>1, PowerSum
  <2> QED
    BY <2>1, <2>2, <2>3
<1>2. u \div d \in Nat
  <2> HIDE DEF d
  <2> QED
    BY <1>1
<1>3. Bits(u, m) \in Seq(0..1) /\ Len(Bits(u, m)) = m
      /\ \A k \in 1..m : Bits(u, m)[k] = (u \div 2 ^ (k - 1)) % 2
  BY BitsAre
<1>4. SubSeq(Bits(u, m), 1, n) = Bits(u, n)
  <2>1. SubSeq(Bits(u, m), 1, n) = [k \in 1..n |-> Bits(u, m)[k]]
    BY <1>0, <1>3
  <2>2. \A k \in 1..n : Bits(u, m)[k] = (u \div 2 ^ (k - 1)) % 2
    BY <1>0, <1>3
  <2> QED
    BY <2>1, <2>2 DEF Bits
<1>5. SubSeq(Bits(u, m), n + 1, m) = Bits(u \div d, m - n)
  <2>1. SubSeq(Bits(u, m), n + 1, m) = [k \in 1..(m - n) |-> Bits(u, m)[n + k]]
    BY <1>0, <1>3
  <2>2. ASSUME NEW k \in 1..(m - n)
        PROVE  Bits(u, m)[n + k] = ((u \div d) \div 2 ^ (k - 1)) % 2
    <3>1. /\ n + k \in 1..m /\ (n + k) - 1 = n + (k - 1) /\ k - 1 \in Nat
          /\ n + (k - 1) <= Top
      BY <1>0
    <3>2. (u \div 2 ^ n) \div 2 ^ (k - 1) = u \div 2 ^ (n + (k - 1))
      BY <1>0, <3>1, QuotientOf
    <3> QED
      BY <1>3, <3>1, <3>2
  <2> QED
    BY <2>1, <2>2 DEF Bits
<1>6. u < 2 ^ m => u \div d < e
  <2>1. SUFFICES ASSUME u < 2 ^ m PROVE u \div d < e
    OBVIOUS
  <2>2. u < d * e
    BY <1>1, <2>1
  <2> HIDE DEF d, e
  <2> DEFINE q == u \div d
             r == u % d
  <2>3. q \in Nat /\ r \in Nat /\ u = q * d + r
    BY <1>1
  <2> HIDE DEF q, r
  <2>4. SUFFICES ASSUME ~(q < e) PROVE FALSE
    BY DEF q
  <2>5. PICK k \in Nat : q = e + k
    <3>1. q - e \in Nat /\ q = e + (q - e)
      BY <1>1, <2>3, <2>4
    <3> QED
      BY <3>1
  <2>6. (e + k) * d = d * e + k * d /\ k * d \in Nat /\ d * e \in Nat
    BY <1>1
  <2> QED
    BY <2>2, <2>3, <2>5, <2>6
<1> QED
  BY <1>2, <1>4, <1>5, <1>6 DEF d, e

\* A byte above the bits of a number.
LEMMA BitsArrive ==
  ASSUME NEW m \in Nat, m + BYTE_BITS <= Top, NEW u \in Nat, u < 2 ^ m,
         NEW byte \in 0..(2 ^ BYTE_BITS - 1)
  PROVE  /\ Bits(u + byte * 2 ^ m, m + BYTE_BITS) = Bits(u, m) \o Bits(byte, BYTE_BITS)
         /\ Bits(byte, BYTE_BITS) \in [1..BYTE_BITS -> 0..1]
         /\ u + byte * 2 ^ m \in Nat /\ u + byte * 2 ^ m < 2 ^ (m + BYTE_BITS)
<1> DEFINE d == 2 ^ m
           e == 2 ^ BYTE_BITS
           v == u + byte * d
           B == BYTE_BITS
<1>0. B \in Nat \ {0} /\ Top \in Nat /\ B \in 0..Top /\ m \in 0..Top /\ m + B \in 0..Top
  BY DEF Top
<1>1. d \in Nat \ {0} /\ e \in Nat \ {0} /\ 2 ^ (m + B) = d * e
  <2>1. d \in Nat \ {0} /\ e \in Nat \ {0}
    BY <1>0, PowerIs
  <2> QED
    BY <1>0, <2>1, PowerSum
<1>2. byte \in Nat /\ byte <= e - 1 /\ u \in 0..(d - 1)
  <2>1. byte \in 0..(e - 1) /\ u < d
    OBVIOUS
  <2> HIDE DEF d, e
  <2> QED
    BY <1>1, <2>1
<1>3. v \in Nat /\ v < d * e
  <2> HIDE DEF d, e
  <2>1. PICK k \in Nat : e = byte + 1 + k
    <3>1. e - (byte + 1) \in Nat /\ e = byte + 1 + (e - (byte + 1))
      BY <1>1, <1>2
    <3> QED
      BY <3>1
  <2> DEFINE x == byte * d
             z == d * k
  <2>2. d * (byte + 1 + k) = x + d + z /\ x \in Nat /\ z \in Nat
    BY <1>1, <1>2
  <2>3. d * e = x + d + z /\ v = u + x
    BY <2>1, <2>2
  <2> HIDE DEF x, z, v
  <2> QED
    BY <1>1, <1>2, <2>2, <2>3
<1>4. v \div d = byte
  <2> HIDE DEF d, e
  <2>1. v = byte * d + u
    BY <1>1, <1>2
  <2>2. (byte * d + u) \div d = byte
    BY <1>1, <1>2, DivIs
  <2> HIDE DEF v
  <2> QED
    BY <2>1, <2>2
<1>5. ASSUME NEW k \in 1..m PROVE (v \div 2 ^ (k - 1)) % 2 = (u \div 2 ^ (k - 1)) % 2
  <2> DEFINE f == 2 ^ (k - 1)
             z == 2 ^ (m - k)
  <2>0. /\ k - 1 \in Nat /\ k - 1 \in 0..Top /\ m - k \in Nat /\ m - k \in 0..Top
        /\ k \in Nat /\ k \in 0..Top /\ k > 0 /\ k + (m - k) = m /\ m <= Top
    BY <1>0
  <2>1. f \in Nat \ {0} /\ z \in Nat \ {0} /\ 2 ^ k = 2 * f
    BY <2>0, PowerIs
  <2>2. d = (2 * f) * z
    <3>1. 2 ^ (k + (m - k)) = 2 ^ k * 2 ^ (m - k)
      BY <2>0, PowerSum
    <3> QED
      BY <2>0, <2>1, <3>1
  <2> DEFINE q == u \div f
             r == u % f
  <2> HIDE DEF f, z, d
  <2>3. q \in Nat /\ r \in 0..(f - 1) /\ u = q * f + r
    BY <2>1
  <2> HIDE DEF q, r
  <2> DEFINE x == byte * z
  <2>4. x \in Nat /\ byte * ((2 * f) * z) = (2 * x) * f
    BY <1>2, <2>1
  <2> HIDE DEF x
  <2>5. (q + 2 * x) * f = q * f + (2 * x) * f /\ q * f \in Nat /\ (2 * x) * f \in Nat
    BY <2>1, <2>3, <2>4
  <2>6. v = (q + 2 * x) * f + r
    BY <2>2, <2>3, <2>4, <2>5
  <2> HIDE DEF v
  <2>7. q + 2 * x \in Nat
    BY <2>3, <2>4
  <2>8. ((q + 2 * x) * f + r) \div f = q + 2 * x
    BY <2>1, <2>3, <2>7, DivIs
  <2>9. (q + 2 * x) % 2 = q % 2
    BY <2>3, <2>4
  <2>10. (v \div f) % 2 = (u \div f) % 2
    BY <2>6, <2>8, <2>9 DEF q
  <2> QED
    BY <2>10 DEF f
<1>6. ASSUME NEW k \in 1..B PROVE (v \div 2 ^ (m + k - 1)) % 2 = (byte \div 2 ^ (k - 1)) % 2
  <2>1. k - 1 \in Nat /\ m + (k - 1) <= Top /\ m + k - 1 = m + (k - 1)
    BY <1>0
  <2>2. v \in Nat
    BY <1>3
  <2> HIDE DEF v
  <2>3. (v \div 2 ^ m) \div 2 ^ (k - 1) = v \div 2 ^ (m + (k - 1))
    BY <2>1, <2>2, QuotientOf
  <2> QED
    BY <1>4, <2>1, <2>3
<1>7. /\ Bits(u, m) \in Seq(0..1) /\ Len(Bits(u, m)) = m
      /\ \A k \in 1..m : Bits(u, m)[k] = (u \div 2 ^ (k - 1)) % 2
  BY <1>0, BitsAre
<1>8. /\ Bits(byte, B) \in Seq(0..1) /\ Len(Bits(byte, B)) = B
      /\ \A k \in 1..B : Bits(byte, B)[k] = (byte \div 2 ^ (k - 1)) % 2
  BY <1>0, <1>2, BitsAre
<1>9. Bits(u, m) \o Bits(byte, B) =
        [k \in 1..(m + B) |-> IF k <= m THEN Bits(u, m)[k] ELSE Bits(byte, B)[k - m]]
  <2> DEFINE s == Bits(u, m)
             t == Bits(byte, B)
             c == s \o t
  <2>1. s \in Seq(0..1) /\ t \in Seq(0..1) /\ Len(s) = m /\ Len(t) = B
    BY <1>7, <1>8
  <2> HIDE DEF s, t, B
  <2>2. /\ c \in Seq(0..1) /\ Len(c) = Len(s) + Len(t)
        /\ \A k \in 1..(Len(s) + Len(t)) : c[k] = IF k <= Len(s) THEN s[k] ELSE t[k - Len(s)]
    BY <2>1, ConcatProperties
  <2> HIDE DEF c
  <2>3. c = [k \in 1..(m + B) |-> c[k]]
    BY <2>1, <2>2
  <2>4. \A k \in 1..(m + B) : c[k] = IF k <= m THEN s[k] ELSE t[k - m]
    BY <2>1, <2>2
  <2> QED
    BY <2>3, <2>4 DEF s, t, c
<1>10. ASSUME NEW k \in 1..(m + B)
       PROVE  (IF k <= m THEN Bits(u, m)[k] ELSE Bits(byte, B)[k - m])
                = (v \div 2 ^ (k - 1)) % 2
  <2>1. CASE k <= m
    <3>1. k \in 1..m
      BY <2>1
    <3> QED
      BY <1>5, <1>7, <2>1, <3>1
  <2>2. CASE ~(k <= m)
    <3>1. k - m \in 1..B /\ m + (k - m) - 1 = k - 1
      BY <1>0, <2>2
    <3>2. (v \div 2 ^ (m + (k - m) - 1)) % 2 = (byte \div 2 ^ ((k - m) - 1)) % 2
      BY <1>6, <3>1
    <3> HIDE DEF v
    <3> QED
      BY <1>8, <2>2, <3>1, <3>2
  <2> QED
    BY <2>1, <2>2
<1>11. Bits(v, m + B) = Bits(u, m) \o Bits(byte, B)
  <2> HIDE DEF v
  <2> QED
    BY <1>9, <1>10 DEF Bits
<1>12. Bits(byte, B) \in [1..B -> 0..1]
  <2>1. Bits(byte, B) = [k \in 1..B |-> Bits(byte, B)[k]]
    BY DEF Bits
  <2>2. \A k \in 1..B : Bits(byte, B)[k] \in 0..1
    BY <1>8
  <2> QED
    BY <2>1, <2>2
<1> QED
  BY <1>1, <1>3, <1>11, <1>12

\* The narrowest width has room for the roots, the two control codes and one more.
LEMMA FirstWidth ==
  ASSUME NEW m \in 2..8, m < MAX_CODE_BITS
  PROVE  /\ 2 ^ m \in Nat /\ 2 ^ m >= 4
         /\ 2 * 2 ^ m <= 2 ^ (m + 1)
         /\ 2 ^ m + 2 < 2 ^ (m + 1)
         /\ 2 ^ (m + 1) \in Nat
         /\ 2 ^ (m + 1) <= LZW_MAX_CODE /\ LZW_MAX_CODE \in Nat
<1>1. /\ 2 ^ 0 \in Nat \ {0} /\ 2 * 2 ^ 0 <= 2 ^ 1
      /\ 2 ^ 1 \in Nat \ {0} /\ 2 * 2 ^ 1 <= 2 ^ m
  BY Powers
<1>2. 2 ^ m \in Nat \ {0} /\ 2 ^ (m + 1) \in Nat \ {0} /\ 2 * 2 ^ m <= 2 ^ (m + 1)
  BY Powers
<1>3. LZW_MAX_CODE \in Nat \ {0} /\ (m + 1 < MAX_CODE_BITS => 2 * 2 ^ (m + 1) <= LZW_MAX_CODE)
  BY Powers DEF LZW_MAX_CODE
<1> QED
  BY <1>1, <1>2, <1>3 DEF LZW_MAX_CODE

LEMMA WidthPower ==
  ASSUME NEW n \in 1..MAX_CODE_BITS
  PROVE  /\ 2 ^ n \in Nat \ {0} /\ 2 ^ n <= LZW_MAX_CODE /\ LZW_MAX_CODE \in Nat
         /\ n < MAX_CODE_BITS => 2 * 2 ^ n <= 2 ^ (n + 1) /\ 2 ^ (n + 1) \in Nat
         /\ n < MAX_CODE_BITS => 2 * 2 ^ n <= LZW_MAX_CODE
<1>1. 2 ^ n \in Nat \ {0} /\ LZW_MAX_CODE \in Nat \ {0}
  BY Powers DEF LZW_MAX_CODE
<1>2. n < MAX_CODE_BITS => 2 * 2 ^ n <= LZW_MAX_CODE
  BY Powers DEF LZW_MAX_CODE
<1>3. n < MAX_CODE_BITS => 2 * 2 ^ n <= 2 ^ (n + 1) /\ 2 ^ (n + 1) \in Nat
  BY Powers
<1> QED
  BY <1>1, <1>2, <1>3 DEF LZW_MAX_CODE

\* A code is spelled with code_size bits.
LEMMA CodeRange ==
  ASSUME LzwInv, Running
  PROVE  Code \in Nat /\ Code < 2 ^ code_size /\ bitbuf \div 2 ^ code_size \in Nat
<1>1. bitbuf \in Nat /\ 2 ^ code_size \in Nat \ {0}
  BY WidthPower DEF LzwInv, WidthFits
<1> DEFINE k == 2 ^ code_size
<1>2. bitbuf \in Nat /\ k \in Nat \ {0}
  BY <1>1
<1> HIDE DEF k
<1>3. bitbuf % k \in Nat /\ bitbuf % k < k /\ bitbuf \div k \in Nat
  BY <1>2
<1> QED
  BY <1>3 DEF Code, k

------------------------------------------------------------------------------
LEMMA LzwInvInit == Init => LzwInv
<1> SUFFICES ASSUME Init, Running PROVE LzwInv
  BY DEF LzwInv
<1>1. min_code_size \in 2..8 /\ min_code_size < MAX_CODE_BITS
  BY DEF Init, Running
<1>2. /\ clear_code \in Nat /\ clear_code >= 4 /\ clear_code + 2 < 2 ^ (min_code_size + 1)
      /\ 2 ^ (min_code_size + 1) <= LZW_MAX_CODE /\ LZW_MAX_CODE \in Nat
      /\ 2 ^ (min_code_size + 1) \in Nat
  BY <1>1, FirstWidth DEF clear_code
<1>3. /\ bitbuf = 0 /\ bitcount = 0 /\ prev_code = -1
      /\ code_size = min_code_size + 1
      /\ next_code = end_code + 1 /\ DOMAIN table = 0..(clear_code - 1)
      /\ \A c \in 0..(clear_code - 1) : table[c].prefix = -1
  BY DEF Init
<1>4. Live = 0..(clear_code - 1)
  BY <1>2, <1>3 DEF Live, end_code
<1>5. ChainsDescend
  BY <1>3, <1>4 DEF ChainsDescend
<1>6. WidthFits
  BY <1>1, <1>2, <1>3 DEF WidthFits, end_code
<1> QED
  BY <1>1, <1>2, <1>3, <1>5, <1>6 DEF LzwInv, end_code

\* The codes of a running call are numbers in their order.
LEMMA CodeSpace ==
  ASSUME LzwInv, Running
  PROVE  /\ min_code_size \in 2..8 /\ min_code_size < MAX_CODE_BITS
         /\ clear_code \in Nat /\ LZW_MAX_CODE \in Nat /\ clear_code >= 4
         /\ next_code \in Nat /\ next_code >= clear_code + 2
         /\ next_code <= LZW_MAX_CODE
<1>1. /\ min_code_size \in 2..8 /\ min_code_size < MAX_CODE_BITS
      /\ next_code \in (end_code + 1)..LZW_MAX_CODE
  BY DEF LzwInv
<1>2. clear_code \in Nat /\ clear_code >= 4 /\ LZW_MAX_CODE \in Nat
  BY <1>1, FirstWidth DEF clear_code
<1> QED
  BY <1>1, <1>2 DEF end_code

\* Define puts the new string where a walk to it descends, and widens the codes
\* when the next string would not fit.
LEMMA DefineKeepsInv ==
  ASSUME LzwInv, Running, UNCHANGED argVars, Running', bitbuf' \in Nat, bitcount' \in Nat,
         NEW prefix \in Live, NEW suffix, Define(prefix, suffix),
         prev_code' \in Live'
  PROVE  LzwInv'
<1>1. clear_code' = clear_code /\ end_code' = end_code /\ LZW_MAX_CODE' = LZW_MAX_CODE
      /\ min_code_size' = min_code_size
  BY DEF argVars, clear_code, end_code, LZW_MAX_CODE
<1>2. /\ min_code_size \in 2..8 /\ min_code_size < MAX_CODE_BITS
      /\ clear_code \in Nat /\ LZW_MAX_CODE \in Nat /\ clear_code >= 4
      /\ next_code \in Nat /\ next_code >= clear_code + 2 /\ next_code <= LZW_MAX_CODE
  BY CodeSpace
<1>3. CASE next_code >= LZW_MAX_CODE
  <2>1. UNCHANGED tableVars
    BY <1>2, <1>3 DEF Define
  <2>2. Live' = Live
    BY <1>1, <2>1 DEF Live, tableVars
  <2>3. ChainsDescend' /\ WidthFits'
    BY <1>1, <2>1, <2>2 DEF ChainsDescend, WidthFits, LzwInv, tableVars
  <2>4. prev_code' \in Int
    BY <1>1, <1>2, <2>2 DEF Live, end_code
  <2> QED
    BY <1>1, <2>1, <2>3, <2>4 DEF LzwInv, tableVars
<1>4. CASE next_code < LZW_MAX_CODE
  <2>1. /\ table' = [c \in DOMAIN table \cup {next_code} |->
                       IF c = next_code THEN [prefix |-> prefix, suffix |-> suffix]
                                        ELSE table[c]]
        /\ next_code' = next_code + 1
        /\ code_size' = IF next_code + 1 = 2 ^ code_size /\ code_size < MAX_CODE_BITS
                          THEN code_size + 1 ELSE code_size
    BY <1>4 DEF Define
  <2>2. Live' = Live \cup {next_code}
    BY <1>1, <1>2, <2>1 DEF Live, end_code
  <2>3. prefix \in Nat /\ prefix < next_code /\ \A c \in Live : c \in Nat /\ c < next_code
    BY <1>2 DEF Live, end_code
  <2>4. DOMAIN table' = DOMAIN table \cup {next_code}
    BY <2>1
  <2>5. /\ table'[next_code].prefix = prefix
        /\ \A c \in DOMAIN table : c # next_code => table'[c] = table[c]
    BY <2>1
  <2>6. Live' \subseteq DOMAIN table'
    BY <2>2, <2>4 DEF LzwInv, ChainsDescend
  <2>7. ASSUME NEW c \in Live'
        PROVE  table'[c].prefix \in {-1} \cup {d \in Live' : d < c}
    <3>1. CASE c = next_code
      BY <2>2, <2>3, <2>5, <3>1
    <3>2. CASE c # next_code
      <4>1. c \in Live /\ c \in DOMAIN table
        BY <2>2, <3>2 DEF LzwInv, ChainsDescend
      <4>2. table[c].prefix \in {-1} \cup {d \in Live : d < c}
        BY <4>1 DEF LzwInv, ChainsDescend
      <4> QED
        BY <2>2, <2>5, <3>2, <4>1, <4>2
    <3> QED
      BY <3>1, <3>2
  <2>8. ChainsDescend'
    BY <2>6, <2>7 DEF ChainsDescend
  <2>9. WidthFits'
    <3>1. /\ code_size \in (min_code_size + 1)..MAX_CODE_BITS
          /\ next_code <= 2 ^ code_size
          /\ next_code = 2 ^ code_size => code_size = MAX_CODE_BITS
          /\ code_size > min_code_size + 1 => next_code >= 2 ^ (code_size - 1)
      BY DEF LzwInv, WidthFits
    <3>2. /\ 2 ^ code_size \in Nat \ {0}
          /\ code_size < MAX_CODE_BITS =>
               2 * 2 ^ code_size <= 2 ^ (code_size + 1) /\ 2 ^ (code_size + 1) \in Nat
          /\ code_size = MAX_CODE_BITS => 2 ^ code_size = LZW_MAX_CODE
      BY <1>2, <3>1, WidthPower DEF LZW_MAX_CODE
    <3>3. CASE next_code + 1 = 2 ^ code_size /\ code_size < MAX_CODE_BITS
      <4>1. code_size' = code_size + 1 /\ code_size' - 1 = code_size
        BY <1>2, <2>1, <3>1, <3>3
      <4>2. 2 ^ code_size' = 2 ^ (code_size + 1) /\ 2 ^ (code_size' - 1) = 2 ^ code_size
        BY <4>1
      <4>3. next_code' = 2 ^ code_size /\ next_code' < 2 ^ (code_size + 1)
        BY <1>2, <2>1, <3>2, <3>3
      <4> QED
        BY <1>1, <1>2, <2>1, <3>1, <3>2, <3>3, <4>1, <4>2, <4>3 DEF WidthFits
    <3>4. CASE ~(next_code + 1 = 2 ^ code_size /\ code_size < MAX_CODE_BITS)
      <4>1. code_size' = code_size
        BY <2>1, <3>4
      <4>2. next_code < 2 ^ code_size
        BY <1>2, <1>4, <3>1, <3>2
      <4>3. next_code' <= 2 ^ code_size
            /\ (next_code' = 2 ^ code_size => code_size = MAX_CODE_BITS)
        BY <1>2, <2>1, <3>1, <3>2, <3>4, <4>2
      <4>4. code_size > min_code_size + 1 => next_code' >= 2 ^ (code_size - 1)
        <5>1. ASSUME code_size > min_code_size + 1 PROVE 2 ^ (code_size - 1) \in Nat
          BY <1>2, <3>1, <5>1, WidthPower
        <5> QED
          BY <1>2, <2>1, <3>1, <5>1
      <4> QED
        BY <1>1, <3>1, <4>1, <4>3, <4>4 DEF WidthFits
    <3> QED
      BY <3>3, <3>4
  <2>10. next_code' \in (end_code' + 1)..LZW_MAX_CODE'
    BY <1>1, <1>2, <1>4, <2>1 DEF end_code
  <2>11. prev_code' \in Int
    BY <1>2, <2>2, <2>3
  <2>12. \A c \in DOMAIN table' : c \in Nat /\ table'[c].prefix \in Int
    <3>1. \A c \in DOMAIN table : c \in Nat /\ table[c].prefix \in Int
      BY DEF LzwInv
    <3> QED
      BY <1>2, <2>3, <2>4, <2>5, <3>1
  <2>13. /\ 0..(clear_code - 1) \subseteq DOMAIN table'
         /\ \A c \in 0..(clear_code - 1) : table'[c].prefix = -1
    <3>1. \A c \in 0..(clear_code - 1) : c \in DOMAIN table /\ c # next_code
                                          /\ table[c].prefix = -1
      BY <1>2 DEF LzwInv
    <3> QED
      BY <2>4, <2>5, <3>1
  <2> QED
    BY <1>1, <1>2, <2>8, <2>9, <2>10, <2>11, <2>12, <2>13 DEF LzwInv
<1> QED
  BY <1>2, <1>3, <1>4

\* What Define does to the live codes.
LEMMA LiveGrows ==
  ASSUME LzwInv, Running, UNCHANGED argVars, NEW prefix, NEW suffix,
         Define(prefix, suffix)
  PROVE  /\ Live \subseteq Live'
         /\ next_code < LZW_MAX_CODE => next_code \in Live'
<1>1. clear_code' = clear_code /\ end_code' = end_code
  BY DEF argVars, clear_code, end_code
<1>2. clear_code \in Nat /\ next_code \in Nat /\ next_code >= clear_code + 2
  BY CodeSpace
<1>3. next_code' = next_code \/ next_code' = next_code + 1
  BY DEF Define, tableVars
<1>4. next_code < LZW_MAX_CODE => next_code' = next_code + 1
  BY DEF Define
<1> QED
  BY <1>1, <1>2, <1>3, <1>4 DEF Live, end_code

\* Reading a code leaves the bits behind it.
LEMMA BitsLeft ==
  ASSUME LzwInv, Running, bitcount >= code_size
  PROVE  bitcount - code_size \in Nat
<1>1. bitcount \in Nat /\ code_size \in Int
  BY DEF LzwInv, WidthFits
<1> QED
  BY <1>1

LEMMA RefillType ==
  ASSUME LzwInv, Running, NEW byte \in Nat, bitcount < code_size
  PROVE  bitbuf + byte * 2 ^ bitcount \in Nat /\ bitcount + BYTE_BITS \in Nat
<1>1. bitcount \in 0..MAX_CODE_BITS /\ bitbuf \in Nat /\ bitcount \in Nat
  BY DEF LzwInv, WidthFits
<1> DEFINE k == 2 ^ bitcount
<1>2. k \in Nat
  BY <1>1, Powers
<1> HIDE DEF k
<1>4. byte * k \in Nat
  BY <1>2
<1> QED
  BY <1>1, <1>4 DEF k

\* A step that leaves the table alone keeps the invariant.
LEMMA SameTable ==
  ASSUME LzwInv, Running, UNCHANGED argVars, UNCHANGED tableVars, bitbuf' \in Nat, bitcount' \in Nat,
         prev_code' \in {-1} \cup Live
  PROVE  LzwInv'
<1>1. Live' = Live
  BY DEF Live, argVars, tableVars, clear_code, end_code
<1>2. prev_code' \in Int
  BY FirstWidth DEF Live, LzwInv, clear_code, end_code
<1>3. ChainsDescend' /\ WidthFits'
  BY <1>1 DEF ChainsDescend, WidthFits, LzwInv, argVars, tableVars
<1> QED
  BY <1>2, <1>3 DEF LzwInv, argVars, tableVars, clear_code, end_code, LZW_MAX_CODE

\* The code just read is live, or the next to be defined, or is refused.
LEMMA LiveCode ==
  ASSUME LzwInv, Running, StringCode, Code < next_code
  PROVE  Code \in Live
<1>1. Code \in Nat /\ next_code \in Nat /\ clear_code \in Nat
  BY CodeRange, CodeSpace
<1> QED
  BY <1>1 DEF StringCode, Live, end_code

LEMMA ClearKeepsInv ==
  ASSUME LzwInv, ClearCode
  PROVE  LzwInv'
<1>0. Running
  BY DEF ClearCode, ReadCode
<1>1. /\ clear_code' = clear_code /\ end_code' = end_code /\ min_code_size' = min_code_size
      /\ LZW_MAX_CODE' = LZW_MAX_CODE
  BY DEF ClearCode, ReadCode, argVars, clear_code, end_code, LZW_MAX_CODE
<1>2. /\ min_code_size \in 2..8 /\ min_code_size < MAX_CODE_BITS
      /\ clear_code \in Nat /\ clear_code >= 4
      /\ clear_code + 2 < 2 ^ (min_code_size + 1)
      /\ 2 ^ (min_code_size + 1) <= LZW_MAX_CODE /\ LZW_MAX_CODE \in Nat
      /\ 2 ^ (min_code_size + 1) \in Nat
  BY <1>0, FirstWidth DEF LzwInv, clear_code
<1>3. /\ code_size' = min_code_size + 1 /\ next_code' = end_code + 1 /\ prev_code' = -1
      /\ table' = table
  BY DEF ClearCode
<1>4. bitbuf' \in Nat /\ bitcount' \in Nat
  BY <1>0, CodeRange, BitsLeft DEF ClearCode, ReadCode
<1>5. Live' = 0..(clear_code - 1)
  BY <1>1, <1>2, <1>3 DEF Live, end_code
<1>6. ChainsDescend'
  BY <1>0, <1>3, <1>5 DEF ChainsDescend, LzwInv
<1>7. WidthFits'
  BY <1>1, <1>2, <1>3 DEF WidthFits, end_code
<1> QED
  BY <1>0, <1>1, <1>2, <1>3, <1>4, <1>6, <1>7 DEF LzwInv, end_code

LEMMA KnownKeepsInv ==
  ASSUME LzwInv, KnownCode, Running'
  PROVE  LzwInv'
<1>0. Running /\ UNCHANGED argVars /\ StringCode /\ Code < next_code
  BY DEF KnownCode, ReadCode
<1>1. bitbuf' \in Nat /\ bitcount' \in Nat
  BY <1>0, CodeRange, BitsLeft DEF KnownCode, ReadCode
<1>2. Code \in Live
  BY <1>0, LiveCode
<1>3. result' # "failed"
  BY DEF Running
<1>4. /\ IF prev_code >= 0 THEN Define(prev_code, Head(Expand(Code)))
                           ELSE UNCHANGED tableVars
      /\ prev_code' = Code
  BY <1>3 DEF KnownCode, Corrupt
<1>5. CASE prev_code >= 0
  <2>1. prev_code \in Live
    BY <1>0, <1>5 DEF LzwInv, ChainsDescend
  <2>2. Define(prev_code, Head(Expand(Code)))
    BY <1>4, <1>5
  <2>3. prev_code' \in Live'
    BY <1>0, <1>2, <1>4, <2>2, LiveGrows
  <2> QED
    BY <1>0, <1>1, <2>1, <2>2, <2>3, DefineKeepsInv
<1>6. CASE ~(prev_code >= 0)
  BY <1>0, <1>1, <1>2, <1>4, <1>6, SameTable
<1> QED
  BY <1>5, <1>6

LEMMA NextKeepsInv ==
  ASSUME LzwInv, NextCode, Running'
  PROVE  LzwInv'
<1>0. Running /\ UNCHANGED argVars /\ Code = next_code /\ prev_code >= 0
  BY DEF NextCode, ReadCode
<1>1. bitbuf' \in Nat /\ bitcount' \in Nat
  BY <1>0, CodeRange, BitsLeft DEF NextCode, ReadCode
<1>2. result' # "failed"
  BY DEF Running
<1>3. Define(prev_code, Head(Expand(prev_code))) /\ prev_code' = next_code
  BY <1>0, <1>2 DEF NextCode, Corrupt
<1>4. prev_code \in Live
  BY <1>0 DEF LzwInv, ChainsDescend
<1>5. next_code < LZW_MAX_CODE
  <2>1. next_code \in Nat /\ next_code < 2 ^ code_size
    BY <1>0, CodeRange
  <2>2. 2 ^ code_size \in Nat /\ 2 ^ code_size <= LZW_MAX_CODE /\ LZW_MAX_CODE \in Nat
    BY <1>0, WidthPower DEF LzwInv, WidthFits
  <2> QED
    BY <2>1, <2>2
<1>6. next_code \in Live'
  BY <1>0, <1>3, <1>5, LiveGrows
<1> QED
  BY <1>0, <1>1, <1>3, <1>4, <1>6, DefineKeepsInv

LEMMA LzwInvStep == LzwInv /\ [Next]_vars => LzwInv'
<1> SUFFICES ASSUME LzwInv, [Next]_vars, Running' PROVE LzwInv'
  BY DEF LzwInv
<1>1. ASSUME NEW byte \in Nat, Refill(byte) PROVE LzwInv'
  <2>1. Running /\ UNCHANGED <<argVars, tableVars, prev_code>>
    BY <1>1 DEF Refill
  <2>2. prev_code \in {-1} \cup Live
    BY <2>1 DEF LzwInv, ChainsDescend
  <2>3. bitbuf' \in Nat /\ bitcount' \in Nat
    BY <1>1, <2>1, RefillType DEF Refill
  <2> QED
    BY <2>1, <2>2, <2>3, SameTable
<1>2. CASE ClearCode
  BY <1>2, ClearKeepsInv
<1>3. CASE KnownCode
  BY <1>3, KnownKeepsInv
<1>4. CASE NextCode
  BY <1>4, NextKeepsInv
<1>5. CASE Exhausted \/ EndCode \/ UndefinedCode
  BY <1>5 DEF Exhausted, EndCode, UndefinedCode, Corrupt, Running
<1>6. CASE UNCHANGED vars
  BY <1>6 DEF vars, argVars, bitVars, tableVars, LzwInv, ChainsDescend, WidthFits, Live,
              Running, clear_code, end_code, LZW_MAX_CODE
<1>7. 0..(2 ^ BYTE_BITS - 1) \subseteq Nat
  OBVIOUS
<1> QED
  BY <1>1, <1>2, <1>3, <1>4, <1>5, <1>6, <1>7 DEF Next

\* gif_lzw_decode, for every input and code space: table, width and bit buffer
\* stay in step.
THEOREM LzwInvariant == Spec => []LzwInv
  BY LzwInvInit, LzwInvStep, PTL DEF Spec

\* gif_lzw_decode never walks a chain that does not descend to a root: no
\* unwritten entry is read, and the stack never runs over.
THEOREM WalksDescend == Spec => []ChainsDescend
<1>1. LzwInv => ChainsDescend
  BY DEF LzwInv, ChainsDescend
<1> QED
  BY <1>1, LzwInvariant, PTL

\* gif_lzw_decode never reads a code too narrow for the next entry, or wider
\* than it has to be.
THEOREM WidthAlwaysFits == Spec => []WidthFits
<1>1. LzwInv => WidthFits
  BY DEF LzwInv, WidthFits
<1> QED
  BY <1>1, LzwInvariant, PTL

------------------------------------------------------------------------------
(* Chains                                                                    *)

\* A table whose chains all descend, the stale ones too.
Grounded(T, n) ==
  /\ DOMAIN T \subseteq 0..(n - 1)
  /\ \A c \in DOMAIN T : /\ T[c].suffix \in Nat
                         /\ T[c].prefix \in {-1} \cup { d \in DOMAIN T : d < c }

\* The string of a code, from the strings of lower codes.
Link(T, f, c) ==
  IF T[c].prefix < 0 THEN <<T[c].suffix>> ELSE Append(f[T[c].prefix], T[c].suffix)

Spells(f, T, n) == f = [c \in { d \in DOMAIN T : d < n } |-> Link(T, f, c)]

LEMMA SpellsExists ==
  ASSUME NEW n \in Nat, NEW T, Grounded(T, n), NEW m \in Nat
  PROVE  \E f : Spells(f, T, m)
<1> DEFINE N == { k \in Nat : ~\E f : Spells(f, T, k) }
<1>0. DOMAIN T \subseteq Nat
  BY DEF Grounded
<1>1. SUFFICES ASSUME N # {} PROVE FALSE
  OBVIOUS
<1>2. PICK k \in N : \A j \in N : k <= j
  <2>1. N \in SUBSET Nat
    OBVIOUS
  <2> QED
    BY <1>1, <2>1, LeastOf
<1>3. CASE k = 0
  <2> DEFINE f == [c \in {} |-> 0]
  <2>1. { d \in DOMAIN T : d < k } = {}
    BY <1>0, <1>3
  <2>2. Spells(f, T, k)
    BY <2>1 DEF Spells
  <2> QED
    BY <1>2, <2>2
<1>4. CASE k # 0
  <2>1. k \in Nat /\ k - 1 \in Nat /\ k - 1 \notin N
    BY <1>2, <1>4
  <2>2. PICK f : Spells(f, T, k - 1)
    BY <2>1
  <2> DEFINE D(b) == { d \in DOMAIN T : d < b }
             g == [c \in D(k) |-> IF c = k - 1 THEN Link(T, f, c) ELSE f[c]]
  <2>3. ASSUME NEW c \in D(k) PROVE g[c] = Link(T, g, c)
    <3>1. c \in DOMAIN T /\ c \in Nat /\ c <= k - 1
      BY <1>0, <2>1
    <3>2. g[c] = Link(T, f, c)
      <4>1. CASE c = k - 1
        BY <4>1
      <4>2. CASE c # k - 1
        <5>1. c \in D(k - 1) /\ g[c] = f[c]
          BY <2>1, <3>1, <4>2
        <5> HIDE DEF g
        <5> QED
          BY <2>2, <5>1 DEF Spells
      <4> QED
        BY <4>1, <4>2
    <3>3. CASE T[c].prefix < 0
      BY <3>2, <3>3 DEF Link
    <3>4. CASE ~(T[c].prefix < 0)
      <4>1. T[c].prefix \in DOMAIN T /\ T[c].prefix \in Nat /\ T[c].prefix < c
        BY <1>0, <3>1, <3>4 DEF Grounded
      <4>2. T[c].prefix \in D(k) /\ T[c].prefix # k - 1
        BY <2>1, <3>1, <4>1
      <4>3. g[T[c].prefix] = f[T[c].prefix]
        BY <4>2
      <4> HIDE DEF g
      <4> QED
        BY <3>2, <3>4, <4>3 DEF Link
    <3> QED
      BY <3>3, <3>4
  <2>4. g = [c \in D(k) |-> g[c]]
    OBVIOUS
  <2>5. Spells(g, T, k)
    <3> HIDE DEF g
    <3> QED
      BY <2>3, <2>4 DEF Spells
  <2> QED
    BY <1>2, <2>5
<1> QED
  BY <1>3, <1>4

\* The walk from a code, one step of it at a time.
LEMMA ChainIs ==
  ASSUME NEW n \in Nat, NEW T, Grounded(T, n), NEW c \in DOMAIN T
  PROVE  Chain(T, c) = IF T[c].prefix < 0 THEN <<T[c].suffix>>
                       ELSE Append(Chain(T, T[c].prefix), T[c].suffix)
<1> DEFINE Whole(f) == f = [d \in DOMAIN T |-> IF T[d].prefix < 0
                                                THEN <<T[d].suffix>>
                                                ELSE Append(f[T[d].prefix], T[d].suffix)]
<1>1. PICK f : Spells(f, T, n)
  BY SpellsExists
<1>2. { d \in DOMAIN T : d < n } = DOMAIN T
  <2>1. \A d \in DOMAIN T : d < n
    BY DEF Grounded
  <2> QED
    BY <2>1
<1>3. Whole(f)
  BY <1>1, <1>2 DEF Spells, Link
<1> DEFINE g == CHOOSE l : Whole(l)
<1>4. Whole(g)
  <2> HIDE DEF Whole
  <2> QED
    BY <1>3
<1>5. \A d \in DOMAIN T : Chain(T, d) = g[d]
  BY DEF Chain
<1>6. g[c] = IF T[c].prefix < 0 THEN <<T[c].suffix>> ELSE Append(g[T[c].prefix], T[c].suffix)
  <2> HIDE DEF g
  <2> QED
    BY <1>4
<1> HIDE DEF g
<1>7. CASE T[c].prefix < 0
  BY <1>5, <1>6, <1>7
<1>8. CASE ~(T[c].prefix < 0)
  <2>1. T[c].prefix \in DOMAIN T
    BY <1>8 DEF Grounded
  <2> QED
    BY <1>5, <1>6, <1>8, <2>1
<1> QED
  BY <1>7, <1>8

\* A string is never empty, and never longer than its code is high.
LEMMA ChainSeq ==
  ASSUME NEW n \in Nat, NEW T, Grounded(T, n), NEW c \in DOMAIN T
  PROVE  Chain(T, c) \in Seq(Nat) /\ Len(Chain(T, c)) \in 1..(c + 1)
<1> DEFINE Good(d) == Chain(T, d) \in Seq(Nat) /\ Len(Chain(T, d)) \in 1..(d + 1)
           N == { d \in DOMAIN T : ~Good(d) }
<1>0. DOMAIN T \subseteq Nat
  BY DEF Grounded
<1>1. SUFFICES ASSUME N # {} PROVE FALSE
  OBVIOUS
<1>2. PICK d \in N : \A j \in N : d <= j
  <2>1. N \in SUBSET Nat
    BY <1>0
  <2> QED
    BY <1>1, <2>1, LeastOf
<1>3. d \in DOMAIN T /\ d \in Nat /\ ~Good(d)
  BY <1>0, <1>2
<1>4. T[d].suffix \in Nat
  BY <1>3 DEF Grounded
<1>5. CASE T[d].prefix < 0
  <2>1. Chain(T, d) = <<T[d].suffix>>
    BY <1>3, <1>5, ChainIs
  <2>2. Chain(T, d) \in Seq(Nat) /\ Len(Chain(T, d)) = 1
    BY <1>4, <2>1
  <2> QED
    BY <1>3, <2>2
<1>6. CASE ~(T[d].prefix < 0)
  <2> DEFINE p == T[d].prefix
  <2>1. p \in DOMAIN T /\ p \in Nat /\ p < d
    BY <1>0, <1>3, <1>6 DEF Grounded
  <2>2. Chain(T, d) = Append(Chain(T, p), T[d].suffix)
    BY <1>3, <1>6, ChainIs
  <2> HIDE DEF p
  <2>3. Good(p)
    <3>1. p \notin N
      BY <1>2, <1>3, <2>1
    <3> QED
      BY <2>1, <3>1
  <2>4. Chain(T, d) \in Seq(Nat) /\ Len(Chain(T, d)) = Len(Chain(T, p)) + 1
    BY <1>4, <2>2, <2>3
  <2> QED
    BY <1>3, <2>1, <2>3, <2>4
<1> QED
  BY <1>5, <1>6

\* Codes whose entries two tables share have the same strings in both.
LEMMA ChainSame ==
  ASSUME NEW n \in Nat, NEW T, Grounded(T, n), NEW U, Grounded(U, n),
         NEW S, S \subseteq DOMAIN T, S \subseteq DOMAIN U,
         \A d \in S : U[d] = T[d] /\ (T[d].prefix < 0 \/ T[d].prefix \in S),
         NEW c \in S
  PROVE  Chain(U, c) = Chain(T, c)
<1> DEFINE N == { d \in S : Chain(U, d) # Chain(T, d) }
<1>0. S \subseteq Nat
  BY DEF Grounded
<1>1. SUFFICES ASSUME N # {} PROVE FALSE
  OBVIOUS
<1>2. PICK d \in N : \A j \in N : d <= j
  <2>1. N \in SUBSET Nat
    BY <1>0
  <2> QED
    BY <1>1, <2>1, LeastOf
<1>3. d \in S /\ d \in DOMAIN T /\ d \in DOMAIN U /\ U[d] = T[d] /\ d \in Nat
  BY <1>0, <1>2
<1>4. /\ Chain(T, d) = IF T[d].prefix < 0 THEN <<T[d].suffix>>
                       ELSE Append(Chain(T, T[d].prefix), T[d].suffix)
      /\ Chain(U, d) = IF T[d].prefix < 0 THEN <<T[d].suffix>>
                       ELSE Append(Chain(U, T[d].prefix), T[d].suffix)
  BY <1>3, ChainIs
<1>5. CASE ~(T[d].prefix < 0)
  <2>1. T[d].prefix \in S /\ T[d].prefix \in Nat /\ T[d].prefix < d
    <3>1. T[d].prefix \in S
      BY <1>3, <1>5
    <3>2. T[d].prefix < d
      BY <1>3, <1>5 DEF Grounded
    <3> QED
      BY <1>0, <3>1, <3>2
  <2>2. T[d].prefix \notin N
    BY <1>2, <1>3, <2>1
  <2> QED
    BY <1>2, <1>4, <1>5, <2>1, <2>2
<1> QED
  BY <1>2, <1>4, <1>5

------------------------------------------------------------------------------
(* Strings, in a running call                                                *)

LEMMA TableGrounded ==
  ASSUME SpellInv, Running
  PROVE  Grounded(table, LZW_MAX_CODE)
  BY DEF SpellInv, Grounded

\* An entry is added.
LEMMA GroundedGrows ==
  ASSUME NEW n \in Nat, NEW T, Grounded(T, n), NEW e \in 0..(n - 1), NEW p \in DOMAIN T, p < e,
         NEW suffix \in Nat,
         NEW U, U = [c \in DOMAIN T \cup {e} |->
                       IF c = e THEN [prefix |-> p, suffix |-> suffix] ELSE T[c]]
  PROVE  Grounded(U, n)
<1>1. DOMAIN U = DOMAIN T \cup {e} /\ DOMAIN T \subseteq 0..(n - 1)
  BY DEF Grounded
<1>2. ASSUME NEW c \in DOMAIN U
      PROVE  /\ U[c].suffix \in Nat
             /\ U[c].prefix \in {-1} \cup { d \in DOMAIN U : d < c }
  <2>1. CASE c = e
    <3>1. U[c].suffix = suffix /\ U[c].prefix = p
      BY <2>1, <1>1
    <3> QED
      BY <2>1, <3>1, <1>1
  <2>2. CASE c # e
    <3>1. c \in DOMAIN T /\ U[c] = T[c]
      BY <2>2, <1>1
    <3>2. T[c].suffix \in Nat /\ T[c].prefix \in {-1} \cup { d \in DOMAIN T : d < c }
      BY <3>1 DEF Grounded
    <3> QED
      BY <1>1, <3>1, <3>2
  <2> QED
    BY <2>1, <2>2
<1> QED
  BY <1>1, <1>2 DEF Grounded

\* The live codes, and those Define adds to.
LEMMA LiveFacts ==
  ASSUME LzwInv, Running
  PROVE  /\ Live \subseteq DOMAIN table /\ Live \subseteq Nat
         /\ \A c \in Live : c < next_code
         /\ \A c \in Live : table[c].prefix < 0 \/ table[c].prefix \in Live
         /\ \A c \in 0..(clear_code - 1) : c \in Live /\ table[c].prefix = -1
         /\ clear_code \in Nat /\ clear_code >= 4 /\ end_code = clear_code + 1
         /\ next_code \in Nat /\ next_code > end_code /\ next_code <= LZW_MAX_CODE
         /\ LZW_MAX_CODE \in Nat
<1>1. /\ clear_code \in Nat /\ clear_code >= 4 /\ end_code = clear_code + 1
      /\ next_code \in Nat /\ next_code > end_code /\ next_code <= LZW_MAX_CODE
      /\ LZW_MAX_CODE \in Nat
  BY CodeSpace DEF end_code
<1>2. Live \subseteq Nat /\ \A c \in Live : c < next_code
  BY <1>1 DEF Live
<1>3. ChainsDescend /\ Running
  BY DEF LzwInv
<1>4. Live \subseteq DOMAIN table
      /\ \A c \in Live : table[c].prefix = -1 \/ table[c].prefix \in Live
  BY <1>3 DEF ChainsDescend
<1>5. \A c \in 0..(clear_code - 1) : c \in Live /\ table[c].prefix = -1
  BY DEF LzwInv, Live
<1> QED
  BY <1>1, <1>2, <1>4, <1>5

LEMMA LiveStrings ==
  ASSUME LzwInv, SpellInv, Running, NEW c \in Live
  PROVE  /\ Expand(c) \in Seq(Nat) /\ Len(Expand(c)) \in 1..LZW_MAX_CODE
         /\ c < clear_code => Expand(c) = <<c>>
<1>1. Grounded(table, LZW_MAX_CODE) /\ c \in DOMAIN table /\ c \in Nat /\ LZW_MAX_CODE \in Nat
      /\ c < LZW_MAX_CODE
  BY TableGrounded, LiveFacts
<1>2. Chain(table, c) \in Seq(Nat) /\ Len(Chain(table, c)) \in 1..(c + 1)
  BY <1>1, ChainSeq
<1>3. ASSUME c < clear_code PROVE Chain(table, c) = <<c>>
  <2>1. c \in 0..(clear_code - 1)
    BY <1>1, <1>3, LiveFacts
  <2>2. table[c].prefix = -1 /\ table[c].suffix = c
    BY <2>1 DEF LzwInv, SpellInv
  <2>3. Chain(table, c) = IF table[c].prefix < 0 THEN <<table[c].suffix>>
                          ELSE Append(Chain(table, table[c].prefix), table[c].suffix)
    BY <1>1, ChainIs
  <2> QED
    BY <2>2, <2>3
<1> QED
  BY <1>1, <1>2, <1>3 DEF Expand

\* Define changes no string that a code has, and gives the next code its own.
LEMMA DefineSpells ==
  ASSUME LzwInv, SpellInv, Running, NEW prefix \in Live, NEW suffix \in Nat,
         Define(prefix, suffix)
  PROVE  /\ Grounded(table', LZW_MAX_CODE)
         /\ \A c \in 0..(clear_code - 1) : table'[c].suffix = c
         /\ \A c \in Live : Chain(table', c) = Chain(table, c)
         /\ next_code < LZW_MAX_CODE =>
              /\ next_code' = next_code + 1
              /\ Chain(table', next_code) = Append(Chain(table, prefix), suffix)
         /\ next_code >= LZW_MAX_CODE => next_code' = next_code
<1>1. /\ Live \subseteq DOMAIN table /\ Live \subseteq Nat /\ \A c \in Live : c < next_code
      /\ \A c \in Live : table[c].prefix < 0 \/ table[c].prefix \in Live
      /\ \A c \in 0..(clear_code - 1) : c \in Live
      /\ next_code \in Nat /\ next_code <= LZW_MAX_CODE /\ LZW_MAX_CODE \in Nat
  BY LiveFacts
<1>2. Grounded(table, LZW_MAX_CODE) /\ \A c \in 0..(clear_code - 1) : table[c].suffix = c
  BY TableGrounded DEF SpellInv
<1>3. CASE next_code >= LZW_MAX_CODE
  <2>1. table' = table /\ next_code' = next_code
    BY <1>1, <1>3 DEF Define, tableVars
  <2>2. /\ Grounded(table', LZW_MAX_CODE)
        /\ \A c \in 0..(clear_code - 1) : table'[c].suffix = c
        /\ \A c \in Live : Chain(table', c) = Chain(table, c)
    BY <1>2, <2>1, Zenon
  <2>3. ~(next_code < LZW_MAX_CODE)
    BY <1>1, <1>3
  <2>4. next_code < LZW_MAX_CODE =>
              /\ next_code' = next_code + 1
              /\ Chain(table', next_code) = Append(Chain(table, prefix), suffix)
    BY <2>3
  <2>5. next_code >= LZW_MAX_CODE => next_code' = next_code
    BY <2>1
  <2> QED
    BY <2>2, <2>4, <2>5
<1>4. CASE next_code < LZW_MAX_CODE
  <2>1. /\ table' = [c \in DOMAIN table \cup {next_code} |->
                       IF c = next_code THEN [prefix |-> prefix, suffix |-> suffix]
                                        ELSE table[c]]
        /\ next_code' = next_code + 1
    BY <1>4 DEF Define
  <2>2. next_code \in 0..(LZW_MAX_CODE - 1) /\ prefix \in DOMAIN table /\ prefix < next_code
        /\ prefix \in Nat
    BY <1>1, <1>4
  <2>3. Grounded(table', LZW_MAX_CODE)
    BY <1>1, <1>2, <2>1, <2>2, GroundedGrows
  <2>4. \A c \in Live : c # next_code /\ c \in DOMAIN table' /\ table'[c] = table[c]
    BY <1>1, <2>1
  <2>5. ASSUME NEW c \in Live PROVE Chain(table', c) = Chain(table, c)
    <3>1. Live \subseteq DOMAIN table'
      BY <2>4
    <3>2. \A d \in Live : table'[d] = table[d]
                          /\ (table[d].prefix < 0 \/ table[d].prefix \in Live)
      BY <1>1, <2>4
    <3> QED
      BY <1>1, <1>2, <2>3, <3>1, <3>2, ChainSame
  <2>6. Chain(table', next_code) = Append(Chain(table, prefix), suffix)
    <3>1. next_code \in DOMAIN table' /\ table'[next_code].prefix = prefix
          /\ table'[next_code].suffix = suffix
      BY <2>1
    <3>2. Chain(table', next_code) =
            IF table'[next_code].prefix < 0 THEN <<table'[next_code].suffix>>
            ELSE Append(Chain(table', table'[next_code].prefix), table'[next_code].suffix)
      BY <1>1, <2>3, <3>1, ChainIs
    <3>3. ~(prefix < 0) /\ Chain(table', prefix) = Chain(table, prefix)
      BY <2>2, <2>5
    <3> QED
      BY <3>1, <3>2, <3>3
  <2>7. \A c \in 0..(clear_code - 1) : table'[c].suffix = c
    BY <1>1, <1>2, <2>4
  <2>8. next_code < LZW_MAX_CODE =>
              /\ next_code' = next_code + 1
              /\ Chain(table', next_code) = Append(Chain(table, prefix), suffix)
    BY <2>1, <2>6, Zenon
  <2>9. ~(next_code >= LZW_MAX_CODE)
    BY <1>1, <1>4
  <2>10. \A c \in Live : Chain(table', c) = Chain(table, c)
    BY <2>5, Zenon
  <2> QED
    BY <2>3, <2>7, <2>8, <2>9, <2>10
<1> QED
  BY <1>1, <1>3, <1>4

\* The bits of a call.
LEMMA BitFacts ==
  ASSUME LzwInv, SpellInv, Running
  PROVE  /\ bitbuf \in Nat /\ bitcount \in Nat /\ bitbuf < 2 ^ bitcount
         /\ bitcount < MAX_CODE_BITS + BYTE_BITS /\ bitcount \in 0..Top
         /\ code_size \in Nat /\ code_size >= 1 /\ code_size <= MAX_CODE_BITS /\ code_size \in 0..Top
<1>1. /\ bitbuf \in Nat /\ bitcount \in Nat /\ bitbuf < 2 ^ bitcount
      /\ bitcount < MAX_CODE_BITS + BYTE_BITS
  BY DEF LzwInv, SpellInv
<1>2. code_size \in (min_code_size + 1)..MAX_CODE_BITS /\ min_code_size \in 2..8
  BY DEF LzwInv, WidthFits
<1> QED
  BY <1>1, <1>2 DEF Top

\* A code takes the bits that it is spelled with, and leaves the others.
LEMMA CodeTakesBits ==
  ASSUME LzwInv, SpellInv, ReadCode
  PROVE  /\ Bits(bitbuf', bitcount') = SubSeq(Bits(bitbuf, bitcount), code_size + 1, bitcount)
         /\ bitbuf' < 2 ^ bitcount' /\ bitcount' < MAX_CODE_BITS + BYTE_BITS
<1>1. Running /\ bitbuf' = bitbuf \div 2 ^ code_size /\ bitcount' = bitcount - code_size
      /\ bitcount >= code_size
  BY DEF ReadCode
<1>2. /\ bitbuf \in Nat /\ bitcount \in Nat /\ bitbuf < 2 ^ bitcount
      /\ bitcount < MAX_CODE_BITS + BYTE_BITS /\ bitcount \in 0..Top
      /\ code_size \in Nat /\ code_size \in 0..Top
  BY <1>1, BitFacts
<1>3. /\ SubSeq(Bits(bitbuf, bitcount), code_size + 1, bitcount)
           = Bits(bitbuf \div 2 ^ code_size, bitcount - code_size)
      /\ bitbuf < 2 ^ bitcount => bitbuf \div 2 ^ code_size < 2 ^ (bitcount - code_size)
  <2>1. code_size <= bitcount
    BY <1>1, <1>2
  <2> QED
    BY <1>2, <2>1, BitsTaken
<1> QED
  BY <1>1, <1>2, <1>3

\* What a running call writes is whole pixels, and none too many.
LEMMA EmitWrites ==
  ASSUME SpellInv, Running, Running', UNCHANGED argVars, NEW s \in Seq(Nat), Emit(s)
  PROVE  out' = out \o s /\ out' \in Seq(Nat) /\ Len(out') <= out_len
<1>1. out \in Seq(Nat) /\ out_len \in Nat
  BY DEF SpellInv
<1>2. Len(s) <= out_len - Len(out) /\ out' = out \o s
  BY DEF Emit, Running
<1>3. out \o s \in Seq(Nat) /\ Len(out \o s) = Len(out) + Len(s)
  BY <1>1, ConcatProperties
<1>4. Len(out) \in Nat /\ Len(s) \in Nat
  BY <1>1
<1> QED
  BY <1>1, <1>2, <1>3, <1>4

LEMMA SpellInvInit == Init => SpellInv
<1> SUFFICES ASSUME Init PROVE SpellInv
  OBVIOUS
<1>1. out_len \in Nat /\ in_len \in Nat /\ pos \in 0..in_len
  BY DEF Init
<1>2. SUFFICES ASSUME Running
               PROVE  /\ bitcount < MAX_CODE_BITS + BYTE_BITS /\ bitbuf < 2 ^ bitcount
                      /\ Grounded(table, LZW_MAX_CODE)
                      /\ \A c \in 0..(clear_code - 1) : table[c].suffix = c
                      /\ out \in Seq(Nat) /\ Len(out) <= out_len
  BY <1>1 DEF SpellInv, Grounded
<1>3. min_code_size \in 2..8 /\ min_code_size < MAX_CODE_BITS
  BY <1>2 DEF Init, Running
<1>4. bitcount < MAX_CODE_BITS + BYTE_BITS /\ bitbuf < 2 ^ bitcount
  <2>1. bitcount = 0 /\ bitbuf = 0 /\ 2 ^ 0 = 1
    BY PowersAssumption DEF Init
  <2> QED
    BY <2>1
<1>5. clear_code \in Nat /\ LZW_MAX_CODE \in Nat /\ clear_code <= LZW_MAX_CODE
  <2> DEFINE x == 2 ^ min_code_size
             z == 2 ^ (min_code_size + 1)
  <2>1. x \in Nat /\ z \in Nat /\ LZW_MAX_CODE \in Nat /\ x + 2 < z /\ z <= LZW_MAX_CODE
    BY <1>3, FirstWidth
  <2> HIDE DEF x, z
  <2>2. x <= LZW_MAX_CODE
    BY <2>1
  <2> QED
    BY <2>1, <2>2 DEF x, clear_code
<1>6. table = [c \in 0..(clear_code - 1) |-> [prefix |-> -1, suffix |-> c]]
  BY DEF Init
<1>7. Grounded(table, LZW_MAX_CODE) /\ \A c \in 0..(clear_code - 1) : table[c].suffix = c
  <2> HIDE DEF clear_code, LZW_MAX_CODE
  <2> QED
    BY <1>5, <1>6 DEF Grounded
<1>8. out \in Seq(Nat) /\ Len(out) <= out_len
  <2>1. out = <<>>
    BY DEF Init
  <2> QED
    BY <1>1, <2>1
<1> QED
  BY <1>4, <1>7, <1>8

\* What is left of the table's and the pixels' part of the invariant.
LEMMA SpellKept ==
  ASSUME SpellInv, UNCHANGED argVars, pos' \in 0..in_len,
         bitcount' < MAX_CODE_BITS + BYTE_BITS, bitbuf' < 2 ^ bitcount',
         Grounded(table', LZW_MAX_CODE),
         \A c \in 0..(clear_code - 1) : table'[c].suffix = c,
         out' \in Seq(Nat), Len(out') <= out_len
  PROVE  SpellInv'
  BY DEF SpellInv, Grounded, argVars, clear_code, LZW_MAX_CODE

\* A code that has a string, and the one that is about to have one.
LEMMA KnownFacts ==
  ASSUME LzwInv, SpellInv, KnownCode
  PROVE  /\ Running /\ Code \in Live /\ UNCHANGED argVars
         /\ Expand(Code) \in Seq(Nat) /\ Expand(Code) # <<>> /\ Head(Expand(Code)) \in Nat
         /\ prev_code >= 0 => prev_code \in Live /\ Define(prev_code, Head(Expand(Code)))
         /\ ~(prev_code >= 0) => UNCHANGED tableVars
         /\ Emit(Expand(Code))
         /\ prev_code' = IF result' = "failed" THEN prev_code ELSE Code
<1>1. Running /\ UNCHANGED argVars /\ StringCode /\ Code < next_code
  BY DEF KnownCode, ReadCode
<1>2. Code \in Live
  BY <1>1, LiveCode
<1>3. Expand(Code) \in Seq(Nat) /\ Len(Expand(Code)) \in 1..LZW_MAX_CODE
  BY <1>1, <1>2, LiveStrings
<1>4. ~(Len(Expand(Code)) > LZW_MAX_CODE) /\ Expand(Code) # <<>> /\ Head(Expand(Code)) \in Nat
  <2> DEFINE s == Expand(Code)
  <2>1. s \in Seq(Nat) /\ Len(s) \in 1..LZW_MAX_CODE /\ LZW_MAX_CODE \in Nat
    BY <1>1, <1>3, LiveFacts
  <2> HIDE DEF s
  <2>2. ~(Len(s) > LZW_MAX_CODE) /\ s # <<>> /\ Head(s) \in Nat
    BY <2>1
  <2> QED
    BY <2>2 DEF s
<1>5. /\ IF prev_code >= 0 THEN Define(prev_code, Head(Expand(Code))) ELSE UNCHANGED tableVars
      /\ Emit(Expand(Code))
      /\ prev_code' = IF result' = "failed" THEN prev_code ELSE Code
  BY <1>4 DEF KnownCode
<1>6. prev_code >= 0 => prev_code \in Live
  BY <1>1 DEF LzwInv, ChainsDescend
<1> QED
  BY <1>1, <1>2, <1>3, <1>4, <1>5, <1>6

LEMMA NextFacts ==
  ASSUME LzwInv, SpellInv, NextCode
  PROVE  /\ Running /\ Code = next_code /\ UNCHANGED argVars
         /\ prev_code >= 0 /\ prev_code \in Live /\ next_code < LZW_MAX_CODE
         /\ Expand(prev_code) \in Seq(Nat) /\ Expand(prev_code) # <<>>
         /\ Head(Expand(prev_code)) \in Nat
         /\ Append(Expand(prev_code), Head(Expand(prev_code))) \in Seq(Nat)
         /\ Head(Append(Expand(prev_code), Head(Expand(prev_code)))) = Head(Expand(prev_code))
         /\ Define(prev_code, Head(Expand(prev_code)))
         /\ Emit(Append(Expand(prev_code), Head(Expand(prev_code))))
         /\ prev_code' = IF result' = "failed" THEN prev_code ELSE Code
<1>1. Running /\ UNCHANGED argVars /\ Code = next_code /\ prev_code >= 0
  BY DEF NextCode, ReadCode
<1>2. prev_code \in Live
  BY <1>1 DEF LzwInv, ChainsDescend
<1>3. Expand(prev_code) \in Seq(Nat) /\ Len(Expand(prev_code)) \in 1..LZW_MAX_CODE
  BY <1>1, <1>2, LiveStrings
<1>4. /\ ~(Len(Expand(prev_code)) > LZW_MAX_CODE) /\ Expand(prev_code) # <<>>
      /\ Head(Expand(prev_code)) \in Nat
      /\ Append(Expand(prev_code), Head(Expand(prev_code))) \in Seq(Nat)
      /\ Head(Append(Expand(prev_code), Head(Expand(prev_code)))) = Head(Expand(prev_code))
  <2> DEFINE s == Expand(prev_code)
  <2>1. s \in Seq(Nat) /\ Len(s) \in 1..LZW_MAX_CODE /\ LZW_MAX_CODE \in Nat
    BY <1>1, <1>3, LiveFacts
  <2> HIDE DEF s
  <2>2. ~(Len(s) > LZW_MAX_CODE) /\ s # <<>> /\ Head(s) \in Nat
    BY <2>1
  <2>3. Append(s, Head(s)) \in Seq(Nat) /\ Head(Append(s, Head(s))) = Head(s)
    BY <2>1, <2>2
  <2> QED
    BY <2>2, <2>3 DEF s
<1>5. /\ Define(prev_code, Head(Expand(prev_code)))
      /\ Emit(Append(Expand(prev_code), Head(Expand(prev_code))))
      /\ prev_code' = IF result' = "failed" THEN prev_code ELSE Code
  BY <1>4 DEF NextCode
<1>6. next_code < LZW_MAX_CODE
  <2>1. next_code \in Nat /\ next_code < 2 ^ code_size
    BY <1>1, CodeRange
  <2>2. 2 ^ code_size \in Nat /\ 2 ^ code_size <= LZW_MAX_CODE /\ LZW_MAX_CODE \in Nat
    BY <1>1, WidthPower DEF LzwInv, WidthFits
  <2> QED
    BY <2>1, <2>2
<1> QED
  BY <1>1, <1>2, <1>3, <1>4, <1>5, <1>6, Zenon

\* A byte is added above the bits.
LEMMA RefillSpells ==
  ASSUME LzwInv, SpellInv, NEW byte \in 0..(2 ^ BYTE_BITS - 1), Refill(byte)
  PROVE  /\ Bits(bitbuf', bitcount') = Bits(bitbuf, bitcount) \o Bits(byte, BYTE_BITS)
         /\ Bits(byte, BYTE_BITS) \in [1..BYTE_BITS -> 0..1]
         /\ bitcount' < MAX_CODE_BITS + BYTE_BITS /\ bitbuf' < 2 ^ bitcount'
         /\ pos' = pos + 1 /\ pos < in_len /\ pos' \in 0..in_len
<1>1. /\ Running /\ bitcount < code_size /\ pos < in_len
      /\ bitbuf' = bitbuf + byte * 2 ^ bitcount
      /\ bitcount' = bitcount + BYTE_BITS /\ pos' = pos + 1
  BY DEF Refill
<1>2. /\ bitbuf \in Nat /\ bitcount \in Nat /\ bitbuf < 2 ^ bitcount
      /\ code_size \in Nat /\ code_size <= MAX_CODE_BITS
  BY <1>1, BitFacts
<1>3. bitcount + BYTE_BITS < MAX_CODE_BITS + BYTE_BITS /\ bitcount + BYTE_BITS <= Top
  BY <1>1, <1>2 DEF Top
<1>4. /\ Bits(bitbuf + byte * 2 ^ bitcount, bitcount + BYTE_BITS)
           = Bits(bitbuf, bitcount) \o Bits(byte, BYTE_BITS)
      /\ Bits(byte, BYTE_BITS) \in [1..BYTE_BITS -> 0..1]
      /\ bitbuf + byte * 2 ^ bitcount < 2 ^ (bitcount + BYTE_BITS)
  BY <1>2, <1>3, BitsArrive
<1>5. pos \in Nat /\ in_len \in Nat
  BY DEF SpellInv
<1>6. pos' = pos + 1 /\ pos < in_len /\ pos' \in 0..in_len
  BY <1>1, <1>5
<1> QED
  BY <1>1, <1>3, <1>4, <1>6

LEMMA SpellInvStep == LzwInv /\ SpellInv /\ [Next]_vars => SpellInv'
<1> SUFFICES ASSUME LzwInv, SpellInv, [Next]_vars PROVE SpellInv'
  OBVIOUS
<1>1. ASSUME Running
      PROVE  /\ Grounded(table, LZW_MAX_CODE) /\ out \in Seq(Nat) /\ Len(out) <= out_len
             /\ \A c \in 0..(clear_code - 1) : table[c].suffix = c
  BY <1>1, TableGrounded DEF SpellInv
<1>0. pos \in 0..in_len
  BY DEF SpellInv
<1>2. ASSUME NEW byte \in 0..(2 ^ BYTE_BITS - 1), Refill(byte) PROVE SpellInv'
  <2>1. Running /\ UNCHANGED argVars /\ table' = table /\ out' = out
    BY <1>2 DEF Refill, tableVars
  <2>2. pos' \in 0..in_len /\ bitcount' < MAX_CODE_BITS + BYTE_BITS /\ bitbuf' < 2 ^ bitcount'
    BY <1>2, RefillSpells
  <2>3. /\ Grounded(table', LZW_MAX_CODE) /\ out' \in Seq(Nat) /\ Len(out') <= out_len
        /\ \A c \in 0..(clear_code - 1) : table'[c].suffix = c
    BY <1>1, <2>1, Zenon
  <2>4. pos' \in 0..in_len
    BY <1>0, <2>1, <2>2
  <2> QED
    BY <2>1, <2>2, <2>3, <2>4, SpellKept
<1>3. CASE ClearCode
  <2>1. Running /\ UNCHANGED argVars /\ table' = table /\ out' = out /\ pos' = pos /\ ReadCode
    BY <1>3 DEF ClearCode, ReadCode
  <2>2. bitcount' < MAX_CODE_BITS + BYTE_BITS /\ bitbuf' < 2 ^ bitcount'
    BY <2>1, CodeTakesBits
  <2>3. /\ Grounded(table', LZW_MAX_CODE) /\ out' \in Seq(Nat) /\ Len(out') <= out_len
        /\ \A c \in 0..(clear_code - 1) : table'[c].suffix = c
    BY <1>1, <2>1, Zenon
  <2>4. pos' \in 0..in_len
    BY <1>0, <2>1, <2>2
  <2> QED
    BY <2>1, <2>2, <2>3, <2>4, SpellKept
<1>4. CASE ~Running' /\ UNCHANGED <<argVars, pos>>
  BY <1>4 DEF SpellInv, argVars
<1>5. CASE KnownCode
  <2>0. ReadCode /\ UNCHANGED <<argVars, pos>>
    BY <1>5 DEF KnownCode, ReadCode
  <2>1. SUFFICES ASSUME Running' PROVE SpellInv'
    BY <1>4, <2>0
  <2>2. bitcount' < MAX_CODE_BITS + BYTE_BITS /\ bitbuf' < 2 ^ bitcount'
    BY <2>0, CodeTakesBits
  <2>3. out' \in Seq(Nat) /\ Len(out') <= out_len
    BY <1>5, <2>1, KnownFacts, EmitWrites
  <2>4. /\ Grounded(table', LZW_MAX_CODE)
        /\ \A c \in 0..(clear_code - 1) : table'[c].suffix = c
    <3>1. CASE prev_code >= 0
      BY <1>5, <3>1, KnownFacts, DefineSpells
    <3>2. CASE ~(prev_code >= 0)
      <4>1. table' = table /\ Running
        BY <1>5, <3>2, KnownFacts DEF tableVars
      <4> QED
        BY <1>0, <1>1, <4>1
    <3> QED
      BY <3>1, <3>2
  <2> QED
    BY <1>0, <2>0, <2>2, <2>3, <2>4, SpellKept
<1>6. CASE NextCode
  <2>0. ReadCode /\ UNCHANGED <<argVars, pos>>
    BY <1>6 DEF NextCode, ReadCode
  <2>1. SUFFICES ASSUME Running' PROVE SpellInv'
    BY <1>4, <2>0
  <2>2. bitcount' < MAX_CODE_BITS + BYTE_BITS /\ bitbuf' < 2 ^ bitcount'
    BY <2>0, CodeTakesBits
  <2>3. out' \in Seq(Nat) /\ Len(out') <= out_len
    BY <1>6, <2>1, NextFacts, EmitWrites
  <2>4. /\ Grounded(table', LZW_MAX_CODE)
        /\ \A c \in 0..(clear_code - 1) : table'[c].suffix = c
    BY <1>6, NextFacts, DefineSpells
  <2> QED
    BY <1>0, <2>0, <2>2, <2>3, <2>4, SpellKept
<1>7. CASE Exhausted \/ EndCode \/ UndefinedCode
  <2>1. ~Running' /\ UNCHANGED <<argVars, pos>>
    BY <1>7 DEF Exhausted, EndCode, UndefinedCode, Corrupt, ReadCode, Running, bitVars
  <2> QED
    BY <1>4, <2>1
<1>8. CASE UNCHANGED vars
  BY <1>8 DEF vars, argVars, bitVars, tableVars, SpellInv, Running, clear_code, LZW_MAX_CODE
<1> QED
  BY <1>2, <1>3, <1>5, <1>6, <1>7, <1>8 DEF Next

------------------------------------------------------------------------------
(* The decoder is LZW                                                        *)

\* The dictionary, and the string of the previous code.
Dictionary == IF Running THEN Strings(table, end_code, next_code) ELSE <<>>
Previous == IF Running /\ prev_code >= 0 THEN Expand(prev_code) ELSE <<>>

LEMMA StringsAre ==
  ASSUME NEW T, NEW e \in Nat, NEW n \in Nat, n > e
  PROVE  /\ Len(Strings(T, e, n)) = n - e - 1
         /\ \E S : Strings(T, e, n) \in Seq(S)
         /\ \A i \in 1..(n - e - 1) : Strings(T, e, n)[i] = Chain(T, e + i)
<1>1. n - e - 1 \in Nat
  OBVIOUS
<1>2. /\ \E S : [i \in 1..(n - e - 1) |-> Chain(T, e + i)] \in Seq(S)
      /\ Len([i \in 1..(n - e - 1) |-> Chain(T, e + i)]) = n - e - 1
  <2> DEFINE f == [i \in 1..(n - e - 1) |-> Chain(T, e + i)]
  <2>1. f = [i \in 1..(n - e - 1) |-> f[i]]
    OBVIOUS
  <2>2. /\ \E S : [i \in 1..(n - e - 1) |-> f[i]] \in Seq(S)
        /\ Len([i \in 1..(n - e - 1) |-> f[i]]) = n - e - 1
    <3> HIDE DEF f
    <3> QED
      BY <1>1, SeqIs
  <2> QED
    BY <2>1, <2>2
<1> QED
  BY <1>2 DEF Strings

\* Two tables in which some codes have the same strings.
SameStrings(T, U, S) == \A c \in S : Chain(U, c) = Chain(T, c)

LEMMA StringsStay ==
  ASSUME NEW T, NEW U, NEW e \in Nat, NEW n \in Nat, n > e,
         SameStrings(T, U, (e + 1)..(n - 1))
  PROVE  Strings(U, e, n) = Strings(T, e, n)
<1>1. ASSUME NEW i \in 1..(n - e - 1) PROVE Chain(U, e + i) = Chain(T, e + i)
  <2>1. e + i \in (e + 1)..(n - 1)
    OBVIOUS
  <2> QED
    BY <2>1 DEF SameStrings
<1> QED
  BY <1>1 DEF Strings

\* One string more.
OneMore(T, U, e, n) == Strings(U, e, n + 1) = Append(Strings(T, e, n), Chain(U, n))

LEMMA StringsGrow ==
  ASSUME NEW T, NEW U, NEW e \in Nat, NEW n \in Nat, n > e,
         SameStrings(T, U, (e + 1)..(n - 1))
  PROVE  OneMore(T, U, e, n)
<1> DEFINE k == n - e - 1
           g == [i \in 1..(k + 1) |-> Chain(U, e + i)]
<1>1. k \in Nat /\ (n + 1) - e - 1 = k + 1 /\ e + (k + 1) = n
  OBVIOUS
<1>2. ASSUME NEW i \in 1..k PROVE Chain(U, e + i) = Chain(T, e + i)
  <2>1. e + i \in (e + 1)..(n - 1)
    OBVIOUS
  <2> QED
    BY <2>1 DEF SameStrings
<1>3. Strings(T, e, n) = [i \in 1..k |-> Strings(T, e, n)[i]]
      /\ \A i \in 1..k : Strings(T, e, n)[i] = Chain(T, e + i)
  BY DEF Strings
<1>5. g[k + 1] = Chain(U, n) /\ \A i \in 1..k : g[i] = Strings(T, e, n)[i]
  <2> HIDE DEF k
  <2>1. k + 1 \in 1..(k + 1) /\ \A i \in 1..k : i \in 1..(k + 1)
    BY <1>1
  <2> QED
    BY <1>1, <1>2, <1>3, <2>1
<1>6. Strings(U, e, n + 1) = g
  BY <1>1 DEF Strings
<1>7. g = [i \in 1..(k + 1) |-> g[i]]
  OBVIOUS
<1> HIDE DEF k, g
<1>8. Append(Strings(T, e, n), g[k + 1]) = [i \in 1..(k + 1) |-> g[i]]
  <2> DEFINE s == Strings(T, e, n)
  <2>1. s = [i \in 1..k |-> s[i]] /\ \A i \in 1..k : g[i] = s[i]
    BY <1>3, <1>5
  <2> HIDE DEF s
  <2>2. Append(s, g[k + 1]) = [i \in 1..(k + 1) |-> g[i]]
    BY <1>1, <2>1, SeqAppended, SMTT(30)
  <2> QED
    BY <2>2 DEF s
<1> QED
  BY <1>5, <1>6, <1>7, <1>8 DEF OneMore

LEMMA DictionaryIs ==
  ASSUME LzwInv, SpellInv, Running
  PROVE  /\ Len(Dictionary) = next_code - end_code - 1
         /\ \A i \in 1..Len(Dictionary) : Dictionary[i] = Expand(end_code + i)
         /\ Reference!Clear = clear_code /\ Reference!End = end_code
         /\ \A i : Reference!Entry(i) = end_code + i
         /\ Reference!Entry(Len(Dictionary) + 1) = next_code
<1>1. end_code \in Nat /\ next_code \in Nat /\ next_code > end_code
  BY LiveFacts
<1>2. Dictionary = Strings(table, end_code, next_code)
  BY DEF Dictionary
<1>3. Len(Dictionary) = next_code - end_code - 1
  BY <1>1, <1>2, StringsAre
<1>4. \A i \in 1..Len(Dictionary) : Dictionary[i] = Expand(end_code + i)
  <2>1. \A i \in 1..(next_code - end_code - 1) :
           Strings(table, end_code, next_code)[i] = Chain(table, end_code + i)
    BY <1>1, StringsAre
  <2> QED
    BY <1>2, <1>3, <2>1 DEF Expand
<1>5. /\ Reference!Clear = clear_code /\ Reference!End = end_code
      /\ \A i : Reference!Entry(i) = end_code + i
  BY DEF Reference!Clear, Reference!End, Reference!Entry, clear_code, end_code
<1>6. end_code + (Len(Dictionary) + 1) = next_code
  BY <1>1, <1>3
<1> QED
  BY <1>3, <1>4, <1>5, <1>6

LEMMA PreviousIs ==
  ASSUME LzwInv, SpellInv, Running
  PROVE  IF prev_code >= 0 THEN Previous = Expand(prev_code) /\ Previous # <<>> ELSE Previous = <<>>
<1>1. CASE prev_code >= 0
  <2>1. prev_code \in Live
    BY <1>1 DEF LzwInv, ChainsDescend
  <2>2. Expand(prev_code) \in Seq(Nat) /\ Len(Expand(prev_code)) \in 1..LZW_MAX_CODE
    BY <2>1, LiveStrings
  <2>3. Expand(prev_code) # <<>>
    BY <2>2
  <2> QED
    BY <1>1, <2>3 DEF Previous
<1>2. CASE ~(prev_code >= 0)
  BY <1>2 DEF Previous
<1> QED
  BY <1>1, <1>2

LeastOr(F, d) == IF F = {} THEN d ELSE CHOOSE v \in F : \A u \in F : v <= u

\* The width is the least that can name the next entry.
LEMMA WidthIs ==
  ASSUME LzwInv, SpellInv, Running
  PROVE  Reference!CodeWidth = code_size
<1> DEFINE fits == { v \in (min_code_size + 1)..MAX_CODE_BITS : next_code < 2 ^ v }
<1>1. Reference!CodeWidth = LeastOr(fits, MAX_CODE_BITS)
  <2> DEFINE F == { v \in (min_code_size + 1)..MAX_CODE_BITS :
                      Reference!Entry(Len(Dictionary) + 1) < 2 ^ v }
  <2>1. Reference!CodeWidth = LeastOr(F, MAX_CODE_BITS)
    BY DEF Reference!CodeWidth, Dictionary, LeastOr
  <2>2. F = fits
    BY DictionaryIs, Zenon
  <2> HIDE DEF F, fits
  <2> QED
    BY <2>1, <2>2
<1>2. /\ code_size \in (min_code_size + 1)..MAX_CODE_BITS
      /\ next_code <= 2 ^ code_size
      /\ next_code = 2 ^ code_size => code_size = MAX_CODE_BITS
      /\ code_size > min_code_size + 1 => next_code >= 2 ^ (code_size - 1)
  BY DEF LzwInv, WidthFits
<1>3. min_code_size \in 2..8 /\ next_code \in Nat
  BY LiveFacts DEF LzwInv
<1>4. \A v \in 1..MAX_CODE_BITS : 2 ^ v \in Nat /\ \A u \in 1..(v - 1) : 2 ^ u <= 2 ^ v
  <2>1. ASSUME NEW v \in 1..MAX_CODE_BITS, NEW u \in 1..(v - 1)
        PROVE  2 ^ u <= 2 ^ v
    <3>1. 2 ^ v \in Nat /\ 2 ^ u \in Nat /\ 2 * 2 ^ u <= 2 ^ v
      <4>1. v \in 0..MAX_CODE_BITS /\ u \in 0..(v - 1)
        OBVIOUS
      <4> QED
        BY <4>1, Powers
    <3> DEFINE x == 2 ^ u
               z == 2 ^ v
    <3> HIDE DEF x, z
    <3>2. x \in Nat /\ z \in Nat /\ 2 * x <= z
      BY <3>1 DEF x, z
    <3>3. x <= z
      BY <3>2
    <3> QED
      BY <3>3 DEF x, z
  <2>2. ASSUME NEW v \in 1..MAX_CODE_BITS PROVE 2 ^ v \in Nat
    BY WidthPower
  <2> QED
    BY <2>1, <2>2
<1>5. CASE next_code = 2 ^ code_size
  <2>1. code_size = MAX_CODE_BITS
    BY <1>2, <1>5
  <2>2. ASSUME NEW v \in (min_code_size + 1)..MAX_CODE_BITS PROVE ~(next_code < 2 ^ v)
    <3>1. v \in 1..MAX_CODE_BITS /\ code_size \in 1..MAX_CODE_BITS
          /\ (v = code_size \/ v \in 1..(code_size - 1))
      BY <1>2, <1>3, <2>1
    <3>2. 2 ^ v <= 2 ^ code_size /\ 2 ^ v \in Nat
      BY <1>4, <3>1
    <3> QED
      BY <1>3, <1>5, <3>2
  <2>3. fits = {}
    BY <2>2
  <2> QED
    BY <1>1, <2>1, <2>3 DEF LeastOr
<1>6. CASE next_code # 2 ^ code_size
  <2>1. code_size \in fits
    <3>1. 2 ^ code_size \in Nat
      BY <1>2, <1>3, <1>4
    <3> QED
      BY <1>2, <1>3, <1>6, <3>1
  <2>2. ASSUME NEW v \in fits PROVE code_size <= v
    <3>1. v \in (min_code_size + 1)..MAX_CODE_BITS /\ next_code < 2 ^ v
      OBVIOUS
    <3> HIDE DEF fits
    <3>2. SUFFICES ASSUME v < code_size PROVE FALSE
      BY <1>2, <3>1
    <3>3. code_size > min_code_size + 1 /\ code_size - 1 \in 1..MAX_CODE_BITS
          /\ (v = code_size - 1 \/ v \in 1..((code_size - 1) - 1))
      BY <1>2, <1>3, <3>1, <3>2
    <3>4. 2 ^ v <= 2 ^ (code_size - 1) /\ 2 ^ v \in Nat /\ 2 ^ (code_size - 1) \in Nat
      <4>1. v \in 1..MAX_CODE_BITS
        BY <1>3, <3>1
      <4> QED
        BY <1>4, <3>3, <4>1
    <3>5. next_code >= 2 ^ (code_size - 1)
      BY <1>2, <3>3
    <3> QED
      BY <1>3, <3>1, <3>4, <3>5
  <2>3. \A v \in fits : v \in Int
    BY <1>3
  <2> HIDE DEF fits
  <2>4. (CHOOSE v \in fits : \A u \in fits : v <= u) = code_size
    <3> DEFINE l == CHOOSE v \in fits : \A u \in fits : v <= u
    <3>1. l \in fits /\ \A u \in fits : l <= u
      BY <2>1, <2>2
    <3> HIDE DEF l
    <3>2. l = code_size
      BY <2>1, <2>2, <2>3, <3>1
    <3> QED
      BY <3>2 DEF l
  <2>5. fits # {}
    BY <2>1
  <2> QED
    BY <1>1, <2>4, <2>5 DEF LeastOr
<1> QED
  BY <1>5, <1>6

\* The code that is read is the number its bits spell.
LEMMA CodeIs ==
  ASSUME LzwInv, SpellInv, Running, bitcount >= code_size
  PROVE  Reference!NextCode = Code
<1>1. /\ bitbuf \in Nat /\ bitcount \in 0..Top /\ code_size \in Nat /\ code_size \in 0..Top
  BY BitFacts
<1>2. SubSeq(Bits(bitbuf, bitcount), 1, code_size) = Bits(bitbuf, code_size)
  BY <1>1, BitsTaken
<1>3. /\ Len(Bits(bitbuf, code_size)) = code_size
      /\ \A k \in 1..code_size : Bits(bitbuf, code_size)[k] = (bitbuf \div 2 ^ (k - 1)) % 2
  BY <1>1, BitsAre
<1> DEFINE v == [k \in 1..code_size |-> Bits(bitbuf, code_size)[k] * 2 ^ (k - 1)]
<1>4. SumTo(v, code_size) = bitbuf % 2 ^ code_size
  <2>1. \A k \in 1..code_size : v[k] = ((bitbuf \div 2 ^ (k - 1)) % 2) * 2 ^ (k - 1)
    BY <1>3
  <2> HIDE DEF v
  <2> QED
    BY <1>1, <2>1, BitsAdd
<1>5. Reference!Number(Bits(bitbuf, code_size)) = SumTo(v, code_size)
  BY <1>3 DEF Reference!Number, Reference!SumTo, SumTo
<1>6. Reference!NextCode = Reference!Number(SubSeq(Bits(bitbuf, bitcount), 1, code_size))
  BY WidthIs DEF Reference!NextCode
<1> QED
  BY <1>2, <1>4, <1>5, <1>6 DEF Code

\* Reading a code is taking one.
LEMMA TakeIs ==
  ASSUME LzwInv, SpellInv, ReadCode
  PROVE  Reference!TakeCode
<1>1. Running /\ bitcount >= code_size /\ UNCHANGED <<argVars, pos>>
  BY DEF ReadCode
<1>2. bitcount \in Nat /\ bitcount \in 0..Top /\ bitbuf \in Nat
  BY <1>1, BitFacts
<1>3. Len(Bits(bitbuf, bitcount)) = bitcount
  BY <1>2, BitsAre
<1>4. Reference!CodeWidth = code_size
  BY <1>1, WidthIs
<1>5. Reference!HasCode
  BY <1>1, <1>3, <1>4 DEF Reference!HasCode, Running
<1>6. Bits(bitbuf', bitcount') =
        SubSeq(Bits(bitbuf, bitcount), Reference!CodeWidth + 1, Len(Bits(bitbuf, bitcount)))
  BY <1>3, <1>4, CodeTakesBits
<1>7. min_code_size' = min_code_size /\ out_len' = out_len /\ in_len' - pos' = in_len - pos
  BY <1>1 DEF argVars
<1> QED
  BY <1>5, <1>6, <1>7 DEF Reference!TakeCode

\* What the code that was read is to the reference.
LEMMA CodeRead ==
  ASSUME LzwInv, SpellInv, ReadCode
  PROVE  /\ Running /\ Reference!NextCode = Code /\ Code \in Nat
         /\ Reference!Clear = clear_code /\ Reference!End = end_code
<1>1. Running /\ bitcount >= code_size
  BY DEF ReadCode
<1> QED
  BY <1>1, CodeIs, CodeRange, DictionaryIs

LEMMA StopIs ==
  ASSUME ~Running', NEW verdict, result' = verdict
  PROVE  Reference!Stop(verdict)
  BY DEF Reference!Stop

LEMMA ClearForgets ==
  ASSUME LzwInv, SpellInv, ClearCode
  PROVE  Reference!Forget
<1>1. /\ ReadCode /\ Code = clear_code /\ next_code' = end_code + 1 /\ prev_code' = -1
      /\ out' = out /\ result' = result /\ UNCHANGED argVars
  BY DEF ClearCode, ReadCode
<1>2. Running /\ Reference!NextCode = Reference!Clear
  BY <1>1, CodeRead
<1>3. end_code' = end_code /\ end_code \in Nat
  <2>1. end_code' = end_code
    BY <1>1 DEF end_code, clear_code, argVars
  <2>2. end_code \in Nat
    BY <1>2, LiveFacts
  <2> QED
    BY <2>1, <2>2
<1>4. Strings(table', end_code', next_code') = <<>>
  <2>1. end_code + 1 \in Nat /\ end_code + 1 > end_code /\ (end_code + 1) - end_code - 1 = 0
    BY <1>3
  <2>2. /\ Len(Strings(table', end_code, end_code + 1)) = (end_code + 1) - end_code - 1
        /\ \E S : Strings(table', end_code, end_code + 1) \in Seq(S)
    BY <1>3, <2>1, StringsAre
  <2> DEFINE s == Strings(table', end_code, end_code + 1)
  <2>3. Len(s) = 0 /\ \E S : s \in Seq(S)
    BY <2>1, <2>2
  <2> HIDE DEF s
  <2>4. s = <<>>
    BY <2>3
  <2> QED
    BY <1>1, <1>3, <2>4 DEF s
<1>5. ~(prev_code' >= 0)
  BY <1>1
<1> QED
  BY <1>1, <1>2, <1>4, <1>5, TakeIs DEF Reference!Forget

LEMMA EndFinishes ==
  ASSUME LzwInv, SpellInv, EndCode
  PROVE  Reference!Finish
<1>1. /\ ReadCode /\ Code = end_code /\ out' = out
      /\ result' = IF Len(out) = out_len THEN "ok" ELSE "failed"
  BY DEF EndCode
<1>2. Reference!NextCode = Reference!End
  BY <1>1, CodeRead
<1>3. ~Running'
  BY <1>1 DEF Running
<1>4. Reference!Stop(IF Len(out) = out_len THEN "ok" ELSE "failed")
  BY <1>1, <1>3, StopIs
<1> QED
  BY <1>1, <1>2, <1>4, TakeIs DEF Reference!Finish

LEMMA ExhaustedStarves ==
  ASSUME LzwInv, SpellInv, Exhausted
  PROVE  Reference!Starve
<1>1. /\ Running /\ bitcount < code_size /\ pos >= in_len /\ result' = "failed"
      /\ UNCHANGED <<argVars, bitVars, out>>
  BY DEF Exhausted
<1>2. bitcount \in Nat /\ bitcount \in 0..Top /\ bitbuf \in Nat
  BY <1>1, BitFacts
<1>3. Len(Bits(bitbuf, bitcount)) < Reference!CodeWidth
  BY <1>1, <1>2, BitsAre, WidthIs
<1>4. in_len - pos = 0
  BY <1>1 DEF SpellInv
<1>5. Reference!Stop("failed")
  BY <1>1, StopIs DEF Running
<1>6. /\ min_code_size' = min_code_size /\ out_len' = out_len /\ in_len' = in_len
      /\ pos' = pos /\ bitbuf' = bitbuf /\ bitcount' = bitcount
  BY <1>1 DEF argVars, bitVars
<1> QED
  BY <1>1, <1>3, <1>4, <1>5, <1>6 DEF Reference!Starve, Running

LEMMA RefillArrives ==
  ASSUME LzwInv, SpellInv, NEW byte \in 0..(2 ^ BYTE_BITS - 1), Refill(byte)
  PROVE  Reference!Arrive
<1>1. /\ Running /\ bitcount < code_size /\ out' = out /\ result' = result
      /\ UNCHANGED <<argVars, tableVars, prev_code>>
  BY DEF Refill
<1>2. bitcount \in Nat /\ bitcount \in 0..Top /\ bitbuf \in Nat
  BY <1>1, BitFacts
<1>3. Len(Bits(bitbuf, bitcount)) < Reference!CodeWidth
  BY <1>1, <1>2, BitsAre, WidthIs
<1>4. /\ \E b \in [1..BYTE_BITS -> 0..1] : Bits(bitbuf', bitcount') = Bits(bitbuf, bitcount) \o b
      /\ pos' = pos + 1 /\ pos < in_len
  BY RefillSpells
<1>5. in_len' = in_len /\ min_code_size' = min_code_size /\ out_len' = out_len
      /\ table' = table /\ next_code' = next_code
  BY <1>1 DEF argVars, tableVars
<1>6. in_len - pos > 0 /\ in_len' - pos' = (in_len - pos) - 1
  BY <1>4, <1>5 DEF SpellInv
<1>7. end_code' = end_code
  BY <1>5 DEF end_code, clear_code
<1>8. Strings(table', end_code', next_code') = Strings(table, end_code, next_code)
      /\ Running' = Running /\ prev_code' = prev_code /\ Expand(prev_code)' = Expand(prev_code)
  BY <1>1, <1>5, <1>7 DEF Running, Expand
<1>9. Dictionary' = Dictionary /\ Previous' = Previous
  BY <1>8 DEF Dictionary, Previous
<1> QED
  BY <1>1, <1>3, <1>4, <1>5, <1>6, <1>9 DEF Reference!Arrive, Running, Dictionary, Previous

------------------------------------------------------------------------------
(* What a code stands for                                                    *)

\* The entries of the dictionary that a code names.
Named(c) == { Dictionary[i] : i \in { j \in 1..Len(Dictionary) : c = Reference!Entry(j) } }

LEMMA StandsFor ==
  ASSUME LzwInv, SpellInv, ReadCode
  PROVE  /\ Code < clear_code => Reference!Strings = { <<Code>> }
         /\ Code >= clear_code /\ Code = next_code /\ Previous # <<>>
              => Reference!Strings = { Append(Previous, Head(Previous)) }
         /\ Code >= clear_code /\ ~(Code = next_code /\ Previous # <<>>)
              => Reference!Strings = Named(Code)
<1>1. /\ Running /\ Reference!NextCode = Code /\ Code \in Nat
      /\ Reference!Clear = clear_code /\ clear_code \in Nat
      /\ Reference!Entry(Len(Dictionary) + 1) = next_code
  BY CodeRead, DictionaryIs, LiveFacts
<1>2. Reference!Strings =
        CASE Reference!NextCode < Reference!Clear -> { <<Reference!NextCode>> }
          [] Reference!NextCode = Reference!Entry(Len(Dictionary) + 1) /\ Previous # <<>>
               -> { Append(Previous, Head(Previous)) }
          [] OTHER -> Named(Reference!NextCode)
  BY DEF Reference!Strings, Dictionary, Previous, Named
<1>3. Reference!Strings =
        CASE Code < clear_code -> { <<Code>> }
          [] Code = next_code /\ Previous # <<>> -> { Append(Previous, Head(Previous)) }
          [] OTHER -> Named(Code)
  BY <1>1, <1>2
<1>4. CASE Code < clear_code
  <2>1. ~(Code >= clear_code)
    BY <1>1, <1>4
  <2>2. Reference!Strings = { <<Code>> }
    BY <1>1, <1>3, <1>4, LiveFacts
  <2> QED
    BY <2>1, <2>2
<1>5. CASE ~(Code < clear_code)
  BY <1>3, <1>5
<1> QED
  BY <1>4, <1>5

\* A live code stands for its string,
LEMMA KnownStands ==
  ASSUME LzwInv, SpellInv, ReadCode, Code \in Live
  PROVE  Reference!Strings = { Expand(Code) }
<1>1. /\ Running /\ Code \in Nat /\ Code < next_code /\ next_code \in Nat
      /\ end_code \in Nat /\ clear_code \in Nat /\ end_code = clear_code + 1
  BY CodeRead, LiveFacts
<1>2. CASE Code < clear_code
  BY <1>1, <1>2, StandsFor, LiveStrings
<1>3. CASE ~(Code < clear_code)
  <2>1. Code \in (end_code + 1)..(next_code - 1)
    BY <1>1, <1>3 DEF Live
  <2>2. /\ Len(Dictionary) = next_code - end_code - 1
        /\ \A i \in 1..Len(Dictionary) : Dictionary[i] = Expand(end_code + i)
        /\ \A i : Reference!Entry(i) = end_code + i
    BY <1>1, DictionaryIs
  <2>3. Code - end_code \in 1..Len(Dictionary) /\ end_code + (Code - end_code) = Code
    BY <1>1, <2>1, <2>2
  <2>4. \A j \in 1..Len(Dictionary) : Code = Reference!Entry(j) => j = Code - end_code
    BY <1>1, <2>2
  <2>5. { j \in 1..Len(Dictionary) : Code = Reference!Entry(j) } = { Code - end_code }
    BY <2>2, <2>3, <2>4
  <2>6. Dictionary[Code - end_code] = Expand(Code)
    BY <2>2, <2>3
  <2>7. Named(Code) = { Expand(Code) }
    BY <2>5, <2>6 DEF Named
  <2> QED
    BY <1>1, <1>3, <2>7, StandsFor
<1> QED
  BY <1>2, <1>3

\* the next one for what it is about to define,
LEMMA NextStands ==
  ASSUME LzwInv, SpellInv, ReadCode, Code = next_code, prev_code >= 0
  PROVE  Reference!Strings = { Append(Expand(prev_code), Head(Expand(prev_code))) }
<1>1. Running /\ next_code \in Nat /\ clear_code \in Nat /\ next_code >= clear_code
  <2>1. Running
    BY DEF ReadCode
  <2> QED
    BY <2>1, LiveFacts
<1>2. Previous = Expand(prev_code) /\ Previous # <<>>
  BY <1>1, PreviousIs
<1>3. Reference!Strings = { Append(Previous, Head(Previous)) }
  BY <1>1, <1>2, StandsFor
<1> QED
  BY <1>2, <1>3

\* and another for nothing.
LEMMA UndefinedStands ==
  ASSUME LzwInv, SpellInv, ReadCode,
         Code > next_code \/ (Code = next_code /\ prev_code < 0)
  PROVE  Reference!Strings = {}
<1>1. /\ Running /\ Code \in Nat /\ next_code \in Nat /\ end_code \in Nat /\ clear_code \in Nat
      /\ end_code = clear_code + 1 /\ next_code > end_code
  BY CodeRead, LiveFacts
<1>2. /\ Len(Dictionary) = next_code - end_code - 1
      /\ \A i : Reference!Entry(i) = end_code + i
  BY <1>1, DictionaryIs
<1>3. prev_code < 0 => Previous = <<>>
  <2>1. prev_code \in Int
    BY <1>1 DEF LzwInv
  <2> QED
    BY <1>1, <2>1, PreviousIs
<1>4. Code >= clear_code /\ ~(Code = next_code /\ Previous # <<>>)
  BY <1>1, <1>3
<1>5. { j \in 1..Len(Dictionary) : Code = Reference!Entry(j) } = {}
  BY <1>1, <1>2
<1>6. Named(Code) = {}
  BY <1>5 DEF Named
<1> QED
  BY <1>4, <1>6, StandsFor

------------------------------------------------------------------------------
(* What a code shows and teaches                                             *)

\* The dictionary after a string was emitted.
LEMMA Learns ==
  ASSUME LzwInv, SpellInv, Running, Running', UNCHANGED argVars, NEW s, s # <<>>,
         Head(s) \in Nat, prev_code' = Code, Code \in Nat,
         prev_code >= 0 => prev_code \in Live /\ Define(prev_code, Head(s)),
         ~(prev_code >= 0) => UNCHANGED tableVars,
         Expand(prev_code)' = s
  PROVE  Reference!Learn(s)
<1>0. Previous' = s
  <2>1. prev_code' >= 0
    OBVIOUS
  <2> QED
    BY <2>1 DEF Previous
<1>1. /\ end_code' = end_code /\ end_code \in Nat /\ next_code \in Nat /\ next_code > end_code
      /\ LZW_MAX_CODE \in Nat
  <2>1. end_code' = end_code
    BY DEF end_code, clear_code, argVars
  <2> QED
    BY <2>1, LiveFacts
<1>2. Dictionary = Strings(table, end_code, next_code)
      /\ Dictionary' = Strings(table', end_code, next_code')
  BY <1>1 DEF Dictionary
<1>3. Reference!Entry(Len(Dictionary) + 1) = next_code
  BY DictionaryIs
<1>4. Dictionary' = IF Previous # <<>> /\ next_code < LZW_MAX_CODE
                      THEN Append(Dictionary, Append(Previous, Head(s))) ELSE Dictionary
  <2>1. CASE ~(prev_code >= 0)
    <3>1. table' = table /\ next_code' = next_code /\ Previous = <<>>
      BY <2>1, PreviousIs DEF tableVars
    <3> QED
      BY <1>2, <3>1
  <2>2. CASE prev_code >= 0
    <3>1. Previous = Expand(prev_code) /\ Previous # <<>> /\ prev_code \in Live
          /\ Define(prev_code, Head(s))
      BY <2>2, PreviousIs
    <3>2. /\ \A c \in Live : Chain(table', c) = Chain(table, c)
          /\ next_code < LZW_MAX_CODE =>
               /\ next_code' = next_code + 1
               /\ Chain(table', next_code) = Append(Chain(table, prev_code), Head(s))
          /\ next_code >= LZW_MAX_CODE => next_code' = next_code
      BY <3>1, DefineSpells
    <3>3. \A c \in (end_code + 1)..(next_code - 1) : Chain(table', c) = Chain(table, c)
      BY <3>2 DEF Live
    <3>4. /\ Strings(table', end_code, next_code) = Strings(table, end_code, next_code)
          /\ Strings(table', end_code, next_code + 1)
               = Append(Strings(table, end_code, next_code), Chain(table', next_code))
      <4>1. SameStrings(table, table', (end_code + 1)..(next_code - 1))
        BY <3>3 DEF SameStrings
      <4>2. end_code \in Nat /\ next_code \in Nat /\ next_code > end_code
        BY <1>1
      <4>3. Strings(table', end_code, next_code) = Strings(table, end_code, next_code)
        BY <4>1, <4>2, StringsStay, SMT
      <4>4. OneMore(table, table', end_code, next_code)
        BY <4>1, <4>2, StringsGrow, SMT
      <4> QED
        BY <4>3, <4>4, Zenon DEF OneMore
    <3>5. CASE next_code < LZW_MAX_CODE
      <4>1. next_code' = next_code + 1
            /\ Chain(table', next_code) = Append(Previous, Head(s))
        BY <3>1, <3>2, <3>5 DEF Expand
      <4> QED
        BY <1>2, <3>1, <3>4, <3>5, <4>1
    <3>6. CASE ~(next_code < LZW_MAX_CODE)
      <4>1. next_code' = next_code
        BY <1>1, <3>2, <3>6
      <4> QED
        BY <1>2, <3>4, <3>6, <4>1
    <3> QED
      BY <3>5, <3>6
  <2> QED
    BY <2>1, <2>2
<1> QED
  BY <1>0, <1>3, <1>4 DEF Reference!Learn, Dictionary, Previous, LZW_MAX_CODE

\* What of a string is written when it does not fit.
LEMMA WrittenUpTo ==
  ASSUME NEW a \in Seq(Nat), NEW b \in Seq(Nat), NEW n \in Nat, Len(a) <= n,
         Len(b) > n - Len(a)
  PROVE  a \o SubSeq(b, 1, n - Len(a)) = SubSeq(a \o b, 1, n)
<1> DEFINE k == n - Len(a)
           c == SubSeq(b, 1, k)
           l == a \o c
           r == SubSeq(a \o b, 1, n)
<1>1. Len(a) \in Nat /\ Len(b) \in Nat /\ k \in Nat /\ k <= Len(b) /\ Len(a) + k = n
  OBVIOUS
<1> HIDE DEF k
<1>2. c \in Seq(Nat) /\ Len(c) = k /\ \A i \in 1..k : c[i] = b[i]
  BY <1>1
<1> HIDE DEF c
<1>3. /\ l \in Seq(Nat) /\ Len(l) = n
      /\ \A i \in 1..n : l[i] = IF i <= Len(a) THEN a[i] ELSE c[i - Len(a)]
  BY <1>1, <1>2, ConcatProperties, ZenonT(40)
<1>4. /\ a \o b \in Seq(Nat) /\ Len(a \o b) = Len(a) + Len(b)
      /\ \A i \in 1..(Len(a) + Len(b)) : (a \o b)[i] = IF i <= Len(a) THEN a[i] ELSE b[i - Len(a)]
  BY ConcatProperties
<1>5. r \in Seq(Nat) /\ Len(r) = n /\ \A i \in 1..n : r[i] = (a \o b)[i]
  <2> DEFINE e == a \o b
  <2>1. e \in Seq(Nat) /\ n <= Len(e)
    BY <1>1, <1>4
  <2> HIDE DEF e
  <2>2. SubSeq(e, 1, n) \in Seq(Nat) /\ Len(SubSeq(e, 1, n)) = n
        /\ \A i \in 1..n : SubSeq(e, 1, n)[i] = e[i]
    BY <2>1
  <2> QED
    BY <2>2 DEF e
<1>6. ASSUME NEW i \in 1..n PROVE l[i] = r[i]
  <2>1. i \in 1..(Len(a) + Len(b))
    BY <1>1
  <2>2. r[i] = IF i <= Len(a) THEN a[i] ELSE b[i - Len(a)]
    BY <1>4, <1>5, <2>1
  <2>3. ~(i <= Len(a)) => i - Len(a) \in 1..k
    BY <1>1
  <2>4. l[i] = IF i <= Len(a) THEN a[i] ELSE c[i - Len(a)]
    BY <1>3
  <2> HIDE DEF l, r
  <2> QED
    BY <1>2, <2>2, <2>3, <2>4
<1> HIDE DEF l, r
<1>7. l = r
  <2>1. l = [i \in 1..n |-> l[i]] /\ r = [i \in 1..n |-> r[i]]
    BY <1>3, <1>5
  <2> QED
    BY <1>6, <2>1
<1> QED
  BY <1>7 DEF l, r, c, k

\* A code with a string shows it and teaches a new one, or does not fit.
LEMMA ShowsOrRefuses ==
  ASSUME LzwInv, SpellInv, ReadCode, StringCode, NEW s \in Seq(Nat),
         Reference!Strings = {s}, Emit(s),
         result' # "failed" => Reference!Learn(s)
  PROVE  Reference!Show \/ Reference!Refuse
<1>1. /\ Running /\ Reference!NextCode \notin {Reference!Clear, Reference!End}
      /\ Reference!TakeCode
  BY CodeRead, TakeIs DEF StringCode
<1>2. out \in Seq(Nat) /\ Len(out) <= out_len /\ out_len \in Nat
  BY <1>1 DEF SpellInv
<1>3. Len(out) \in Nat /\ Len(s) \in Nat
  BY <1>2
<1>4. CASE Len(s) <= out_len - Len(out)
  <2>1. out' = out \o s /\ result' = result
    BY <1>4 DEF Emit
  <2>2. result' # "failed"
    BY <1>1, <2>1 DEF Running
  <2>3. Len(out) + Len(s) <= out_len
    BY <1>2, <1>3, <1>4
  <2>4. Reference!Fits(s)
    BY <2>3 DEF Reference!Fits
  <2>5. Reference!Show
    BY <1>1, <2>1, <2>2, <2>4 DEF Reference!Show
  <2> QED
    BY <2>5
<1>5. CASE ~(Len(s) <= out_len - Len(out))
  <2>1. out' = out \o SubSeq(s, 1, out_len - Len(out)) /\ result' = "failed"
    BY <1>5 DEF Emit
  <2>2. Len(s) > out_len - Len(out) /\ ~(Len(out) + Len(s) <= out_len)
    BY <1>2, <1>3, <1>5
  <2>3. ~Reference!Fits(s)
    BY <2>2 DEF Reference!Fits
  <2>4. out' = SubSeq(out \o s, 1, out_len)
    BY <1>2, <2>1, <2>2, WrittenUpTo
  <2>5. Reference!Stop("failed")
    BY <2>1, StopIs DEF Running
  <2>6. (CHOOSE t \in Reference!Strings : TRUE) = s /\ Reference!Strings # {}
    OBVIOUS
  <2>7. Reference!Refuse
    BY <1>1, <2>3, <2>4, <2>5, <2>6 DEF Reference!Refuse
  <2> QED
    BY <2>7
<1> QED
  BY <1>4, <1>5

LEMMA KnownShows ==
  ASSUME LzwInv, SpellInv, KnownCode
  PROVE  Reference!Show \/ Reference!Refuse
<1> DEFINE s == Expand(Code)
<1>1. /\ Running /\ Code \in Live /\ UNCHANGED argVars /\ s \in Seq(Nat) /\ s # <<>>
      /\ Head(s) \in Nat /\ Emit(s)
      /\ prev_code >= 0 => prev_code \in Live /\ Define(prev_code, Head(s))
      /\ ~(prev_code >= 0) => UNCHANGED tableVars
      /\ prev_code' = IF result' = "failed" THEN prev_code ELSE Code
  BY KnownFacts
<1>2. ReadCode /\ StringCode
  BY DEF KnownCode
<1>3. Reference!Strings = {s}
  BY <1>1, <1>2, KnownStands
<1>4. ASSUME result' # "failed" PROVE Reference!Learn(s)
  <2>1. Running'
    BY <1>1, <1>4 DEF Emit, Running
  <2>2. Chain(table', Code) = Chain(table, Code)
    <3>1. CASE prev_code >= 0
      BY <1>1, <3>1, DefineSpells
    <3>2. CASE ~(prev_code >= 0)
      BY <1>1, <3>2 DEF tableVars
    <3> QED
      BY <3>1, <3>2
  <2>3. prev_code' = Code /\ Code \in Nat
    BY <1>1, <1>4, LiveFacts
  <2>4. Expand(prev_code)' = s
    BY <2>2, <2>3 DEF Expand
  <2> HIDE DEF s
  <2> QED
    BY <1>1, <2>1, <2>3, <2>4, Learns
<1> HIDE DEF s
<1> QED
  BY <1>1, <1>2, <1>3, <1>4, ShowsOrRefuses

LEMMA NextShows ==
  ASSUME LzwInv, SpellInv, NextCode
  PROVE  Reference!Show \/ Reference!Refuse
<1> DEFINE x == Head(Expand(prev_code))
           s == Append(Expand(prev_code), x)
<1>1. /\ Running /\ Code = next_code /\ UNCHANGED argVars
      /\ prev_code >= 0 /\ prev_code \in Live /\ next_code < LZW_MAX_CODE
      /\ x \in Nat /\ s \in Seq(Nat) /\ Head(s) = x
      /\ Define(prev_code, x) /\ Emit(s)
      /\ prev_code' = IF result' = "failed" THEN prev_code ELSE Code
  BY NextFacts
<1>2. ReadCode /\ StringCode
  BY DEF NextCode
<1>3. Reference!Strings = {s}
  BY <1>1, <1>2, NextStands
<1>4. s # <<>>
  BY NextFacts
<1>5. ASSUME result' # "failed" PROVE Reference!Learn(s)
  <2>1. Running'
    BY <1>1, <1>5 DEF Emit, Running
  <2>2. Chain(table', next_code) = s
    BY <1>1, DefineSpells DEF Expand
  <2>3. prev_code' = Code /\ Code \in Nat
    BY <1>1, <1>5, LiveFacts
  <2>4. Expand(prev_code)' = s
    BY <1>1, <2>2, <2>3 DEF Expand
  <2> HIDE DEF s, x
  <2> QED
    BY <1>1, <1>4, <2>1, <2>3, <2>4, Learns
<1> HIDE DEF s, x
<1> QED
  BY <1>1, <1>2, <1>3, <1>5, ShowsOrRefuses

LEMMA UndefinedRefuses ==
  ASSUME LzwInv, SpellInv, UndefinedCode
  PROVE  Reference!Refuse
<1>1. /\ ReadCode /\ StringCode /\ result' = "failed" /\ out' = out
      /\ Code > next_code \/ (Code = next_code /\ prev_code < 0)
  BY DEF UndefinedCode, Corrupt
<1>2. Reference!NextCode \notin {Reference!Clear, Reference!End} /\ Reference!TakeCode
  BY <1>1, CodeRead, TakeIs DEF StringCode
<1>3. Reference!Strings = {}
  BY <1>1, UndefinedStands
<1>4. Reference!Stop("failed")
  BY <1>1, StopIs DEF Running
<1> QED
  BY <1>1, <1>2, <1>3, <1>4 DEF Reference!Refuse

------------------------------------------------------------------------------
LEMMA ReferenceInit == Init => Reference!Init
<1> SUFFICES ASSUME Init PROVE Reference!Init
  OBVIOUS
<1>1. /\ bitcount = 0 /\ prev_code = -1 /\ out = <<>> /\ pos = 0 /\ in_len \in Nat
      /\ min_code_size \in Nat /\ next_code = end_code + 1
      /\ result = IF min_code_size < 2 \/ min_code_size > 8 THEN "failed" ELSE "running"
  BY DEF Init
<1>2. Bits(bitbuf, bitcount) = <<>>
  <2>1. Bits(bitbuf, 0) = <<>>
    BY DEF Bits
  <2> QED
    BY <1>1, <2>1
<1>3. Previous = <<>>
  BY <1>1 DEF Previous
<1>4. Dictionary = <<>>
  <2>1. CASE Running
    <3>1. next_code - end_code - 1 = 0 /\ Dictionary = Strings(table, end_code, next_code)
      <4>1. end_code \in Nat
        BY <2>1, LzwInvInit, LiveFacts
      <4> QED
        BY <1>1, <2>1, <4>1 DEF Dictionary
    <3> QED
      BY <3>1 DEF Strings
  <2>2. CASE ~Running
    BY <2>2 DEF Dictionary
  <2> QED
    BY <2>1, <2>2
<1>5. in_len - pos \in Nat
  BY <1>1
<1>6. result = IF min_code_size \in 2..8 THEN "running" ELSE "failed"
  BY <1>1
<1> QED
  BY <1>1, <1>2, <1>3, <1>4, <1>5, <1>6 DEF Reference!Init, Dictionary, Previous

\* Each step of the decoder is one of the reference.
LEMMA ReferenceStep ==
  LzwInv /\ SpellInv /\ [Next]_vars =>
    [Reference!Next]_<<min_code_size, out_len, Bits(bitbuf, bitcount), in_len - pos,
                       IF Running THEN Strings(table, end_code, next_code) ELSE <<>>,
                       IF Running /\ prev_code >= 0 THEN Expand(prev_code) ELSE <<>>,
                       out, result>>
<1> SUFFICES ASSUME LzwInv, SpellInv, [Next]_vars
             PROVE  \/ Reference!Next
                    \/ UNCHANGED <<min_code_size, out_len, Bits(bitbuf, bitcount), in_len - pos,
                         IF Running THEN Strings(table, end_code, next_code) ELSE <<>>,
                         IF Running /\ prev_code >= 0 THEN Expand(prev_code) ELSE <<>>,
                         out, result>>
  OBVIOUS
<1>1. ASSUME NEW byte \in 0..(2 ^ BYTE_BITS - 1), Refill(byte) PROVE Reference!Next
  BY <1>1, RefillArrives DEF Reference!Next
<1>2. CASE Exhausted
  BY <1>2, ExhaustedStarves DEF Reference!Next
<1>3. CASE ClearCode
  BY <1>3, ClearForgets DEF Reference!Next
<1>4. CASE EndCode
  BY <1>4, EndFinishes DEF Reference!Next
<1>5. CASE KnownCode
  BY <1>5, KnownShows DEF Reference!Next
<1>6. CASE NextCode
  BY <1>6, NextShows DEF Reference!Next
<1>7. CASE UndefinedCode
  BY <1>7, UndefinedRefuses DEF Reference!Next
<1>8. CASE UNCHANGED vars
  BY <1>8 DEF vars, argVars, bitVars, tableVars, Running, Expand, end_code, clear_code
<1> QED
  BY <1>1, <1>2, <1>3, <1>4, <1>5, <1>6, <1>7, <1>8 DEF Next

\* gif_lzw_decode, for every input: every table entry spells a string, the buffer
\* holds the bits that were read, and no pixel too many is written.
THEOREM StringsAreSpelled == Spec => []SpellInv
  BY LzwInvariant, SpellInvInit, SpellInvStep, PTL DEF Spec

(* Whatever the code size, the length and the bytes of an image's data,       *)
(* gif_lzw_decode writes the pixels and gives the verdict that LZW on strings *)
(* gives: bit buffer, table, chains and stack are how it does it.             *)
THEOREM DecoderIsLzw == Spec => ImplementsLzw
  BY LzwInvariant, StringsAreSpelled, ReferenceInit, ReferenceStep, PTL
  DEF Spec, ImplementsLzw, Reference!Spec

------------------------------------------------------------------------------
(* The two together                                                          *)

\* A decoded image is whole, and its rows all have the same width.
ImageInv ==
  /\ h \in Heights /\ h \in Nat \ {0}
  /\ out_len \in Nat /\ out_len % h = 0
  /\ result = "ok" => Len(out) = out_len

LEMMA ImageInvInit == ImageInit => ImageInv
  BY DEF ImageInit, Init, RowsInit, ImageInv

\* Only the end code answers `ok', with every pixel written; then nothing more is.
LEMMA ImageInvStep == ImageInv /\ [ImageNext]_imageVars => ImageInv'
<1> SUFFICES ASSUME ImageInv, [ImageNext]_imageVars PROVE ImageInv'
  OBVIOUS
<1>1. h' = h /\ out_len' = out_len
  BY DEF ImageNext, Decode, Deinterlace, Next, RowsNext, CopyRow, NextPass, imageVars,
         rowVars, vars, argVars, Refill, Exhausted, ReadCode, ClearCode, EndCode,
         KnownCode, NextCode, UndefinedCode
<1>2. CASE UNCHANGED <<out, result>>
  BY <1>1, <1>2 DEF ImageInv
<1>3. CASE result' # "ok"
  BY <1>1, <1>3 DEF ImageInv
<1>4. CASE EndCode
  <2>1. out' = out /\ (result' = "ok" => Len(out) = out_len)
    BY <1>4 DEF EndCode
  <2> QED
    BY <1>1, <2>1 DEF ImageInv
<1>5. CASE Next
  <2>1. Running
    BY <1>5 DEF Next, Refill, Exhausted, ReadCode, ClearCode, EndCode, KnownCode,
                NextCode, UndefinedCode
  <2>2. \/ UNCHANGED <<out, result>> \/ EndCode
        \/ result' = result \/ result' = "failed"
    BY <1>5 DEF Next, Refill, Exhausted, ClearCode, KnownCode, NextCode,
                UndefinedCode, Corrupt, Emit
  <2> QED
    BY <1>2, <1>3, <1>4, <2>1, <2>2 DEF Running
<1>6. CASE Deinterlace \/ UNCHANGED imageVars
  BY <1>2, <1>6 DEF Deinterlace, imageVars, vars
<1> QED
  BY <1>5, <1>6 DEF ImageNext, Decode

\* A row of the image ends within the image.
LEMMA RowEnds ==
  ASSUME NEW rows \in Nat \ {0}, NEW pixels \in Nat, pixels % rows = 0,
         NEW y \in Nat, y < rows
  PROVE  (y + 1) * (pixels \div rows) <= pixels
<1> DEFINE width == pixels \div rows
<1>1. width \in Nat /\ pixels = rows * width
  OBVIOUS
<1> HIDE DEF width
<1>2. PICK k \in Nat : rows = (y + 1) + k
  <2>1. rows - (y + 1) \in Nat /\ rows = (y + 1) + (rows - (y + 1))
    OBVIOUS
  <2> QED
    BY <2>1
<1>3. ((y + 1) + k) * width = (y + 1) * width + k * width
  BY <1>1
<1>4. k * width \in Nat /\ (y + 1) * width \in Nat
  BY <1>1
<1>5. pixels = (y + 1) * width + k * width
  BY <1>1, <1>2, <1>3
<1>6. (y + 1) * width <= pixels
  BY <1>4, <1>5
<1> QED
  BY <1>6 DEF width

LEMMA InvGivesDecodedRows == ImageInv /\ InterlaceInv => CopiesDecodedRows
<1> SUFFICES ASSUME ImageInv, InterlaceInv, result = "ok", pass < 4, row < h
             PROVE  (sy + 1) * w <= Len(out)
  BY DEF CopiesDecodedRows
<1>1. sy \in Nat /\ sy < h
  BY InvGivesEachRowOnce DEF EachRowOnce, InterlaceInv, RowsTypeOK
<1>2. h \in Nat \ {0} /\ out_len \in Nat /\ out_len % h = 0 /\ Len(out) = out_len
  BY DEF ImageInv
<1>3. (sy + 1) * (out_len \div h) <= out_len
  BY <1>1, <1>2, RowEnds
<1> QED
  BY <1>2, <1>3 DEF w

\* Each half takes its own steps, and the other stands still.
LEMMA HalvesStep == [ImageNext]_imageVars => [Next]_vars /\ [RowsNext]_rowVars
  BY DEF ImageNext, Decode, Deinterlace, imageVars

(* An image of any size and any data: deinterlace copies only rows that the   *)
(* decoder wrote to their last pixel, so that nothing malloc left in raw is   *)
(* ever shown.                                                                *)
THEOREM OnlyDecodedRowsAreCopied == ImageSpec => []CopiesDecodedRows
<1>1. ImageInit => ImageInv /\ InterlaceInv
  BY ImageInvInit, InterlaceInvInit DEF ImageInit
<1> QED
  BY <1>1, ImageInvStep, InterlaceInvStep, HalvesStep, InvGivesDecodedRows, PTL
  DEF ImageSpec

(* And both halves keep, together, what each keeps alone: chains that         *)
(* descend, a width that fits, and rows in their place.                       *)
THEOREM ImageKeepsBoth == ImageSpec => [](LzwInv /\ RowsInPlace)
<1>1. ImageInit => LzwInv /\ InterlaceInv /\ InDisplayOrder
  BY LzwInvInit, InterlaceInvInit, DisplayOrderInit DEF ImageInit
<1>2. InterlaceInv /\ InDisplayOrder => RowsInPlace
  BY InvGivesEachRowOnce DEF RowsInPlace
<1> QED
  BY <1>1, <1>2, LzwInvStep, InterlaceInvStep, DisplayOrderStep, HalvesStep, PTL
  DEF ImageSpec
==============================================================================
