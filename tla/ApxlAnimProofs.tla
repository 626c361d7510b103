---------------------------- MODULE ApxlAnimProofs ----------------------------
(***************************************************************************)
(* The animation codec never loses or misuses memory, never loses a        *)
(* colour, and its answers are right: for any colours, hash function,      *)
(* frames and files, whatever fails.                                       *)
(*                                                                         *)
(* The colour table is a matter of counting: indices and colours           *)
(* correspond, so there are as many colours as indices; fewer than slots,  *)
(* so probing ends; and probing ends where the colour was put, because     *)
(* what is inserted later only fills slots that were free.  Memory is a    *)
(* matter of lists of pointers: those free() may be given (Fine).          *)
(***************************************************************************)
EXTENDS ApxlAnim, WellFoundedInduction, FiniteSetTheorems, FunctionTheorems,
        SequenceTheorems, TLAPS

------------------------------------------------------------------------------
(* Arithmetic                                                                *)

\* The least of a set of numbers.
LEMMA MinOf ==
  ASSUME NEW S, S \subseteq Nat, S # {}
  PROVE  Min(S) \in S /\ \A x \in S : Min(S) <= x
<1> DEFINE R == OpToRel(<, Nat)
<1>1. \A x, y \in Nat : x < y => <<x, y>> \in R
  BY SMT DEF OpToRel
<1>2. PICK m \in S : \A y \in S : ~(<<y, m>> \in R)
  <2>1. IsWellFoundedOn(R, Nat)
    BY NatLessThanWellFounded
  <2> HIDE DEF R
  <2> QED
    BY <2>1, WFMin, Zenon
<1>3. \A x \in S : m <= x
  <2> HIDE DEF R
  <2>1. SUFFICES ASSUME NEW x \in S, ~(m <= x) PROVE FALSE
    OBVIOUS
  <2>2. x \in Nat /\ m \in Nat /\ x < m
    BY <2>1, SMT
  <2> QED
    BY <1>1, <1>2, <2>2, Zenon
<1> QED
  BY <1>3 DEF Min

\* A sum of two numbers below n wraps at most once.
LEMMA Wrap ==
  ASSUME NEW n \in Nat \ {0}, NEW a \in 0..(n - 1), NEW i \in 0..(n - 1)
  PROVE  (a + i) % n = IF a + i < n THEN a + i ELSE a + i - n
  BY SMT

\* Quotient and remainder.
LEMMA DivMod ==
  ASSUME NEW n \in Nat \ {0}, NEW c \in Nat
  PROVE  /\ c % n \in 0..(n - 1) /\ c \div n \in Nat
         /\ c = (c % n) + n * (c \div n)
  BY SMT

\* The quotient of a number below a product.
LEMMA DivBound ==
  ASSUME NEW n \in Nat \ {0}, NEW m \in Nat \ {0}, NEW c \in 0..(n * m - 1)
  PROVE  c \div n \in 0..(m - 1)
  BY SMT

------------------------------------------------------------------------------
(* The colour table                                                          *)

\* Every probe looks at a slot.
LEMMA SlotAtIsSlot ==
  ASSUME NEW k \in Colours, NEW i \in Slots
  PROVE  /\ SlotAt(k, i) \in Slots
         /\ SlotAt(k, i) = IF Hash[k] + i < HashSlots THEN Hash[k] + i
                           ELSE Hash[k] + i - HashSlots
<1>1. Hash[k] \in 0..(HashSlots - 1) /\ HashSlots \in Nat \ {0}
  BY ApxlAssumption DEF Colours
<1>2. i \in 0..(HashSlots - 1)
  BY DEF Slots
<1>3. (Hash[k] + i) % HashSlots = IF Hash[k] + i < HashSlots THEN Hash[k] + i
                                  ELSE Hash[k] + i - HashSlots
  BY <1>1, <1>2, Wrap
<1> QED
  BY <1>1, <1>2, <1>3, SMT DEF SlotAt, Slots

\* Probing comes past every slot.
LEMMA EverySlotIsProbed ==
  ASSUME NEW k \in Colours, NEW s \in Slots
  PROVE  \E i \in Slots : SlotAt(k, i) = s
<1>1. Hash[k] \in 0..(HashSlots - 1) /\ HashSlots \in Nat \ {0}
  BY ApxlAssumption DEF Colours
<1> DEFINE i == IF s >= Hash[k] THEN s - Hash[k] ELSE s + HashSlots - Hash[k]
<1>2. i \in Slots /\ (IF Hash[k] + i < HashSlots THEN Hash[k] + i
                      ELSE Hash[k] + i - HashSlots) = s
  BY <1>1, SMT DEF Slots
<1> HIDE DEF i
<1> QED
  BY <1>2, SlotAtIsSlot

\* The probe is the first hit.
LEMMA FirstHit ==
  ASSUME NEW slots, NEW k \in Colours, NEW i \in Hits(slots, k),
         \A j \in Hits(slots, k) : i <= j
  PROVE  Probe(slots, k) = SlotAt(k, i)
<1>1. Hits(slots, k) \subseteq Nat
  BY ApxlAssumption DEF Hits, Slots
<1>2. Min(Hits(slots, k)) \in Hits(slots, k) /\ \A x \in Hits(slots, k) : Min(Hits(slots, k)) <= x
  BY <1>1, MinOf
<1>3. Min(Hits(slots, k)) = i
  BY <1>1, <1>2, SMT
<1> QED
  BY <1>3 DEF Probe

\* The numbers below n are n.
LEMMA CountingFromZero ==
  ASSUME NEW n \in Nat
  PROVE  IsFiniteSet(0..(n - 1)) /\ Cardinality(0..(n - 1)) = n
<1> DEFINE b == n - 1
<1>1. 0 \in Int /\ b \in Int /\ (IF 0 > b THEN 0 ELSE b - 0 + 1) = n
  BY SMT
<1>2. IsFiniteSet(0..b) /\ Cardinality(0..b) = IF 0 > b THEN 0 ELSE b - 0 + 1
  <2> HIDE DEF b
  <2> QED
    BY <1>1, FS_Interval
<1> QED
  BY <1>1, <1>2

\* A table of fewer colours than slots is never full.
LEMMA SomeSlotIsFree ==
  ASSUME NEW t, TableOk(t)
  PROVE  \E s \in Slots : ~Used(t, s)
<1>1. SUFFICES ASSUME \A s \in Slots : Used(t, s) PROVE FALSE
  OBVIOUS
<1> DEFINE f == [s \in Slots |-> t.slots[s].idx]
           T == 0..(t.count - 1)
<1>2. t.count \in Nat /\ t.count < HashSlots /\ HashSlots \in Nat
  BY ApxlAssumption, SMT DEF TableOk, Tables
<1>3. f \in [Slots -> T]
  <2>1. \A s \in Slots : t.slots[s].idx \in T
    BY <1>1, <1>2, SMT DEF TableOk, Used
  <2> QED
    BY <2>1
<1>4. IsFiniteSet(Slots) /\ Cardinality(Slots) = HashSlots
  BY <1>2, CountingFromZero DEF Slots
<1>5. IsFiniteSet(T) /\ Cardinality(T) = t.count
  BY <1>2, CountingFromZero
<1>6. Cardinality(T) < Cardinality(Slots)
  BY <1>2, <1>4, <1>5
<1>7. PICK x, y \in Slots : x # y /\ f[x] = f[y]
  <2> HIDE DEF f, T
  <2> QED
    BY <1>3, <1>4, <1>5, <1>6, FS_PigeonHole
<1> QED
  BY <1>1, <1>7 DEF TableOk

\* So probing ends, at a free slot or at the colour itself.
LEMMA ProbeHits ==
  ASSUME NEW t, TableOk(t), NEW k \in Colours
  PROVE  \E i \in Hits(t.slots, k) :
           /\ Probe(t.slots, k) = SlotAt(k, i)
           /\ \A j \in Hits(t.slots, k) : i <= j
<1>1. PICK s \in Slots : ~Used(t, s)
  BY SomeSlotIsFree
<1>2. PICK n \in Slots : SlotAt(k, n) = s
  BY EverySlotIsProbed
<1>3. t.slots[s].idx < 0
  BY <1>1, SMT DEF Used, TableOk, Tables
<1>4. n \in Hits(t.slots, k)
  BY <1>2, <1>3 DEF Hits
<1>5. Hits(t.slots, k) \subseteq Nat
  BY ApxlAssumption DEF Hits, Slots
<1> QED
  BY <1>4, <1>5, MinOf DEF Probe

\* Filling a free slot moves no probe that still finds its colour.
LEMMA ProbesStay ==
  ASSUME NEW t, TableOk(t), NEW k \in Colours,
         NEW s \in Slots, ~Used(t, s), NEW r,
         [t.slots EXCEPT ![s] = r][Probe(t.slots, k)].key = k
  PROVE  Probe([t.slots EXCEPT ![s] = r], k) = Probe(t.slots, k)
<1> DEFINE slots == [t.slots EXCEPT ![s] = r]
<1>1. PICK i \in Hits(t.slots, k) :
        /\ Probe(t.slots, k) = SlotAt(k, i)
        /\ \A j \in Hits(t.slots, k) : i <= j
  BY ProbeHits
<1>2. i \in Hits(slots, k)
  BY <1>1, Zenon DEF Hits
<1>3. ASSUME NEW j \in Hits(slots, k) PROVE i <= j
  <2>1. j \in Slots
    BY DEF Hits
  <2>2. SlotAt(k, j) \in Slots
    BY <2>1, SlotAtIsSlot
  <2>3. CASE SlotAt(k, j) = s
    <3>1. t.slots[s].idx < 0
      BY SMT DEF Used, TableOk, Tables
    <3> QED
      BY <1>1, <2>1, <2>3, <3>1 DEF Hits
  <2>4. CASE SlotAt(k, j) # s
    <3>1. slots[SlotAt(k, j)] = t.slots[SlotAt(k, j)]
      BY <2>2, <2>4, Zenon DEF TableOk, Tables
    <3>2. j \in Hits(t.slots, k)
      BY <3>1 DEF Hits
    <3> QED
      BY <1>1, <3>2
  <2> QED
    BY <2>3, <2>4
<1> QED
  BY <1>1, <1>2, <1>3, FirstHit

\* Where probing ends.
LEMMA ProbeIsSlot ==
  ASSUME NEW t, TableOk(t), NEW k \in Colours
  PROVE  /\ Probe(t.slots, k) \in Slots
         /\ Used(t, Probe(t.slots, k)) => t.slots[Probe(t.slots, k)].key = k
<1>1. PICK i \in Hits(t.slots, k) : Probe(t.slots, k) = SlotAt(k, i)
  BY ProbeHits
<1>2. i \in Slots
  BY DEF Hits
<1>3. Probe(t.slots, k) \in Slots
  BY <1>1, <1>2, SlotAtIsSlot
<1>4. t.slots[Probe(t.slots, k)].idx \in Int
  BY <1>3 DEF TableOk, Tables
<1> QED
  BY <1>1, <1>3, <1>4, SMT DEF Hits, Used

\* A colour of the table is found where it is.
LEMMA KnownColour ==
  ASSUME NEW t, TableOk(t), NEW k \in Keys(t)
  PROVE  /\ k \in Colours
         /\ Used(t, Probe(t.slots, k))
         /\ Probe(t.slots, k) \in Slots
         /\ t.slots[Probe(t.slots, k)].key = k
<1>1. PICK s \in Slots : Used(t, s) /\ t.slots[s].key = k
  BY DEF Keys
<1> QED
  BY <1>1 DEF TableOk

\* Any other ends at a free slot.
LEMMA NewColour ==
  ASSUME NEW t, TableOk(t), NEW k \in Colours, k \notin Keys(t)
  PROVE  /\ Probe(t.slots, k) \in Slots
         /\ ~Used(t, Probe(t.slots, k))
  BY ProbeIsSlot DEF Keys

\* The colour behind a used slot's index.
LEMMA ColourOfSlot ==
  ASSUME NEW t, TableOk(t), NEW s \in Slots, Used(t, s)
  PROVE  ColourAt(t, t.slots[s].idx) = t.slots[s].key
<1> DEFINE i == t.slots[s].idx
           c == CHOOSE u \in DOMAIN t.slots : t.slots[u].idx = i
<1>1. DOMAIN t.slots = Slots
  BY DEF TableOk, Tables
<1>2. c \in Slots /\ t.slots[c].idx = i
  BY <1>1, Zenon
<1>3. s = c
  BY <1>2 DEF TableOk
<1> QED
  BY <1>3 DEF ColourAt

\* Indices and colours of the table correspond.
LEMMA ColourIsKey ==
  ASSUME NEW t, TableOk(t), NEW i \in 0..(t.count - 1)
  PROVE  /\ ColourAt(t, i) \in Keys(t) /\ ColourAt(t, i) \in Colours
         /\ t.slots[Probe(t.slots, ColourAt(t, i))].idx = i
<1>1. PICK s \in Slots : t.slots[s].idx = i
  BY DEF TableOk
<1>2. t.count \in Nat
  BY ApxlAssumption, SMT DEF TableOk, Tables
<1>3. Used(t, s)
  BY <1>1, <1>2, SMT DEF Used
<1>4. ColourAt(t, i) = t.slots[s].key
  BY <1>1, <1>3, ColourOfSlot
<1> QED
  BY <1>1, <1>3, <1>4 DEF Keys, TableOk

\* Looking up a colour of the table.
LEMMA LookupFinds ==
  ASSUME NEW t, TableOk(t), NEW k \in Keys(t)
  PROVE  LET u == LookupOrInsert(t, k)
         IN  /\ u = [t EXCEPT !.found = t.slots[Probe(t.slots, k)].idx]
             /\ u.found \in 0..(t.count - 1)
             /\ ColourAt(t, u.found) = k
<1> DEFINE s == Probe(t.slots, k)
           i == t.slots[s].idx
<1>1. Used(t, s) /\ s \in Slots /\ t.slots[s].key = k
  BY KnownColour
<1>2. i \in 0..(t.count - 1)
  BY <1>1, ApxlAssumption, SMT DEF Used, TableOk, Tables
<1>3. LookupOrInsert(t, k) = [t EXCEPT !.found = i]
  BY <1>1 DEF LookupOrInsert, Used
<1>4. ColourAt(t, i) = k
  BY <1>1, ColourOfSlot
<1>5. [t EXCEPT !.found = i].found = i
  BY DEF TableOk, Tables
<1> QED
  BY <1>2, <1>3, <1>4, <1>5

\* A new colour takes the free slot its probe ends at.
LEMMA InsertKeeps ==
  ASSUME NEW t, TableOk(t), NEW k \in Colours, k \notin Keys(t),
         t.count < APXL_MAX_PALETTE
  PROVE  LET u == LookupOrInsert(t, k)
         IN  /\ TableOk(u) /\ Keys(u) = Keys(t) \cup {k}
             /\ u.count = t.count + 1 /\ u.full = t.full
<1> DEFINE s == Probe(t.slots, k)
           r == [key |-> k, idx |-> t.count]
           u == [t EXCEPT !.slots[s] = r, !.found = t.count, !.count = t.count + 1]
<1>1. s \in Slots /\ ~Used(t, s)
  BY NewColour
<1>2. t \in Tables /\ t.count \in Nat /\ t.slots \in [Slots -> [key : Nat, idx : Int]]
  BY ApxlAssumption, SMT DEF TableOk, Tables
<1>3. LookupOrInsert(t, k) = u
  <2>1. ~(t.count >= APXL_MAX_PALETTE)
    BY <1>2, ApxlAssumption, SMT
  <2> QED
    BY <1>1, <2>1 DEF LookupOrInsert, Used, Full
<1>4. /\ u.slots = [t.slots EXCEPT ![s] = r] /\ u.count = t.count + 1
      /\ u.full = t.full /\ u \in Tables
  <2>1. u = [t EXCEPT !.slots[s] = [key |-> k, idx |-> t.count],
                      !.found = t.count, !.count = t.count + 1]
    OBVIOUS
  <2> HIDE DEF s, u
  <2>2. s \in Slots /\ t \in Tables
    BY <1>1, <1>2
  <2>4. /\ u.slots = [t.slots EXCEPT ![s] = [key |-> k, idx |-> t.count]]
        /\ u.count = t.count + 1 /\ u.found = t.count /\ u.full = t.full
    BY <2>1, <2>2, Zenon DEF Tables
  <2>5. t.count + 1 \in 0..APXL_MAX_PALETTE /\ t.count \in Int
    BY <2>2, ApxlAssumption, SMT DEF Tables
  <2>6. k \in Nat
    BY DEF Colours
  <2>7. [t.slots EXCEPT ![s] = [key |-> k, idx |-> t.count]] \in [Slots -> [key : Nat, idx : Int]]
    <3>1. t.slots \in [Slots -> [key : Nat, idx : Int]]
      BY <2>2 DEF Tables
    <3>2. [key |-> k, idx |-> t.count] \in [key : Nat, idx : Int]
      BY <2>5, <2>6
    <3> QED
      BY <3>1, <3>2
  <2>8. u = [slots |-> u.slots, count |-> u.count, found |-> u.found, full |-> u.full]
    BY <2>1, <2>2, Zenon DEF Tables
  <2>9. u.full \in BOOLEAN
    BY <2>2, <2>4, Zenon DEF Tables
  <2> QED
    BY <2>4, <2>5, <2>7, <2>8, <2>9, Zenon DEF Tables
<1> HIDE DEF u
<1>n. u.slots = [t.slots EXCEPT ![s] = r]
  BY <1>4
<1>5. u.slots[s] = r /\ \A v \in Slots : v # s => u.slots[v] = t.slots[v]
  BY <1>1, <1>2, <1>4, Zenon
<1>6. Used(u, s) /\ u.slots[s].idx = t.count /\ u.slots[s].key = k
  BY <1>2, <1>5, SMT DEF Used
<1>7. \A v \in Slots : v # s => (Used(u, v) <=> Used(t, v))
  BY <1>5 DEF Used
<1>8. \A v \in Slots : t.slots[v].idx \in -1..(t.count - 1)
  BY DEF TableOk
<1>9. \A v \in Slots : u.slots[v].idx \in -1..(u.count - 1)
  <2> HIDE DEF s, r
  <2>1. SUFFICES ASSUME NEW v \in Slots PROVE u.slots[v].idx \in -1..(u.count - 1)
    OBVIOUS
  <2>2. CASE v = s
    BY <1>2, <1>4, <1>6, <2>2, SMT
  <2>3. CASE v # s
    BY <1>2, <1>4, <1>5, <1>8, <2>3, SMT
  <2> QED
    BY <2>2, <2>3
<1>10. \A v, w \in Slots : Used(u, v) /\ u.slots[v].idx = u.slots[w].idx => v = w
  <2> HIDE DEF s, r
  <2>1. SUFFICES ASSUME NEW v \in Slots, NEW w \in Slots, Used(u, v),
                        u.slots[v].idx = u.slots[w].idx, v # w
                 PROVE  FALSE
    OBVIOUS
  <2>2. \A x \in Slots : x # s => u.slots[x].idx # t.count
    BY <1>2, <1>5, <1>8, SMT
  <2>3. v # s /\ w # s
    BY <1>6, <2>1, <2>2
  <2> QED
    BY <1>5, <1>7, <2>1, <2>3 DEF TableOk
<1>11. \A i \in 0..(u.count - 1) : \E v \in Slots : u.slots[v].idx = i
  <2> HIDE DEF s, r
  <2>1. SUFFICES ASSUME NEW i \in 0..(u.count - 1) PROVE \E v \in Slots : u.slots[v].idx = i
    OBVIOUS
  <2>2. CASE i = t.count
    BY <1>1, <1>6, <2>2
  <2>3. CASE i # t.count
    <3>1. i \in 0..(t.count - 1)
      BY <1>2, <1>4, <2>3, SMT
    <3>2. PICK v \in Slots : t.slots[v].idx = i
      BY <3>1 DEF TableOk
    <3>3. v # s
      BY <1>1, <3>1, <3>2, SMT DEF Used
    <3> QED
      BY <1>5, <3>2, <3>3
  <2> QED
    BY <2>2, <2>3
<1>12. \A v \in Slots : Used(u, v) =>
         u.slots[v].key \in Colours /\ Probe(u.slots, u.slots[v].key) = v
  <2>1. SUFFICES ASSUME NEW v \in Slots, Used(u, v)
                 PROVE  u.slots[v].key \in Colours /\ Probe(u.slots, u.slots[v].key) = v
    OBVIOUS
  <2>2. CASE v = s
    <3>1. u.slots[Probe(t.slots, k)].key = k
      BY <1>6
    <3>2. Probe(u.slots, k) = Probe(t.slots, k)
      <4> HIDE DEF s, r
      <4> QED
        BY <1>1, <1>n, <3>1, ProbesStay
    <3> QED
      BY <1>6, <2>2, <3>2
  <2>3. CASE v # s
    <3>1. Used(t, v) /\ u.slots[v] = t.slots[v]
      BY <1>5, <1>7, <2>1, <2>3
    <3>2. t.slots[v].key \in Colours /\ Probe(t.slots, t.slots[v].key) = v
      BY <3>1 DEF TableOk
    <3>3. Probe(u.slots, t.slots[v].key) = Probe(t.slots, t.slots[v].key)
      <4> HIDE DEF s, r
      <4>1. u.slots[Probe(t.slots, t.slots[v].key)].key = t.slots[v].key
        BY <3>1, <3>2
      <4> QED
        BY <1>1, <1>n, <3>2, <4>1, ProbesStay
    <3> QED
      BY <3>1, <3>2, <3>3
  <2> QED
    BY <2>2, <2>3
<1>13. Keys(u) = Keys(t) \cup {k}
  <2> HIDE DEF s, r
  <2> QED
    BY <1>1, <1>5, <1>6, <1>7 DEF Keys
<1> QED
  BY <1>3, <1>4, <1>9, <1>10, <1>11, <1>12, <1>13 DEF TableOk

\* As many colours as the count says.
LEMMA ColoursCounted ==
  ASSUME NEW t, TableOk(t)
  PROVE  IsFiniteSet(Keys(t)) /\ Cardinality(Keys(t)) = t.count
<1> DEFINE I == 0..(t.count - 1)
           f == [i \in I |-> ColourAt(t, i)]
<1>1. t.count \in Nat
  BY ApxlAssumption, SMT DEF TableOk, Tables
<1>2. IsFiniteSet(I) /\ Cardinality(I) = t.count
  BY <1>1, CountingFromZero
<1>3. f \in [I -> Keys(t)]
  BY ColourIsKey
<1>4. \A i, j \in I : f[i] = f[j] => i = j
  BY ColourIsKey
<1>5. \A k \in Keys(t) : \E i \in I : f[i] = k
  <2>1. SUFFICES ASSUME NEW k \in Keys(t) PROVE \E i \in I : f[i] = k
    OBVIOUS
  <2> DEFINE n == LookupOrInsert(t, k).found
  <2>2. n \in I /\ ColourAt(t, n) = k
    BY LookupFinds
  <2> HIDE DEF n
  <2> QED
    BY <2>2
<1>a. DOMAIN f = I
  OBVIOUS
<1> HIDE DEF I, f
<1>6. f \in Bijection(I, Keys(t))
  BY <1>a, <1>3, <1>4, <1>5, Zenon DEF Bijection, Injection, Surjection, IsInjective
<1> QED
  BY <1>2, <1>6, FS_Bijection DEF ExistsBijection

------------------------------------------------------------------------------
(* Lists of pointers                                                         *)

\* A list of pointers that free() may be given: to the blocks B, each once.
Names ==
  { "frames", "storage", "metadata", "palette", "palette_alpha", "pixels",
    "indices", "table", "new_bufs", "raw", "file" }
Pointers == [block : Names \X Nat, at : Nat]
Fine(s, B) ==
  /\ s \in Seq(Pointers)
  /\ \A i \in 1..Len(s) : s[i].at = 0 /\ s[i].block \in B
  /\ \A b \in B : \E i \in 1..Len(s) : s[i].block = b
  /\ \A i, j \in 1..Len(s) : s[i].block = s[j].block => i = j

\* Two such lists of different blocks, one after the other.
LEMMA FineConcat ==
  ASSUME NEW s, NEW B, Fine(s, B), NEW t, NEW C, Fine(t, C), B \cap C = {}
  PROVE  Fine(s \o t, B \cup C)
<1> DEFINE u == s \o t
<1>1. /\ u \in Seq(Pointers) /\ Len(u) = Len(s) + Len(t)
      /\ Len(s) \in Nat /\ Len(t) \in Nat
      /\ \A i \in 1..Len(s) : u[i] = s[i]
      /\ \A i \in 1..Len(t) : u[Len(s) + i] = t[i]
  BY DEF Fine
<1>2. \A i \in 1..Len(u) : i \in 1..Len(s) \/ \E k \in 1..Len(t) : i = Len(s) + k
  <2>1. SUFFICES ASSUME NEW i \in 1..Len(u), i \notin 1..Len(s)
                 PROVE  \E k \in 1..Len(t) : i = Len(s) + k
    OBVIOUS
  <2>2. i - Len(s) \in 1..Len(t) /\ i = Len(s) + (i - Len(s))
    BY <1>1, <2>1, SMT
  <2> QED
    BY <2>2
<1>3. \A i \in 1..Len(t) : Len(s) + i \in 1..Len(u)
  BY <1>1, SMT
<1>4. \A i \in 1..Len(s) : i \in 1..Len(u)
  BY <1>1, SMT
<1> HIDE DEF u
<1>5. \A i \in 1..Len(u) : u[i].at = 0 /\ u[i].block \in B \cup C
  <2>1. SUFFICES ASSUME NEW i \in 1..Len(u) PROVE u[i].at = 0 /\ u[i].block \in B \cup C
    OBVIOUS
  <2>2. CASE i \in 1..Len(s)
    BY <1>1, <2>2 DEF Fine
  <2>3. CASE i \notin 1..Len(s)
    <3>1. PICK k \in 1..Len(t) : i = Len(s) + k
      BY <1>2, <2>3
    <3>2. u[i] = t[k]
      BY <1>1, <3>1
    <3> QED
      BY <3>2 DEF Fine
  <2> QED
    BY <2>2, <2>3
<1>6. \A b \in B \cup C : \E i \in 1..Len(u) : u[i].block = b
  <2>1. SUFFICES ASSUME NEW b \in B \cup C PROVE \E i \in 1..Len(u) : u[i].block = b
    OBVIOUS
  <2>2. CASE b \in B
    <3>1. PICK i \in 1..Len(s) : s[i].block = b
      BY <2>2 DEF Fine
    <3> QED
      BY <1>1, <1>4, <3>1, Zenon
  <2>3. CASE b \in C
    <3>1. PICK i \in 1..Len(t) : t[i].block = b
      BY <2>3 DEF Fine
    <3>2. u[Len(s) + i].block = b /\ Len(s) + i \in 1..Len(u)
      BY <1>1, <1>3, <3>1
    <3> QED
      BY <3>2
  <2> QED
    BY <2>2, <2>3
<1>7. \A i, j \in 1..Len(u) : u[i].block = u[j].block => i = j
  <2>1. SUFFICES ASSUME NEW i \in 1..Len(u), NEW j \in 1..Len(u), u[i].block = u[j].block
                 PROVE  i = j
    OBVIOUS
  <2>2. CASE i \in 1..Len(s) /\ j \in 1..Len(s)
    BY <1>1, <2>1, <2>2 DEF Fine
  <2>3. CASE i \in 1..Len(s) /\ j \notin 1..Len(s)
    <3>1. PICK k \in 1..Len(t) : j = Len(s) + k
      BY <1>2, <2>3
    <3>2. u[i].block \in B /\ u[j].block \in C
      BY <1>1, <2>3, <3>1, Zenon DEF Fine
    <3> QED
      BY <2>1, <3>2
  <2>4. CASE i \notin 1..Len(s) /\ j \in 1..Len(s)
    <3>1. PICK k \in 1..Len(t) : i = Len(s) + k
      BY <1>2, <2>4
    <3>2. u[j].block \in B /\ u[i].block \in C
      BY <1>1, <2>4, <3>1, Zenon DEF Fine
    <3> QED
      BY <2>1, <3>2
  <2>5. CASE i \notin 1..Len(s) /\ j \notin 1..Len(s)
    <3>1. PICK k \in 1..Len(t) : i = Len(s) + k
      BY <1>2, <2>5
    <3>2. PICK l \in 1..Len(t) : j = Len(s) + l
      BY <1>2, <2>5
    <3>3. t[k].block = t[l].block
      BY <1>1, <2>1, <3>1, <3>2
    <3>4. k = l
      BY <3>3 DEF Fine
    <3> QED
      BY <3>1, <3>2, <3>4
  <2> QED
    BY <2>2, <2>3, <2>4, <2>5
<1> QED
  BY <1>1, <1>5, <1>6, <1>7 DEF Fine, u

\* One pointer to the start of a block.
LEMMA FineOne ==
  ASSUME NEW b \in Names \X Nat
  PROVE  Fine(<<Ptr(b)>>, {b})
<1> DEFINE s == <<Ptr(b)>>
<1>1. Ptr(b) \in Pointers /\ Ptr(b).block = b /\ Ptr(b).at = 0
  BY DEF Ptr, Pointers
<1>2. s \in Seq(Pointers) /\ Len(s) = 1 /\ s[1] = Ptr(b)
  BY <1>1
<1>3. \A i \in 1..Len(s) : i = 1
  BY <1>2
<1> HIDE DEF s
<1>4. Fine(s, {b})
  BY <1>1, <1>2, <1>3, SMT DEF Fine
<1> QED
  BY <1>4 DEF s

\* The empty list.
LEMMA FineNone == Fine(<<>>, {})
  BY DEF Fine

\* What is freed, and that nothing is misused.
LEMMA FineFrees ==
  ASSUME NEW s, NEW B, Fine(s, B), B \subseteq heap
  PROVE  Misused(s) = {} /\ Freed(s) = B
<1>1. Misused(s) = {}
  <2>1. SUFFICES ASSUME NEW i \in 1..Len(s), \E j \in 1..(i - 1) : s[j] = s[i] PROVE FALSE
    BY DEF Misused, Fine
  <2>2. PICK j \in 1..(i - 1) : s[j] = s[i]
    BY <2>1
  <2>3. Len(s) \in Nat
    BY DEF Fine
  <2>4. j \in 1..Len(s) /\ j # i
    BY <2>2, <2>3, SMT
  <2> QED
    BY <2>2, <2>4 DEF Fine
<1>2. Freed(s) = { s[i].block : i \in 1..Len(s) }
  BY <1>1 DEF Freed
<1>3. { s[i].block : i \in 1..Len(s) } = B
  BY DEF Fine
<1> QED
  BY <1>1, <1>2, <1>3

\* The blocks of an animation.
OwnBlocks(a) ==
  (IF a.storage THEN {Block("frames"), Block("storage")}
   ELSE { a.frames[i].buf.block : i \in 1..FrameCount(a) } \cup {Block("frames")})
    \cup (IF a.metadata # <<>> THEN {Block("metadata")} ELSE {})
    \cup (IF a.palette # <<>> THEN {Block("palette")} ELSE {})
    \cup (IF a.palette_alpha # <<>> THEN {Block("palette_alpha")} ELSE {})

\* A named block and the pointer to it.
LEMMA BlockIsBlock ==
  ASSUME NEW k \in Names
  PROVE  Block(k) \in Names \X Nat
  BY DEF Block

\* A pointer leads to the start of its block.
LEMMA PtrIs ==
  ASSUME NEW b \in Names \X Nat
  PROVE  Ptr(b) \in Pointers /\ Ptr(b).block = b /\ Ptr(b).at = 0
  BY DEF Ptr, Pointers

\* A list of one named block.
LEMMA FineBlock ==
  ASSUME NEW k \in Names
  PROVE  Fine(<<Ptr(Block(k))>>, {Block(k)})
  BY BlockIsBlock, FineOne

\* Two lists of one make a list of two.
LEMMA TwoInARow ==
  ASSUME NEW S, NEW p \in S, NEW q \in S
  PROVE  <<p>> \o <<q>> = <<p, q>>
<1>1. <<p>> \o <<q>> \in Seq(S) /\ <<p, q>> \in Seq(S)
  OBVIOUS
<1>2. Len(<<p>> \o <<q>>) = 2 /\ Len(<<p, q>>) = 2
  OBVIOUS
<1>3. \A i \in 1..2 : (<<p>> \o <<q>>)[i] = <<p, q>>[i]
  OBVIOUS
<1> QED
  BY <1>1, <1>2, <1>3, SeqEqual

\* A block that is there or not.
LEMMA FineOptional ==
  ASSUME NEW k \in Names, NEW c \in BOOLEAN
  PROVE  Fine(IF c THEN <<Ptr(Block(k))>> ELSE <<>>, IF c THEN {Block(k)} ELSE {})
<1>1. Block(k) \in Names \X Nat
  BY BlockIsBlock
<1>2. CASE c
  BY <1>1, <1>2, FineOne
<1>3. CASE ~c
  BY <1>3, FineNone
<1> QED
  BY <1>2, <1>3, Zenon

\* The frames' buffers, where every frame has its own.
LEMMA BufsFine ==
  ASSUME NEW a \in Anims, AsGiven(a) \/ AsIndexed(a)
  PROVE  /\ Fine(Bufs(a), { a.frames[i].buf.block : i \in 1..FrameCount(a) })
         /\ \A i \in 1..FrameCount(a) :
              a.frames[i].buf.block \in {<<"pixels", i>>, <<"indices", i>>}
<1> DEFINE n == FrameCount(a)
           B == { a.frames[i].buf.block : i \in 1..n }
<1>1. PICK k \in {"pixels", "indices"} : \A i \in 1..n : a.frames[i].buf = Ptr(<<k, i>>)
  BY DEF AsGiven, AsIndexed
<1>2. n \in Nat
  BY DEF FrameCount, Anims
<1>3. \A i \in 1..n : a.frames[i].buf \in Pointers /\ a.frames[i].buf.at = 0
                        /\ a.frames[i].buf.block = <<k, i>>
  <2>1. SUFFICES ASSUME NEW i \in 1..n
                 PROVE  a.frames[i].buf \in Pointers /\ a.frames[i].buf.at = 0
                        /\ a.frames[i].buf.block = <<k, i>>
    OBVIOUS
  <2>2. <<k, i>> \in Names \X Nat
    BY <1>2 DEF Names
  <2> QED
    BY <1>1, <2>2, PtrIs
<1>4. Bufs(a) \in Seq(Pointers) /\ Len(Bufs(a)) = n
      /\ \A i \in 1..n : Bufs(a)[i] = a.frames[i].buf
  BY <1>2, <1>3 DEF Bufs
<1> HIDE DEF n
<1>5. Fine(Bufs(a), B)
  BY <1>3, <1>4 DEF Fine
<1> QED
  BY <1>3, <1>5 DEF n

\* apxl_free is given the blocks of the animation, each once.
LEMMA AnimFine ==
  ASSUME NEW a \in Anims, a.storage \/ AsGiven(a) \/ AsIndexed(a)
  PROVE  /\ Fine(FreedWithAnim(a), OwnBlocks(a))
         /\ OwnBlocks(a) \subseteq
              ({"pixels", "indices"} \X Nat)
                \cup { Block(k) : k \in {"frames", "storage", "metadata", "palette",
                                        "palette_alpha"} }
         /\ { p.block : p \in Range(FreedWithAnim(a)) } = OwnBlocks(a)
<1> DEFINE M == IF a.metadata # <<>> THEN {Block("metadata")} ELSE {}
           P == IF a.palette # <<>> THEN {Block("palette")} ELSE {}
           Q == IF a.palette_alpha # <<>> THEN {Block("palette_alpha")} ELSE {}
           F == IF a.storage THEN {Block("frames"), Block("storage")}
                ELSE { a.frames[i].buf.block : i \in 1..FrameCount(a) } \cup {Block("frames")}
<1>1. Fine(FreedWithFrames(a), F)
  <2>1. CASE a.storage
    <3>1. Fine(<<Ptr(Block("frames"))>>, {Block("frames")})
      BY FineBlock DEF Names
    <3>2. Fine(<<Ptr(Block("storage"))>>, {Block("storage")})
      BY FineBlock DEF Names
    <3>3. {Block("frames")} \cap {Block("storage")} = {}
      BY DEF Block
    <3>4. Fine(<<Ptr(Block("frames"))>> \o <<Ptr(Block("storage"))>>,
               {Block("frames")} \cup {Block("storage")})
      BY <3>1, <3>2, <3>3, FineConcat
    <3>5. <<Ptr(Block("frames"))>> \o <<Ptr(Block("storage"))>>
            = <<Ptr(Block("frames")), Ptr(Block("storage"))>>
      <4>1. Ptr(Block("frames")) \in Pointers /\ Ptr(Block("storage")) \in Pointers
        BY BlockIsBlock, PtrIs DEF Names
      <4> QED
        BY <4>1, TwoInARow, Zenon
    <3>6. {Block("frames")} \cup {Block("storage")} = {Block("frames"), Block("storage")}
      OBVIOUS
    <3> QED
      BY <2>1, <3>4, <3>5, <3>6 DEF FreedWithFrames
  <2>2. CASE ~a.storage
    <3> DEFINE B == { a.frames[i].buf.block : i \in 1..FrameCount(a) }
    <3>1. Fine(Bufs(a), B)
      BY <2>2, BufsFine
    <3>2. Fine(<<Ptr(Block("frames"))>>, {Block("frames")})
      BY FineBlock DEF Names
    <3>3. B \cap {Block("frames")} = {}
      <4>1. \A i \in 1..FrameCount(a) : a.frames[i].buf.block \in {<<"pixels", i>>, <<"indices", i>>}
        BY <2>2, BufsFine
      <4>2. \A i \in 1..FrameCount(a) : a.frames[i].buf.block # Block("frames")
        <5>1. \A i : <<"pixels", i>>[1] # Block("frames")[1] /\ <<"indices", i>>[1] # Block("frames")[1]
          BY DEF Block
        <5>2. SUFFICES ASSUME NEW i \in 1..FrameCount(a), a.frames[i].buf.block = Block("frames")
                       PROVE  FALSE
          OBVIOUS
        <5>3. a.frames[i].buf.block = <<"pixels", i>> \/ a.frames[i].buf.block = <<"indices", i>>
          BY <4>1
        <5> QED
          BY <5>1, <5>2, <5>3, Zenon
      <4> QED
        BY <4>2
    <3>4. Fine(Bufs(a) \o <<Ptr(Block("frames"))>>, B \cup {Block("frames")})
      <4> HIDE DEF B
      <4> QED
        BY <3>1, <3>2, <3>3, FineConcat
    <3> QED
      BY <2>2, <3>4 DEF FreedWithFrames
  <2> QED
    BY <2>1, <2>2
<1>2. Fine(IF a.metadata # <<>> THEN <<Ptr(Block("metadata"))>> ELSE <<>>, M)
  BY FineOptional DEF Names
<1>3. Fine(IF a.palette # <<>> THEN <<Ptr(Block("palette"))>> ELSE <<>>, P)
  BY FineOptional DEF Names
<1>4. Fine(IF a.palette_alpha # <<>> THEN <<Ptr(Block("palette_alpha"))>> ELSE <<>>, Q)
  BY FineOptional DEF Names
<1>5. F \subseteq ({"pixels", "indices"} \X Nat) \cup {Block("frames"), Block("storage")}
  <2>1. CASE a.storage
    BY <2>1
  <2>2. CASE ~a.storage
    <3>1. FrameCount(a) \in Nat
      BY DEF FrameCount, Anims
    <3> QED
      <4>1. \A i \in 1..FrameCount(a) : a.frames[i].buf.block \in {<<"pixels", i>>, <<"indices", i>>}
        BY <2>2, BufsFine
      <4>2. \A i \in 1..FrameCount(a) : i \in Nat
        BY <3>1
      <4>3. \A i \in 1..FrameCount(a) : a.frames[i].buf.block \in {"pixels", "indices"} \X Nat
        BY <4>1, <4>2
      <4> QED
        BY <2>2, <4>3
  <2> QED
    BY <2>1, <2>2
<1>6. /\ F \cap M = {} /\ (F \cup M) \cap P = {} /\ ((F \cup M) \cup P) \cap Q = {}
  <2>1. M \subseteq {Block("metadata")} /\ P \subseteq {Block("palette")}
        /\ Q \subseteq {Block("palette_alpha")}
    OBVIOUS
  <2> HIDE DEF F, M, P, Q
  <2> QED
    BY <1>5, <2>1 DEF Block
<1> DEFINE m == IF a.metadata # <<>> THEN <<Ptr(Block("metadata"))>> ELSE <<>>
           p == IF a.palette # <<>> THEN <<Ptr(Block("palette"))>> ELSE <<>>
           q == IF a.palette_alpha # <<>> THEN <<Ptr(Block("palette_alpha"))>> ELSE <<>>
<1>7. /\ Fine(FreedWithFrames(a), F) /\ Fine(m, M) /\ Fine(p, P) /\ Fine(q, Q)
  BY <1>1, <1>2, <1>3, <1>4
<1>8. FreedWithAnim(a) = ((FreedWithFrames(a) \o m) \o p) \o q
      /\ OwnBlocks(a) = ((F \cup M) \cup P) \cup Q
  BY DEF FreedWithAnim, OwnBlocks
<1>9. OwnBlocks(a) \subseteq
              ({"pixels", "indices"} \X Nat)
                \cup { Block(k) : k \in {"frames", "storage", "metadata", "palette",
                                        "palette_alpha"} }
  <2>1. M \subseteq {Block("metadata")} /\ P \subseteq {Block("palette")}
        /\ Q \subseteq {Block("palette_alpha")}
    OBVIOUS
  <2> HIDE DEF F, M, P, Q, m, p, q
  <2> QED
    BY <1>5, <1>8, <2>1
<1> HIDE DEF F, M, P, Q, m, p, q
<1>10. Fine(FreedWithAnim(a), OwnBlocks(a))
  <2>1. Fine(FreedWithFrames(a) \o m, F \cup M)
    BY <1>6, <1>7, FineConcat
  <2>2. Fine((FreedWithFrames(a) \o m) \o p, (F \cup M) \cup P)
    BY <1>6, <1>7, <2>1, FineConcat
  <2>3. Fine(((FreedWithFrames(a) \o m) \o p) \o q, ((F \cup M) \cup P) \cup Q)
    BY <1>6, <1>7, <2>2, FineConcat
  <2> QED
    BY <1>8, <2>3
<1>11. { x.block : x \in Range(FreedWithAnim(a)) } = OwnBlocks(a)
  BY <1>10 DEF Fine, Range
<1> QED
  BY <1>9, <1>10, <1>11

------------------------------------------------------------------------------
(* Blocks of the caller and of the call                                      *)

\* Only a zeroed animation is NoAnim.
LEMMA AnimIsThere == \A a \in Anims : a # NoAnim
<1>1. \A a \in Anims : "channels" \in DOMAIN a
  BY DEF Anims
<1>2. "channels" \notin DOMAIN NoAnim
  BY DEF NoAnim
<1> QED
  BY <1>1, <1>2

\* Only a missing file is NoFile.
LEMMA FileIsThere == \A f \in Files : f # NoFile
<1>1. \A f \in Files : "channels" \in DOMAIN f
  BY DEF Files
<1>2. "channels" \notin DOMAIN NoFile
  BY DEF NoFile
<1> QED
  BY <1>1, <1>2

FileBlocks(f) == IF f = NoFile THEN {} ELSE {Block("file")}
AnimBlocks(a) == IF a = NoAnim THEN {} ELSE OwnBlocks(a)

\* What the caller's animation and file own, block by block.
LEMMA OwnedIs ==
  ASSUME anim # NoAnim => anim \in Anims, BufsOwned
  PROVE  Owned = AnimBlocks(anim) \cup FileBlocks(file)
<1>1. CASE anim = NoAnim
  BY <1>1 DEF Owned, AnimBlocks, FileBlocks
<1>2. CASE anim # NoAnim
  <2>1. { p.block : p \in Range(FreedWithAnim(anim)) } = OwnBlocks(anim)
    BY <1>2, AnimFine DEF BufsOwned
  <2> QED
    BY <1>2, <2>1 DEF Owned, AnimBlocks, FileBlocks
<1> QED
  BY <1>1, <1>2

\* The same after a step.
LEMMA OwnedIsNext ==
  ASSUME anim' # NoAnim => anim' \in Anims, BufsOwned'
  PROVE  Owned' = AnimBlocks(anim') \cup FileBlocks(file')
<1>1. CASE anim' = NoAnim
  BY <1>1 DEF Owned, AnimBlocks, FileBlocks
<1>2. CASE anim' # NoAnim
  <2>1. { p.block : p \in Range(FreedWithAnim(anim')) } = OwnBlocks(anim')
    BY <1>2, AnimFine DEF BufsOwned
  <2> QED
    BY <1>2, <2>1 DEF Owned, AnimBlocks, FileBlocks
<1> QED
  BY <1>1, <1>2

\* The kinds of block the caller owns.
LEMMA OwnedKinds ==
  ASSUME CallsInv
  PROVE  /\ Owned \subseteq
              ({"pixels", "indices"} \X Nat)
                \cup { Block(k) : k \in {"frames", "storage", "metadata", "palette",
                                        "palette_alpha", "file"} }
         /\ anim # NoAnim /\ ~anim.storage /\ anim.channels # 1 =>
              /\ AsGiven(anim)
              /\ Owned \subseteq ({"pixels"} \X Nat)
                   \cup {Block("frames"), Block("metadata"), Block("file")}
         /\ anim = NoAnim => Owned = FileBlocks(file)
<1>1. (anim # NoAnim => anim \in Anims) /\ BufsOwned
  BY DEF CallsInv, TypeOK
<1>2. Owned = AnimBlocks(anim) \cup FileBlocks(file)
  BY <1>1, OwnedIs
<1>3. FileBlocks(file) \subseteq {Block("file")}
  BY DEF FileBlocks
<1>4. anim = NoAnim => AnimBlocks(anim) = {}
  BY DEF AnimBlocks
<1>5. anim # NoAnim => AnimBlocks(anim) \subseteq
              ({"pixels", "indices"} \X Nat)
                \cup { Block(k) : k \in {"frames", "storage", "metadata", "palette",
                                        "palette_alpha"} }
  BY <1>1, AnimFine DEF AnimBlocks, BufsOwned
<1>6. ASSUME anim # NoAnim, ~anim.storage, anim.channels # 1
      PROVE  /\ AsGiven(anim)
             /\ AnimBlocks(anim) \subseteq ({"pixels"} \X Nat)
                  \cup {Block("frames"), Block("metadata")}
  <2>1. AsGiven(anim) /\ anim \in Anims
    BY <1>1, <1>6 DEF BufsOwned, AsIndexed
  <2>2. \A i \in 1..FrameCount(anim) : i \in Nat /\ anim.frames[i].buf.block = <<"pixels", i>>
    <3>1. FrameCount(anim) \in Nat
      BY <2>1 DEF FrameCount, Anims
    <3>2. \A i \in 1..FrameCount(anim) : anim.frames[i].buf = Ptr(<<"pixels", i>>)
      BY <2>1 DEF AsGiven
    <3>3. \A b : Ptr(b).block = b
      BY DEF Ptr
    <3>4. \A i \in 1..FrameCount(anim) : anim.frames[i].buf.block = <<"pixels", i>>
      BY <3>2, <3>3, Zenon
    <3>5. \A i \in 1..FrameCount(anim) : i \in Nat
      BY <3>1
    <3> QED
      BY <3>4, <3>5
  <2>3. { anim.frames[i].buf.block : i \in 1..FrameCount(anim) } \subseteq {"pixels"} \X Nat
    BY <2>2
  <2>4. anim.palette = <<>> /\ anim.palette_alpha = <<>>
    BY <2>1 DEF AsGiven
  <2> QED
    BY <1>6, <2>1, <2>3, <2>4 DEF AnimBlocks, OwnBlocks
<1>a. CASE anim = NoAnim
  BY <1>2, <1>3, <1>4, <1>a
<1>b. CASE anim # NoAnim
  BY <1>2, <1>3, <1>5, <1>6, <1>b
<1> QED
  BY <1>a, <1>b

\* The call in progress has blocks of its own.
LEMMA BusyApart ==
  ASSUME CallsInv
  PROVE  Owned \cap Busy = {}
<1>1. CASE pc \in IndexSteps
  <2>1. anim # NoAnim /\ ~anim.storage /\ anim.channels # 1
    BY <1>1, SMT DEF CallsInv, IndexInv, Indexable
  <2>2. Owned \subseteq ({"pixels"} \X Nat) \cup {Block("frames"), Block("metadata"), Block("file")}
    BY <2>1, OwnedKinds
  <2>3. Busy \subseteq {Block("table"), Block("new_bufs")} \cup
                       { <<"indices", i>> : i \in 1..Len(work.bufs) }
    BY <1>1 DEF Busy, IndexSteps, NewBufs, Blocks
  <2> QED
    BY <2>2, <2>3 DEF Block
<1>2. CASE pc \in DecodeSteps
  <2>1. anim = NoAnim
    BY <1>2 DEF CallsInv, DecodeInv
  <2>2. Owned \subseteq {Block("file")}
    BY <2>1, OwnedKinds DEF FileBlocks
  <2>3. Busy \subseteq {Block("palette"), Block("palette_alpha"), Block("storage")}
    BY <1>2 DEF Busy, DecodeSteps, PaletteBlocks
  <2> QED
    BY <2>2, <2>3 DEF Block
<1>3. CASE pc \in EncodeSteps
  <2>1. Busy \subseteq {Block("raw")}
    BY <1>3 DEF Busy, EncodeSteps
  <2> QED
    BY <2>1, OwnedKinds DEF Block
<1>4. CASE pc \notin IndexSteps \cup DecodeSteps \cup EncodeSteps
  BY <1>4 DEF Busy, IndexSteps, DecodeSteps, EncodeSteps
<1> QED
  BY <1>1, <1>2, <1>3, <1>4

\* What a call leaves behind when it returns without a new animation or file.
LEMMA ReturnKeeps ==
  ASSUME CallsInv, Return, UNCHANGED <<anim, file, wild>>, heap' = Owned,
         starved' \in BOOLEAN
  PROVE  CallsInv'
<1>1. Owned' = Owned
  BY DEF Owned
<1>2. Busy' = {}
  BY DEF Return, Busy
<1>3. HeapIsOwned'
  BY <1>1, <1>2 DEF HeapIsOwned
<1>4. TypeOK' /\ FreesAreSound'
  BY DEF CallsInv, TypeOK, FreesAreSound, Return
<1>5. BufsOwned'
  BY DEF CallsInv, BufsOwned
<1>6. IndexInv' /\ EncodeInv'
  BY DEF Return, IndexInv, EncodeInv, IndexSteps, EncodeSteps
<1>7. DecodeInv'
  BY DEF CallsInv, Return, DecodeInv, DecodeSteps
<1> QED
  BY <1>3, <1>4, <1>5, <1>6, <1>7 DEF CallsInv

\* A call that gives up has freed what it had allocated.
LEMMA GiveUpKeeps ==
  ASSUME CallsInv, NEW B, GiveUp(B), B = Busy
  PROVE  CallsInv'
<1>1. heap' = Owned
  BY BusyApart DEF CallsInv, HeapIsOwned, GiveUp
<1> QED
  BY <1>1, ReturnKeeps DEF GiveUp

\* Where a call has nothing allocated.
LEMMA NothingBusy ==
  ASSUME CallsInv, pc \in {"idle", "table", "gather", "header", "palette"}
  PROVE  heap = Owned /\ Busy = {}
  BY DEF CallsInv, HeapIsOwned, Busy

\* Freeing one block the call has allocated.
LEMMA FreeOwn ==
  ASSUME CallsInv, NEW k \in Names, Block(k) \in heap, NEW B, Free(<<Ptr(Block(k))>>, B)
  PROVE  heap' = (heap \ {Block(k)}) \cup B /\ wild' = wild
<1>1. Misused(<<Ptr(Block(k))>>) = {} /\ Freed(<<Ptr(Block(k))>>) = {Block(k)}
  BY FineBlock, FineFrees
<1>2. heap' = (heap \ {Block(k)}) \cup B
  BY <1>1 DEF Free
<1>3. wild' = wild
  <2>1. wild \in BOOLEAN
    BY DEF CallsInv, TypeOK
  <2>2. wild' = (wild \/ Misused(<<Ptr(Block(k))>>) # {})
    BY Zenon DEF Free
  <2> QED
    BY <1>1, <2>1, <2>2, Zenon
<1> QED
  BY <1>2, <1>3

\* Steps that go on within a call and allocate nothing of the caller's.
LEMMA GoesOn ==
  ASSUME CallsInv, UNCHANGED <<anim, file, wild, starved>>,
         pc' \in IndexSteps \cup EncodeSteps \cup DecodeSteps,
         IndexInv', EncodeInv', DecodeInv', heap' = Owned \cup Busy'
  PROVE  CallsInv'
<1>1. Owned' = Owned
  BY DEF Owned
<1>2. HeapIsOwned'
  BY <1>1 DEF HeapIsOwned
<1>3. TypeOK' /\ FreesAreSound'
  BY DEF CallsInv, TypeOK, FreesAreSound, IndexSteps, EncodeSteps, DecodeSteps
<1>5. BufsOwned'
  BY DEF CallsInv, BufsOwned
<1> QED
  BY <1>2, <1>3, <1>5 DEF CallsInv

\* Steps outside the decoder that keep the file.
LEMMA FileStays ==
  ASSUME CallsInv, UNCHANGED file, pc' \notin DecodeSteps
  PROVE  DecodeInv'
  BY DEF CallsInv, DecodeInv, DecodeSteps

------------------------------------------------------------------------------
(* The caller                                                                *)

\* pxl_free of the file.
LEMMA DropFileKeeps ==
  ASSUME CallsInv, DropFile
  PROVE  CallsInv'
<1>1. heap = Owned /\ pc = "idle" /\ file # NoFile
  BY NothingBusy DEF DropFile, Idle
<1>2. Owned = AnimBlocks(anim) \cup {Block("file")}
  BY <1>1, OwnedIs DEF CallsInv, TypeOK, FileBlocks
<1>3. heap' = (heap \ {Block("file")}) \cup {} /\ wild' = wild
  <2>1. "file" \in Names /\ Block("file") \in heap
    BY <1>1, <1>2 DEF Names
  <2> QED
    BY <2>1, FreeOwn DEF DropFile
<1>4. Block("file") \notin AnimBlocks(anim)
  <2>1. CASE anim = NoAnim
    BY <2>1 DEF AnimBlocks
  <2>2. CASE anim # NoAnim
    <3>1. AnimBlocks(anim) \subseteq
              ({"pixels", "indices"} \X Nat)
                \cup { Block(k) : k \in {"frames", "storage", "metadata", "palette",
                                        "palette_alpha"} }
      BY <2>2, AnimFine DEF AnimBlocks, BufsOwned, CallsInv, TypeOK
    <3> QED
      BY <3>1 DEF Block
  <2> QED
    BY <2>1, <2>2
<1>5. BufsOwned' /\ (anim' # NoAnim => anim' \in Anims)
  BY DEF CallsInv, BufsOwned, TypeOK, DropFile
<1>6. Owned' = AnimBlocks(anim)
  BY <1>5, OwnedIsNext DEF FileBlocks, DropFile
<1>7. HeapIsOwned'
  BY <1>1, <1>2, <1>3, <1>4, <1>6 DEF HeapIsOwned, Busy, DropFile
<1>8. TypeOK' /\ FreesAreSound' /\ IndexInv' /\ EncodeInv' /\ DecodeInv'
  BY <1>1, <1>3 DEF CallsInv, TypeOK, FreesAreSound, IndexInv, EncodeInv, DecodeInv, DropFile,
     IndexSteps, EncodeSteps, DecodeSteps
<1> QED
  BY <1>5, <1>7, <1>8 DEF CallsInv

\* apxl_free.
LEMMA FreeAnimKeeps ==
  ASSUME CallsInv, FreeAnim
  PROVE  CallsInv'
<1>1. heap = Owned /\ pc = "idle" /\ anim # NoAnim
  BY NothingBusy DEF FreeAnim, Idle
<1>2. Owned = OwnBlocks(anim) \cup FileBlocks(file)
  BY <1>1, OwnedIs DEF CallsInv, TypeOK, AnimBlocks
<1>3. /\ Fine(FreedWithAnim(anim), OwnBlocks(anim))
      /\ OwnBlocks(anim) \subseteq
              ({"pixels", "indices"} \X Nat)
                \cup { Block(k) : k \in {"frames", "storage", "metadata", "palette",
                                        "palette_alpha"} }
  BY <1>1, AnimFine DEF BufsOwned, CallsInv, TypeOK
<1>4. heap' = heap \ OwnBlocks(anim) /\ wild' = wild
  <2>1. Misused(FreedWithAnim(anim)) = {} /\ Freed(FreedWithAnim(anim)) = OwnBlocks(anim)
    BY <1>1, <1>2, <1>3, FineFrees
  <2>2. heap' = heap \ OwnBlocks(anim)
    BY <2>1 DEF FreeAnim, Free
  <2>3. wild \in BOOLEAN /\ wild' = (wild \/ Misused(FreedWithAnim(anim)) # {})
    BY Zenon DEF FreeAnim, Free, CallsInv, TypeOK
  <2>4. wild' = wild
    BY <2>1, <2>3, Zenon
  <2> QED
    BY <2>2, <2>4
<1>5. Block("file") \notin OwnBlocks(anim)
  BY <1>3 DEF Block
<1>6. Owned' = FileBlocks(file)
  BY DEF FreeAnim, Owned, FileBlocks
<1>7. HeapIsOwned'
  BY <1>1, <1>2, <1>4, <1>5, <1>6 DEF HeapIsOwned, Busy, FreeAnim, FileBlocks
<1>8. TypeOK' /\ FreesAreSound' /\ IndexInv' /\ EncodeInv' /\ DecodeInv' /\ BufsOwned'
  BY <1>1, <1>4 DEF CallsInv, TypeOK, FreesAreSound, IndexInv, EncodeInv, DecodeInv, FreeAnim,
     IndexSteps, EncodeSteps, DecodeSteps, BufsOwned
<1> QED
  BY <1>7, <1>8 DEF CallsInv

\* A lookup that only sets what it found.
LEMMA SameSlots ==
  ASSUME NEW t, TableOk(t), NEW u \in Tables,
         u.slots = t.slots, u.count = t.count
  PROVE  TableOk(u) /\ Keys(u) = Keys(t)
<1>1. \A s : Used(u, s) <=> Used(t, s)
  BY DEF Used
<1>2. Keys(u) = Keys(t)
  BY <1>1 DEF Keys
<1>3. TableOk(u)
  BY <1>1 DEF TableOk
<1> QED
  BY <1>2, <1>3

\* A lookup finds the colour, makes room for it, or there is no room.
LEMMA LookupOutcome ==
  ASSUME NEW t, TableOk(t), ~t.full, NEW k \in Colours
  PROVE  LET u == LookupOrInsert(t, k)
         IN  \/ u.full /\ k \notin Keys(t) /\ t.count = APXL_MAX_PALETTE
             \/ ~u.full /\ TableOk(u) /\ Keys(u) = Keys(t) \cup {k}
<1>1. t \in Tables
  BY DEF TableOk
<1>2. CASE k \in Keys(t)
  <2> DEFINE i == t.slots[Probe(t.slots, k)].idx
  <2>1. LookupOrInsert(t, k) = [t EXCEPT !.found = i] /\ i \in Int
    <3>1. /\ LookupOrInsert(t, k) = [t EXCEPT !.found = i]
          /\ Probe(t.slots, k) \in Slots
      BY <1>2, LookupFinds, KnownColour
    <3>2. t.slots \in [Slots -> [key : Nat, idx : Int]]
      BY <1>1 DEF Tables
    <3> QED
      BY <3>1, <3>2
  <2> HIDE DEF i
  <2> DEFINE u == [t EXCEPT !.found = i]
  <2>2. u.slots = t.slots /\ u.count = t.count /\ u.full = t.full /\ u \in Tables
    BY <1>1, <2>1 DEF Tables
  <2> HIDE DEF u
  <2>3. TableOk(u) /\ Keys(u) = Keys(t)
    BY <2>2, SameSlots
  <2>4. Keys(t) \cup {k} = Keys(t)
    BY <1>2
  <2> QED
    BY <2>1, <2>2, <2>3, <2>4 DEF u
<1>3. CASE k \notin Keys(t) /\ t.count < APXL_MAX_PALETTE
  BY <1>3, InsertKeeps
<1>4. CASE k \notin Keys(t) /\ ~(t.count < APXL_MAX_PALETTE)
  <2>1. t.count = APXL_MAX_PALETTE /\ t.count >= APXL_MAX_PALETTE
    BY <1>1, <1>4, ApxlAssumption, SMT DEF Tables
  <2>2. LookupOrInsert(t, k) = [t EXCEPT !.full = TRUE]
    BY <1>4, <2>1, NewColour DEF LookupOrInsert, Used, Full
  <2>3. [t EXCEPT !.full = TRUE].full
    BY <1>1, Zenon DEF Tables
  <2> QED
    BY <1>4, <2>1, <2>2, <2>3
<1> QED
  BY <1>2, <1>3, <1>4

\* The table to start from.
LEMMA EmptyTableOk ==
  TableOk(EmptyTable) /\ ~EmptyTable.full /\ Keys(EmptyTable) = {}
<1>1. /\ EmptyTable.slots = [s \in Slots |-> [key |-> 0, idx |-> -1]]
      /\ EmptyTable.count = 0 /\ ~EmptyTable.full
  BY DEF EmptyTable
<1>2. EmptyTable \in Tables
  <2>1. 0 \in 0..APXL_MAX_PALETTE
    BY ApxlAssumption
  <2>2. [s \in Slots |-> [key |-> 0, idx |-> -1]] \in [Slots -> [key : Nat, idx : Int]]
    OBVIOUS
  <2> QED
    BY <2>1, <2>2 DEF EmptyTable, Tables
<1>3. \A s \in Slots : EmptyTable.slots[s].idx = -1
  BY <1>1
<1>4. \A s \in Slots : ~Used(EmptyTable, s)
  BY <1>3 DEF Used
<1>5. Keys(EmptyTable) = {}
  BY <1>4 DEF Keys
<1>6. TableOk(EmptyTable)
  BY <1>1, <1>2, <1>3, <1>4 DEF TableOk
<1> QED
  BY <1>1, <1>5, <1>6

\* While a call converts it, every sample of the animation is a colour.
LEMMA IndexCall ==
  ASSUME CallsInv, pc \in IndexSteps
  PROVE  /\ anim \in Anims /\ AsGiven(anim) /\ anim.channels # 1
         /\ FrameCount(anim) \in Nat \ {0}
         /\ \A i \in 1..FrameCount(anim) :
              /\ anim.frames[i] \in Frames
              /\ anim.frames[i].px \in Seq(Colours) /\ anim.frames[i].px # <<>>
         /\ ColoursOf(anim) \subseteq Colours
         /\ \A i \in 1..FrameCount(anim) : \A p \in DOMAIN anim.frames[i].px :
              anim.frames[i].px[p] \in ColoursOf(anim)
<1>1. anim # NoAnim /\ ~anim.storage /\ anim.channels \in {3, 4} /\ FrameCount(anim) > 0
  BY DEF CallsInv, IndexInv, Indexable
<1>2. anim \in Anims /\ AsGiven(anim) /\ anim.channels # 1
  BY <1>1, OwnedKinds, SMT DEF CallsInv, TypeOK
<1>3. FrameCount(anim) \in Nat \ {0}
  BY <1>1, <1>2, SMT DEF FrameCount, Anims
<1>4. \A i \in 1..FrameCount(anim) : anim.frames[i] \in Frames
  BY <1>2 DEF FrameCount, Anims
<1>5. \A i \in 1..FrameCount(anim) :
        /\ anim.frames[i].px \in Seq(Nat) /\ anim.frames[i].px # <<>>
        /\ Range(anim.frames[i].px) \subseteq Colours
  BY <1>1, <1>2, <1>4 DEF AsGiven, Frames
<1>6. \A i \in 1..FrameCount(anim) : anim.frames[i].px \in Seq(Colours)
  <2>1. SUFFICES ASSUME NEW i \in 1..FrameCount(anim) PROVE anim.frames[i].px \in Seq(Colours)
    OBVIOUS
  <2> DEFINE s == anim.frames[i].px
  <2>2. s \in Seq(Nat) /\ Range(s) \subseteq Colours
    BY <1>5
  <2> HIDE DEF s
  <2>3. \A p \in 1..Len(s) : s[p] \in Colours
    BY <2>2 DEF Range
  <2>4. s \in Seq(Colours)
    BY <2>2, <2>3
  <2> QED
    BY <2>4 DEF s
<1>7. ColoursOf(anim) \subseteq Colours
  BY <1>5 DEF ColoursOf
<1>8. \A i \in 1..FrameCount(anim) : \A p \in DOMAIN anim.frames[i].px :
        anim.frames[i].px[p] \in ColoursOf(anim)
  BY DEF ColoursOf, Range
<1> QED
  BY <1>2, <1>3, <1>4, <1>5, <1>6, <1>7, <1>8

------------------------------------------------------------------------------
(* apxl_anim_try_index                                                       *)

\* The call begins.
LEMMA TryIndexKeeps ==
  ASSUME CallsInv, ~IndexDecoded, TryIndex
  PROVE  CallsInv'
<1>1. heap = Owned /\ pc = "idle" /\ anim # NoAnim /\ ~anim.storage
  <2>1. anim.storage \in BOOLEAN
    BY Zenon DEF TryIndex, CallsInv, TypeOK, Anims
  <2>2. (anim.storage => IndexDecoded) /\ pc = "idle" /\ anim # NoAnim
    BY DEF TryIndex, Idle
  <2>3. ~anim.storage
    BY <2>1, <2>2
  <2> QED
    BY <2>2, <2>3, NothingBusy
<1>2. CASE Indexable(anim)
  <2>1. pc' = "table" /\ UNCHANGED <<anim, file, heap, wild, work, picture, starved>>
    BY <1>2 DEF TryIndex, Continue
  <2>2. IndexInv' /\ EncodeInv' /\ DecodeInv'
    BY <1>1, <1>2, <2>1, FileStays DEF IndexInv, EncodeInv, EncodeSteps, DecodeSteps
  <2>3. heap' = Owned \cup Busy'
    BY <1>1, <2>1 DEF Busy
  <2> QED
    BY <2>1, <2>2, <2>3, GoesOn DEF IndexSteps
<1>3. CASE ~Indexable(anim)
  BY <1>1, <1>3, ReturnKeeps DEF TryIndex, CallsInv, TypeOK
<1> QED
  BY <1>2, <1>3

\* The table is there, empty, and no sample visited.
LEMMA AllocateTableKeeps ==
  ASSUME CallsInv, AllocateTable
  PROVE  CallsInv'
<1>1. PICK oom \in OutOfMemory :
       IF oom THEN GiveUp({})
       ELSE /\ Allocate({Block("table")})
            /\ work' = [table |-> EmptyTable, frame |-> 1, pixel |-> 1]
            /\ pc' = "pass1"
            /\ UNCHANGED <<anim, file, picture, starved>>
  BY DEF AllocateTable
<1>2. heap = Owned /\ Busy = {} /\ pc = "table"
  BY NothingBusy DEF AllocateTable
<1>3. CASE oom
  BY <1>1, <1>2, <1>3, GiveUpKeeps
<1>4. CASE ~oom
  <2>1. /\ work' = [table |-> EmptyTable, frame |-> 1, pixel |-> 1] /\ pc' = "pass1"
        /\ UNCHANGED <<anim, file, picture, starved, wild>>
        /\ heap' = heap \cup {Block("table")}
    BY <1>1, <1>4 DEF Allocate
  <2>2. work'.table = EmptyTable /\ work'.frame = 1 /\ work'.pixel = 1
    BY <2>1
  <2>3. FrameCount(anim) \in Nat \ {0}
    BY <1>2, IndexCall DEF IndexSteps
  <2>4. CollectInv'
    <3>1. work'.frame \in 1..(FrameCount(anim)' + 1) /\ work'.pixel \in Nat \ {0}
      BY <2>1, <2>2, <2>3
    <3>2. work' = [table |-> work'.table, frame |-> work'.frame, pixel |-> work'.pixel]
      BY <2>1, <2>2
    <3>3. Keys(work'.table) \subseteq ColoursOf(anim)'
      BY <2>2, EmptyTableOk
    <3>4. \A i \in 1..FrameCount(anim)' : \A p \in DOMAIN anim'.frames[i].px : ~Visited(i, p)'
      <4>1. SUFFICES ASSUME NEW i \in 1..FrameCount(anim), NEW p \in DOMAIN anim.frames[i].px
                     PROVE  ~Visited(i, p)'
        BY <2>1
      <4>2. anim.frames[i].px \in Seq(Colours)
        BY <1>2, IndexCall DEF IndexSteps
      <4>3. p \in Nat \ {0} /\ i \in Nat \ {0}
        BY <2>3, <4>2
      <4> QED
        BY <2>2, <4>3, SMT DEF Visited
    <3> QED
      BY <3>1, <3>2, <3>3, <3>4 DEF CollectInv
  <2>5. IndexInv'
    BY <1>2, <2>1, <2>2, <2>4, EmptyTableOk DEF IndexInv, CallsInv, IndexSteps
  <2>6. EncodeInv' /\ DecodeInv'
    BY <2>1, FileStays DEF EncodeInv, EncodeSteps, DecodeSteps
  <2>7. heap' = Owned \cup Busy'
    BY <1>2, <2>1 DEF Busy
  <2> QED
    BY <2>1, <2>5, <2>6, <2>7, GoesOn DEF IndexSteps
<1> QED
  BY <1>3, <1>4

\* Where pass 1 stands.
LEMMA PassOne ==
  ASSUME CallsInv, pc = "pass1"
  PROVE  /\ TableOk(work.table) /\ ~work.table.full /\ CollectInv
         /\ heap = Owned \cup {Block("table")} /\ Busy = {Block("table")}
         /\ Block("table") \notin Owned /\ "table" \in Names
<1>1. /\ TableOk(work.table) /\ ~work.table.full /\ CollectInv
      /\ heap = Owned \cup Busy
  BY DEF CallsInv, IndexInv, HeapIsOwned
<1>2. Busy = {Block("table")}
  BY DEF Busy
<1> QED
  BY <1>1, <1>2, BusyApart DEF Names

\* One more sample is visited, or there are too many colours.
LEMMA CollectColourKeeps ==
  ASSUME CallsInv, CollectColour
  PROVE  CallsInv'
<1> DEFINE f == work.frame
           px == anim.frames[f].px
           k == px[work.pixel]
           t == LookupOrInsert(work.table, k)
<1>1. /\ pc = "pass1" /\ f <= FrameCount(anim) /\ work.pixel <= Len(px)
      /\ UNCHANGED <<anim, file, picture, starved>>
      /\ IF t.full THEN Free(<<Ptr(Block("table"))>>, {}) /\ Return
         ELSE /\ work' = [work EXCEPT !.table = t, !.pixel = @ + 1]
              /\ UNCHANGED <<pc, heap, wild>>
  BY DEF CollectColour
<1>2. /\ TableOk(work.table) /\ ~work.table.full /\ CollectInv
      /\ heap = Owned \cup {Block("table")} /\ Busy = {Block("table")}
      /\ Block("table") \notin Owned /\ "table" \in Names
  BY <1>1, PassOne
<1>3. f \in 1..FrameCount(anim) /\ work.pixel \in DOMAIN px
      /\ f \in Nat /\ work.pixel \in Nat
  <2>1. FrameCount(anim) \in Nat \ {0} /\ \A i \in 1..FrameCount(anim) : anim.frames[i].px \in Seq(Colours)
    BY <1>1, IndexCall DEF IndexSteps
  <2>2. work.frame \in 1..(FrameCount(anim) + 1) /\ work.pixel \in Nat \ {0}
    BY <1>2 DEF CollectInv
  <2>3. f \in 1..FrameCount(anim)
    BY <1>1, <2>1, <2>2, SMT
  <2>4. px \in Seq(Colours)
    BY <2>1, <2>3
  <2> HIDE DEF px, f
  <2> QED
    BY <1>1, <2>1, <2>2, <2>3, <2>4, SMT
<1>4. k \in Colours /\ k \in ColoursOf(anim)
  BY <1>1, <1>3, IndexCall DEF IndexSteps
<1>5. CASE t.full
  <2>1. Free(<<Ptr(Block("table"))>>, {}) /\ Return
    BY <1>1, <1>5
  <2>2. heap' = (heap \ {Block("table")}) \cup {} /\ wild' = wild
    BY <1>2, <2>1, FreeOwn
  <2>3. heap' = Owned
    BY <1>2, <2>2
  <2> QED
    BY <1>1, <2>1, <2>2, <2>3, ReturnKeeps DEF CallsInv, TypeOK
<1>6. CASE ~t.full
  <2> HIDE DEF k, t
  <2>1. work' = [work EXCEPT !.table = t, !.pixel = @ + 1] /\ UNCHANGED <<pc, heap, wild>>
    BY <1>1, <1>6
  <2>2. /\ work' = [table |-> t, frame |-> f, pixel |-> work.pixel + 1]
        /\ work'.table = t /\ work'.frame = f /\ work'.pixel = work.pixel + 1
    <3>1. work = [table |-> work.table, frame |-> work.frame, pixel |-> work.pixel]
      BY <1>2 DEF CollectInv
    <3> QED
      BY <2>1, <3>1
  <2>3. TableOk(t) /\ Keys(t) = Keys(work.table) \cup {k}
    <3>1. LET u == LookupOrInsert(work.table, k)
          IN  \/ u.full /\ k \notin Keys(work.table) /\ work.table.count = APXL_MAX_PALETTE
              \/ ~u.full /\ TableOk(u) /\ Keys(u) = Keys(work.table) \cup {k}
      BY <1>2, <1>4, LookupOutcome
    <3> QED
      BY <1>6, <3>1 DEF t
  <2>4. CollectInv'
    <3>1. work'.frame \in 1..(FrameCount(anim)' + 1) /\ work'.pixel \in Nat \ {0}
      BY <1>1, <1>2, <1>3, <2>2, SMT DEF CollectInv
    <3>2. Keys(work'.table) \subseteq ColoursOf(anim)'
      BY <1>1, <1>2, <1>4, <2>2, <2>3 DEF CollectInv
    <3>3. ASSUME NEW i \in 1..FrameCount(anim), NEW p \in DOMAIN anim.frames[i].px, Visited(i, p)'
          PROVE  anim.frames[i].px[p] \in Keys(t)
      <4>1. CASE Visited(i, p)
        BY <1>2, <2>3, <4>1 DEF CollectInv
      <4>2. CASE ~Visited(i, p)
        <5>1. anim.frames[i].px \in Seq(Colours) /\ FrameCount(anim) \in Nat
          BY <1>1, IndexCall DEF IndexSteps
        <5>2. p \in Nat /\ i \in Nat
          BY <5>1
        <5>3. i = f /\ p = work.pixel
          BY <1>3, <2>2, <3>3, <4>2, <5>2, SMT DEF Visited
        <5>4. anim.frames[i].px[p] = k
          BY <5>3 DEF k
        <5> QED
          BY <2>3, <5>4
      <4> QED
        BY <4>1, <4>2
    <3> QED
      BY <1>1, <2>2, <3>1, <3>2, <3>3 DEF CollectInv
  <2>5. IndexInv'
    BY <1>1, <1>6, <2>1, <2>2, <2>3, <2>4 DEF IndexInv, CallsInv, IndexSteps
  <2>6. EncodeInv' /\ DecodeInv'
    BY <1>1, <2>1, FileStays DEF EncodeInv, EncodeSteps, DecodeSteps
  <2>7. heap' = Owned \cup Busy'
    BY <1>1, <1>2, <2>1 DEF Busy
  <2> QED
    BY <1>1, <2>1, <2>5, <2>6, <2>7, GoesOn DEF IndexSteps
<1> QED
  BY <1>5, <1>6

\* A frame is done.
LEMMA NextFrameKeeps ==
  ASSUME CallsInv, NextFrame
  PROVE  CallsInv'
<1>1. /\ pc = "pass1" /\ work.frame <= FrameCount(anim)
      /\ work.pixel > Len(anim.frames[work.frame].px)
      /\ work' = [work EXCEPT !.frame = @ + 1, !.pixel = 1]
      /\ UNCHANGED <<anim, file, heap, wild, pc, picture, starved>>
  BY DEF NextFrame
<1>2. /\ TableOk(work.table) /\ ~work.table.full /\ CollectInv
      /\ heap = Owned \cup {Block("table")}
  BY <1>1, PassOne
<1>3. FrameCount(anim) \in Nat \ {0} /\ \A i \in 1..FrameCount(anim) : anim.frames[i].px \in Seq(Colours)
  BY <1>1, IndexCall DEF IndexSteps
<1>4. /\ work' = [table |-> work.table, frame |-> work.frame + 1, pixel |-> 1]
      /\ work'.table = work.table /\ work'.frame = work.frame + 1 /\ work'.pixel = 1
  <2>1. work = [table |-> work.table, frame |-> work.frame, pixel |-> work.pixel]
    BY <1>2 DEF CollectInv
  <2> QED
    BY <1>1, <2>1
<1>5. work.frame \in 1..FrameCount(anim) /\ work.frame \in Nat /\ work.pixel \in Nat
  BY <1>1, <1>2, <1>3, SMT DEF CollectInv
<1>6. CollectInv'
  <2>1. work'.frame \in 1..(FrameCount(anim)' + 1) /\ work'.pixel \in Nat \ {0}
    BY <1>1, <1>3, <1>4, <1>5, SMT
  <2>2. Keys(work'.table) \subseteq ColoursOf(anim)'
    BY <1>1, <1>2, <1>4 DEF CollectInv
  <2>3. ASSUME NEW i \in 1..FrameCount(anim), NEW p \in DOMAIN anim.frames[i].px, Visited(i, p)'
        PROVE  Visited(i, p)
    <3>1. anim.frames[i].px \in Seq(Colours)
      BY <1>3
    <3>2. p \in 1..Len(anim.frames[i].px) /\ Len(anim.frames[i].px) \in Nat /\ i \in Nat
      BY <1>3, <3>1
    <3>3. i <= work.frame
      BY <1>4, <1>5, <2>3, <3>2, SMT DEF Visited
    <3>4. CASE i < work.frame
      BY <3>4 DEF Visited
    <3>5. CASE i = work.frame
      BY <1>1, <1>5, <3>2, <3>5, SMT DEF Visited
    <3> QED
      BY <1>5, <3>2, <3>3, <3>4, <3>5, SMT
  <2> QED
    BY <1>1, <1>2, <1>4, <2>1, <2>2, <2>3 DEF CollectInv
<1>7. IndexInv'
  BY <1>1, <1>2, <1>4, <1>6 DEF IndexInv, CallsInv, IndexSteps
<1>8. EncodeInv' /\ DecodeInv'
  BY <1>1, FileStays DEF EncodeInv, EncodeSteps, DecodeSteps
<1>9. heap' = Owned \cup Busy'
  BY <1>1, <1>2 DEF Busy
<1> QED
  BY <1>1, <1>7, <1>8, <1>9, GoesOn DEF IndexSteps

\* All frames are done: the table holds their colours.
LEMMA AllocateNewBufsKeeps ==
  ASSUME CallsInv, AllocateNewBufs
  PROVE  CallsInv'
<1>1. pc = "pass1" /\ work.frame > FrameCount(anim)
  BY DEF AllocateNewBufs
<1>2. PICK oom \in OutOfMemory :
       IF oom THEN GiveUp({Block("table")})
       ELSE /\ Allocate({Block("new_bufs")})
            /\ work' = [table |-> work.table, bufs |-> <<>>]
            /\ pc' = "pass2"
            /\ UNCHANGED <<anim, file, picture, starved>>
  BY DEF AllocateNewBufs
<1>3. /\ TableOk(work.table) /\ ~work.table.full /\ CollectInv
      /\ heap = Owned \cup {Block("table")} /\ Busy = {Block("table")}
  BY <1>1, PassOne
<1>4. CASE oom
  BY <1>2, <1>3, <1>4, GiveUpKeeps
<1>5. CASE ~oom
  <2>1. /\ work' = [table |-> work.table, bufs |-> <<>>] /\ pc' = "pass2"
        /\ UNCHANGED <<anim, file, picture, starved, wild>>
        /\ heap' = heap \cup {Block("new_bufs")}
    BY <1>2, <1>5 DEF Allocate
  <2>2. work'.table = work.table /\ work'.bufs = <<>> /\ Len(work'.bufs) = 0
    BY <2>1
  <2>3. FrameCount(anim) \in Nat /\ ColoursOf(anim) = Keys(work.table)
    <3>1. FrameCount(anim) \in Nat /\ work.frame \in Nat
      BY <1>1, <1>3, IndexCall, SMT DEF IndexSteps, CollectInv
    <3>2. \A i \in 1..FrameCount(anim) : \A p : Visited(i, p)
      BY <1>1, <3>1, SMT DEF Visited
    <3>3. \A i \in 1..FrameCount(anim) : Range(anim.frames[i].px) \subseteq Keys(work.table)
      BY <1>3, <3>2 DEF CollectInv, Range
    <3>4. ColoursOf(anim) \subseteq Keys(work.table)
      BY <3>3 DEF ColoursOf
    <3> QED
      BY <1>3, <3>1, <3>4 DEF CollectInv
  <2>4. FoundInv'
    <3>1. work' = [table |-> work'.table, bufs |-> work'.bufs]
      BY <2>1, <2>2
    <3>2. Keys(work'.table) = ColoursOf(anim)'
      BY <2>1, <2>2, <2>3
    <3>3. work'.bufs \in Seq(Seq(Nat)) /\ Len(work'.bufs) <= FrameCount(anim)'
      BY <2>1, <2>2, <2>3
    <3>4. 1..Len(work'.bufs) = {}
      BY <2>2
    <3> QED
      BY <3>1, <3>2, <3>3, <3>4 DEF FoundInv
  <2>5. IndexInv'
    BY <1>1, <1>3, <2>1, <2>2, <2>4 DEF IndexInv, CallsInv, IndexSteps
  <2>6. EncodeInv' /\ DecodeInv'
    BY <2>1, FileStays DEF EncodeInv, EncodeSteps, DecodeSteps
  <2>7. Busy' = {Block("table"), Block("new_bufs")}
    <3>1. 1..Len(work'.bufs) = {}
      BY <2>2
    <3> QED
      BY <2>1, <3>1 DEF Busy, NewBufs, Blocks
  <2>8. heap' = Owned \cup Busy'
    BY <1>3, <2>1, <2>7
  <2> QED
    BY <2>1, <2>5, <2>6, <2>8, GoesOn DEF IndexSteps
<1> QED
  BY <1>4, <1>5

\* Pass 2 and the commit.
LEMMA PassTwo ==
  ASSUME CallsInv, pc \in {"pass2", "commit"}
  PROVE  /\ TableOk(work.table) /\ ~work.table.full /\ FoundInv
         /\ heap = Owned \cup Busy /\ Owned \cap Busy = {}
         /\ Busy = IF pc = "pass2" THEN {Block("table")} \cup NewBufs ELSE NewBufs
         /\ "table" \in Names /\ "new_bufs" \in Names
<1>1. /\ TableOk(work.table) /\ ~work.table.full /\ FoundInv
      /\ heap = Owned \cup Busy
  BY DEF CallsInv, IndexInv, HeapIsOwned
<1>2. Busy = IF pc = "pass2" THEN {Block("table")} \cup NewBufs ELSE NewBufs
  BY DEF Busy
<1> QED
  BY <1>1, <1>2, BusyApart DEF Names

\* The index of a sample, and the colour it stands for.
LEMMA IndexOfSample ==
  ASSUME NEW t, TableOk(t), NEW k \in Keys(t)
  PROVE  /\ LookupOrInsert(t, k).found % IndexValues = LookupOrInsert(t, k).found
         /\ LookupOrInsert(t, k).found \in 0..(t.count - 1)
         /\ ColourAt(t, LookupOrInsert(t, k).found) = k
         /\ t.count \in 1..APXL_MAX_PALETTE
<1> DEFINE n == LookupOrInsert(t, k).found
<1>1. n \in 0..(t.count - 1) /\ ColourAt(t, n) = k
  BY LookupFinds
<1>2. t.count \in 0..APXL_MAX_PALETTE
  BY DEF TableOk, Tables
<1> HIDE DEF n
<1>3. n \in 0..(IndexValues - 1) /\ IndexValues \in Nat \ {0} /\ t.count \in 1..APXL_MAX_PALETTE
  BY <1>1, <1>2, ApxlAssumption, SMT
<1>4. n % IndexValues = n
  BY <1>3, SMT
<1> QED
  BY <1>1, <1>3, <1>4 DEF n

\* So the indices of a frame fit bytes and lead back to its colours.
LEMMA IndicesAreBytes ==
  ASSUME NEW t, TableOk(t), NEW px \in Seq(Keys(t))
  PROVE  /\ Indices(t, px) \in Seq(Nat) /\ Len(Indices(t, px)) = Len(px)
         /\ DOMAIN Indices(t, px) = DOMAIN px
         /\ \A p \in DOMAIN px : /\ Indices(t, px)[p] \in 0..(t.count - 1)
                                 /\ ColourAt(t, Indices(t, px)[p]) = px[p]
<1>1. DOMAIN px = 1..Len(px) /\ Len(px) \in Nat
  OBVIOUS
<1>2. \A p \in DOMAIN px : px[p] \in Keys(t)
  OBVIOUS
<1>3. Indices(t, px) = [p \in 1..Len(px) |-> LookupOrInsert(t, px[p]).found % IndexValues]
  BY <1>1 DEF Indices
<1>4. \A p \in 1..Len(px) : LookupOrInsert(t, px[p]).found % IndexValues \in 0..(t.count - 1)
  BY <1>1, <1>2, IndexOfSample
<1>5. \A p \in 1..Len(px) : ColourAt(t, LookupOrInsert(t, px[p]).found % IndexValues) = px[p]
  BY <1>1, <1>2, IndexOfSample
<1>6. t.count \in Nat
  BY ApxlAssumption, SMT DEF TableOk, Tables
<1>7. \A p \in 1..Len(px) : LookupOrInsert(t, px[p]).found % IndexValues \in Nat
  BY <1>4, <1>6
<1> DEFINE s == [p \in 1..Len(px) |-> LookupOrInsert(t, px[p]).found % IndexValues]
<1>8. s \in Seq(Nat) /\ Len(s) = Len(px) /\ DOMAIN s = DOMAIN px
  BY <1>1, <1>7
<1>9. \A p \in DOMAIN px : s[p] \in 0..(t.count - 1) /\ ColourAt(t, s[p]) = px[p]
  BY <1>1, <1>4, <1>5
<1> QED
  BY <1>3, <1>8, <1>9

\* Pass 2 looks only for colours of the table.
LEMMA SamplesKnown ==
  ASSUME CallsInv, pc \in {"pass2", "commit"}
  PROVE  \A i \in 1..FrameCount(anim) : anim.frames[i].px \in Seq(Keys(work.table))
<1>1. SUFFICES ASSUME NEW i \in 1..FrameCount(anim)
               PROVE  anim.frames[i].px \in Seq(Keys(work.table))
  OBVIOUS
<1> DEFINE s == anim.frames[i].px
<1>2. s \in Seq(Colours) /\ \A p \in DOMAIN s : s[p] \in ColoursOf(anim)
  BY IndexCall DEF IndexSteps
<1>3. ColoursOf(anim) = Keys(work.table)
  BY PassTwo DEF FoundInv
<1> HIDE DEF s
<1>4. \A p \in 1..Len(s) : s[p] \in Keys(work.table)
  BY <1>2, <1>3
<1>5. s \in Seq(Keys(work.table))
  BY <1>2, <1>4
<1> QED
  BY <1>5 DEF s

\* One more frame has its indices.
LEMMA IndexFrameKeeps ==
  ASSUME CallsInv, IndexFrame
  PROVE  CallsInv'
<1> DEFINE f == Len(work.bufs) + 1
           new == Indices(work.table, anim.frames[f].px)
<1>1. pc = "pass2" /\ Len(work.bufs) < FrameCount(anim)
  BY DEF IndexFrame
<1>2. PICK oom \in OutOfMemory :
           IF oom THEN GiveUp({Block("table")} \cup NewBufs)
           ELSE /\ Allocate({<<"indices", f>>})
                /\ work' = [work EXCEPT !.bufs = Append(@, new)]
                /\ UNCHANGED <<anim, file, pc, picture, starved>>
  BY DEF IndexFrame
<1>3. /\ TableOk(work.table) /\ ~work.table.full /\ FoundInv
      /\ heap = Owned \cup Busy /\ Busy = {Block("table")} \cup NewBufs
  BY <1>1, PassTwo
<1>4. CASE oom
  BY <1>2, <1>3, <1>4, GiveUpKeeps
<1>5. CASE ~oom
  <2>1. /\ work' = [work EXCEPT !.bufs = Append(@, new)]
        /\ UNCHANGED <<anim, file, pc, picture, starved, wild>>
        /\ heap' = heap \cup {<<"indices", f>>}
    BY <1>2, <1>5 DEF Allocate
  <2>2. /\ work.bufs \in Seq(Seq(Nat)) /\ FrameCount(anim) \in Nat
        /\ f \in 1..FrameCount(anim) /\ Len(work.bufs) \in Nat
    <3>1. work.bufs \in Seq(Seq(Nat)) /\ FrameCount(anim) \in Nat
      BY <1>1, <1>3, IndexCall DEF FoundInv, IndexSteps
    <3> QED
      BY <1>1, <3>1
  <2>3. new \in Seq(Nat)
    BY <1>1, <1>3, <2>2, SamplesKnown, IndicesAreBytes
  <2> HIDE DEF new
  <2>4. /\ work' = [table |-> work.table, bufs |-> Append(work.bufs, new)]
        /\ work'.table = work.table /\ work'.bufs = Append(work.bufs, new)
    <3>1. work = [table |-> work.table, bufs |-> work.bufs]
      BY <1>3 DEF FoundInv
    <3> QED
      BY <2>1, <3>1
  <2>5. /\ work'.bufs \in Seq(Seq(Nat)) /\ Len(work'.bufs) = f
        /\ \A i \in 1..Len(work.bufs) : work'.bufs[i] = work.bufs[i]
        /\ work'.bufs[f] = new
    BY <2>2, <2>3, <2>4
  <2>6. FoundInv'
    <3>1. work' = [table |-> work'.table, bufs |-> work'.bufs]
      BY <2>4
    <3>2. Keys(work'.table) = ColoursOf(anim)'
      BY <1>3, <2>1, <2>4 DEF FoundInv
    <3>3. work'.bufs \in Seq(Seq(Nat)) /\ Len(work'.bufs) <= FrameCount(anim)'
      BY <2>1, <2>2, <2>5
    <3>4. ASSUME NEW i \in 1..Len(work'.bufs)
          PROVE  work'.bufs[i] = Indices(work'.table, anim'.frames[i].px)
      <4>1. CASE i \in 1..Len(work.bufs)
        BY <1>3, <2>1, <2>4, <2>5, <4>1 DEF FoundInv
      <4>2. CASE i \notin 1..Len(work.bufs)
        <5>1. i = f
          BY <2>2, <2>5, <4>2
        <5> QED
          BY <2>1, <2>4, <2>5, <5>1 DEF new
      <4> QED
        BY <4>1, <4>2
    <3> QED
      BY <3>1, <3>2, <3>3, <3>4 DEF FoundInv
  <2>7. IndexInv'
    BY <1>1, <1>3, <2>1, <2>4, <2>6 DEF IndexInv, CallsInv, IndexSteps
  <2>8. EncodeInv' /\ DecodeInv'
    BY <1>1, <2>1, FileStays DEF EncodeInv, EncodeSteps, DecodeSteps
  <2>9. Busy' = Busy \cup {<<"indices", f>>}
    <3>1. 1..f = 1..Len(work.bufs) \cup {f}
      BY <2>2
    <3>2. NewBufs' = NewBufs \cup {<<"indices", f>>}
      BY <2>5, <3>1 DEF NewBufs, Blocks
    <3> QED
      BY <1>1, <1>3, <2>1, <3>2 DEF Busy
  <2>10. heap' = Owned \cup Busy'
    BY <1>3, <2>1, <2>9
  <2> QED
    BY <1>1, <2>1, <2>7, <2>8, <2>10, GoesOn DEF IndexSteps
<1> QED
  BY <1>4, <1>5

\* The table is gone, its contents are still at hand.
LEMMA FreeTableKeeps ==
  ASSUME CallsInv, FreeTable
  PROVE  CallsInv'
<1>1. /\ pc = "pass2" /\ Len(work.bufs) = FrameCount(anim)
      /\ Free(<<Ptr(Block("table"))>>, {})
      /\ pc' = "commit"
      /\ UNCHANGED <<anim, file, work, picture, starved>>
  BY DEF FreeTable
<1>2. /\ TableOk(work.table) /\ ~work.table.full /\ FoundInv
      /\ heap = Owned \cup Busy /\ Owned \cap Busy = {}
      /\ Busy = {Block("table")} \cup NewBufs /\ "table" \in Names
  BY <1>1, PassTwo
<1>3. heap' = (heap \ {Block("table")}) \cup {} /\ wild' = wild
  BY <1>1, <1>2, FreeOwn
<1>4. Block("table") \notin NewBufs
  BY DEF NewBufs, Blocks, Block
<1>5. FoundInv'
  BY <1>1, <1>2 DEF FoundInv, Indices
<1>6. IndexInv'
  BY <1>1, <1>2, <1>5 DEF IndexInv, CallsInv, IndexSteps
<1>7. EncodeInv' /\ DecodeInv'
  BY <1>1, FileStays DEF EncodeInv, EncodeSteps, DecodeSteps
<1>8. Busy' = NewBufs
  BY <1>1 DEF Busy, NewBufs
<1>9. heap' = Owned \cup Busy'
  BY <1>2, <1>3, <1>4, <1>8
<1> QED
  BY <1>1, <1>3, <1>6, <1>7, <1>9, GoesOn DEF IndexSteps

\* An indexed frame, field by field.
LEMMA IndexedFrameFields ==
  ASSUME NEW f \in Frames, NEW i
  PROVE  LET g == IndexedFrame(f, i)
         IN  g = [ buf |-> Ptr(<<"indices", i>>), px |-> work.bufs[i], channels |-> 1,
                   bytes_per_channel |-> 1, palette |-> PaletteRgb(work.table),
                   palette_alpha |-> PaletteAlpha(work.table), delay |-> f.delay ]
<1> DEFINE b == Ptr(<<"indices", i>>)
           x == work.bufs[i]
           pal == PaletteRgb(work.table)
           alpha == PaletteAlpha(work.table)
           g == [ f EXCEPT !.buf = b, !.px = x, !.channels = 1, !.bytes_per_channel = 1,
                           !.palette = pal, !.palette_alpha = alpha ]
<1>0. g = IndexedFrame(f, i)
  BY DEF IndexedFrame
<1>a. g = [ f EXCEPT !.buf = b, !.px = x, !.channels = 1, !.bytes_per_channel = 1,
                     !.palette = pal, !.palette_alpha = alpha ]
  OBVIOUS
<1> HIDE DEF b, x, pal, alpha, g
<1>1. g.buf = b /\ g.px = x /\ g.channels = 1 /\ g.bytes_per_channel = 1
      /\ g.palette = pal /\ g.palette_alpha = alpha /\ g.delay = f.delay
  BY <1>a, Zenon DEF Frames
<1>2. g = [ buf |-> g.buf, px |-> g.px, channels |-> g.channels,
            bytes_per_channel |-> g.bytes_per_channel, palette |-> g.palette,
            palette_alpha |-> g.palette_alpha, delay |-> g.delay ]
  BY <1>a, Zenon DEF Frames
<1>3. g = [ buf |-> b, px |-> x, channels |-> 1, bytes_per_channel |-> 1,
            palette |-> pal, palette_alpha |-> alpha, delay |-> f.delay ]
  BY <1>1, <1>2, Zenon
<1> QED
  BY <1>0, <1>3, Zenon DEF b, x, pal, alpha

\* A colour is made of its bytes.
LEMMA ColourBytes ==
  ASSUME NEW c \in Colours
  PROVE  /\ Rgb(c) \in 0..(RgbValues - 1) /\ Alpha(c) \in 0..(AlphaValues - 1)
         /\ Rgb(c) + RgbValues * Alpha(c) = c
<1>1. RgbValues \in Nat \ {0} /\ AlphaValues \in Nat \ {0} /\ c \in 0..(RgbValues * AlphaValues - 1)
  BY ApxlAssumption DEF Colours
<1>2. c \in Nat
  BY <1>1
<1>3. c % RgbValues \in 0..(RgbValues - 1) /\ c = (c % RgbValues) + RgbValues * (c \div RgbValues)
  BY <1>1, <1>2, DivMod
<1>4. c \div RgbValues \in 0..(AlphaValues - 1)
  BY <1>1, DivBound
<1> QED
  BY <1>3, <1>4 DEF Rgb, Alpha

\* The palette holds the colours of the table.
LEMMA PaletteShows ==
  ASSUME NEW t, TableOk(t), t.count # 0
  PROVE  /\ PaletteRgb(t) \in Palettes /\ PaletteAlpha(t) \in PaletteAlphas
         /\ PaletteRgb(t) # <<>> /\ Len(PaletteRgb(t)) = t.count
         /\ HasAlpha(t) <=> PaletteAlpha(t) # <<>>
         /\ \A j \in 0..(t.count - 1) :
              ColourOf(PaletteRgb(t), PaletteAlpha(t), j) = ColourAt(t, j)
<1>1. t.count \in Nat \ {0}
  BY ApxlAssumption, SMT DEF TableOk, Tables
<1>2. \A i \in 1..t.count : i - 1 \in 0..(t.count - 1)
  BY <1>1
<1>3. \A i \in 1..t.count : ColourAt(t, i - 1) \in Colours
  BY <1>2, ColourIsKey
<1>4. \A i \in 1..t.count : Rgb(ColourAt(t, i - 1)) \in 0..(RgbValues - 1)
                            /\ Alpha(ColourAt(t, i - 1)) \in 0..(AlphaValues - 1)
  BY <1>3, ColourBytes
<1>5. PaletteRgb(t) \in Palettes /\ Len(PaletteRgb(t)) = t.count
      /\ \A i \in 1..t.count : PaletteRgb(t)[i] = Rgb(ColourAt(t, i - 1))
  <2> DEFINE R(i) == Rgb(ColourAt(t, i - 1))
             V == 0..(RgbValues - 1)
             s == [i \in 1..t.count |-> R(i)]
  <2>1. \A i \in 1..t.count : R(i) \in V
    BY <1>4
  <2>2. PaletteRgb(t) = s /\ Palettes = Seq(V)
    BY DEF PaletteRgb, Palettes
  <2>3. s \in Seq(V) /\ Len(s) = t.count /\ \A i \in 1..t.count : s[i] = R(i)
    <3> HIDE DEF R, V
    <3> QED
      BY <1>1, <2>1
  <2> QED
    BY <2>2, <2>3
<1>6. PaletteRgb(t) # <<>>
  <2>1. Len(PaletteRgb(t)) # 0
    BY <1>1, <1>5
  <2> QED
    BY <2>1
<1>7. CASE HasAlpha(t)
  <2>1. PaletteAlpha(t) = [i \in 1..t.count |-> Alpha(ColourAt(t, i - 1))]
    BY <1>7 DEF PaletteAlpha
  <2>2. PaletteAlpha(t) \in PaletteAlphas /\ Len(PaletteAlpha(t)) = t.count
        /\ \A i \in 1..t.count : PaletteAlpha(t)[i] = Alpha(ColourAt(t, i - 1))
    <3> DEFINE A(i) == Alpha(ColourAt(t, i - 1))
               V == 0..(AlphaValues - 1)
               s == [i \in 1..t.count |-> A(i)]
    <3>1. \A i \in 1..t.count : A(i) \in V
      BY <1>4
    <3>2. PaletteAlpha(t) = s /\ PaletteAlphas = Seq(V)
      BY <2>1 DEF PaletteAlphas
    <3>3. s \in Seq(V) /\ Len(s) = t.count /\ \A i \in 1..t.count : s[i] = A(i)
      <4> HIDE DEF A, V
      <4> QED
        BY <1>1, <3>1
    <3> QED
      BY <3>2, <3>3
  <2>3. PaletteAlpha(t) # <<>>
    <3>1. Len(PaletteAlpha(t)) # 0
      BY <1>1, <2>2
    <3> QED
      BY <3>1
  <2>4. ASSUME NEW j \in 0..(t.count - 1)
        PROVE  ColourOf(PaletteRgb(t), PaletteAlpha(t), j) = ColourAt(t, j)
    <3>1. j + 1 \in 1..t.count /\ (j + 1) - 1 = j /\ ~(j >= t.count) /\ j < t.count
      BY <1>1
    <3>2. PaletteRgb(t)[j + 1] = Rgb(ColourAt(t, j)) /\ PaletteAlpha(t)[j + 1] = Alpha(ColourAt(t, j))
      BY <1>5, <2>2, <3>1
    <3>3. ColourAt(t, j) \in Colours
      BY ColourIsKey
    <3>4. ColourOf(PaletteRgb(t), PaletteAlpha(t), j)
            = PaletteRgb(t)[j + 1] + RgbValues * PaletteAlpha(t)[j + 1]
      BY <1>5, <2>2, <3>1 DEF ColourOf
    <3> QED
      BY <3>2, <3>3, <3>4, ColourBytes
  <2> QED
    BY <1>5, <1>6, <1>7, <2>2, <2>3, <2>4
<1>8. CASE ~HasAlpha(t)
  <2>1. PaletteAlpha(t) = <<>>
    BY <1>8 DEF PaletteAlpha
  <2>2. PaletteAlpha(t) \in PaletteAlphas /\ Len(PaletteAlpha(t)) = 0
    BY <2>1 DEF PaletteAlphas
  <2>3. \A i \in 1..t.count : Alpha(ColourAt(t, i - 1)) = Opaque
    BY <1>8 DEF HasAlpha
  <2>4. ASSUME NEW j \in 0..(t.count - 1)
        PROVE  ColourOf(PaletteRgb(t), PaletteAlpha(t), j) = ColourAt(t, j)
    <3>1. j + 1 \in 1..t.count /\ (j + 1) - 1 = j /\ ~(j >= t.count) /\ ~(j < 0)
      BY <1>1
    <3>2. PaletteRgb(t)[j + 1] = Rgb(ColourAt(t, j)) /\ Alpha(ColourAt(t, j)) = Opaque
      BY <1>5, <2>3, <3>1
    <3>3. ColourAt(t, j) \in Colours
      BY ColourIsKey
    <3>4. ColourOf(PaletteRgb(t), PaletteAlpha(t), j)
            = PaletteRgb(t)[j + 1] + RgbValues * Opaque
      BY <1>5, <2>2, <3>1 DEF ColourOf
    <3> QED
      BY <3>2, <3>3, <3>4, ColourBytes
  <2> QED
    BY <1>5, <1>6, <1>8, <2>1, <2>2, <2>4
<1> QED
  BY <1>7, <1>8

\* An indexed frame shows the colours it was made from.
LEMMA IndicesShow ==
  ASSUME NEW t, TableOk(t), t.count # 0, NEW px \in Seq(Keys(t))
  PROVE  Shown(Indices(t, px), PaletteRgb(t), PaletteAlpha(t)) = px
<1> DEFINE pal == PaletteRgb(t)
           alpha == PaletteAlpha(t)
           ix == Indices(t, px)
<1>1. pal # <<>> /\ \A j \in 0..(t.count - 1) : ColourOf(pal, alpha, j) = ColourAt(t, j)
  BY PaletteShows
<1>2. DOMAIN ix = DOMAIN px /\ \A p \in DOMAIN px : ix[p] \in 0..(t.count - 1) /\ ColourAt(t, ix[p]) = px[p]
  BY IndicesAreBytes
<1> HIDE DEF pal, alpha, ix
<1>3. \A p \in DOMAIN px : ColourOf(pal, alpha, ix[p]) = px[p]
  BY <1>1, <1>2
<1>4. [p \in DOMAIN ix |-> ColourOf(pal, alpha, ix[p])] = px
  <2>1. px = [p \in DOMAIN px |-> px[p]]
    OBVIOUS
  <2>2. [p \in DOMAIN px |-> ColourOf(pal, alpha, ix[p])] = [p \in DOMAIN px |-> px[p]]
    BY <1>3
  <2> QED
    BY <1>2, <2>1, <2>2
<1>5. Shown(ix, pal, alpha) = px
  BY <1>1, <1>4 DEF Shown
<1> QED
  BY <1>5 DEF pal, alpha, ix

\* An animation that is converted has a colour.
LEMMA TableNotEmpty ==
  ASSUME CallsInv, pc \in {"pass2", "commit"}
  PROVE  work.table.count # 0
<1>1. FrameCount(anim) \in Nat \ {0} /\ anim.frames[1].px \in Seq(Colours) /\ anim.frames[1].px # <<>>
  BY IndexCall DEF IndexSteps
<1>2. anim.frames[1].px \in Seq(Keys(work.table))
  BY <1>1, SamplesKnown
<1>3. 1 \in DOMAIN anim.frames[1].px
  BY <1>1
<1>4. anim.frames[1].px[1] \in Keys(work.table)
  BY <1>2, <1>3
<1>5. work.table.count \in 1..APXL_MAX_PALETTE
  BY <1>4, PassTwo, IndexOfSample
<1> QED
  BY <1>5

\* Fields of the right kinds make a frame.
LEMMA FieldsMakeFrame ==
  ASSUME NEW b \in [block : {"pixels", "indices", "storage"} \X Nat, at : Nat],
         NEW x \in Seq(Nat), NEW c \in Nat, NEW d \in Nat, NEW p \in Palettes,
         NEW q \in PaletteAlphas, NEW e \in Nat
  PROVE  [ buf |-> b, px |-> x, channels |-> c, bytes_per_channel |-> d,
           palette |-> p, palette_alpha |-> q, delay |-> e ] \in Frames
  BY DEF Frames

\* The animation that is committed.
LEMMA CommitGives ==
  ASSUME CallsInv, pc = "commit",
         anim' = [ anim EXCEPT
                 !.frames = [i \in 1..FrameCount(anim) |-> IndexedFrame(anim.frames[i], i)],
                 !.palette = PaletteRgb(work.table),
                 !.palette_alpha = PaletteAlpha(work.table),
                 !.channels = 1, !.bytes_per_channel = 1 ]
  PROVE  /\ anim' \in Anims /\ AsIndexed(anim') /\ FrameCount(anim') = FrameCount(anim)
         /\ anim'.palette = PaletteRgb(work.table)
         /\ anim'.palette_alpha = PaletteAlpha(work.table)
         /\ anim'.metadata = anim.metadata /\ anim'.loop_count = anim.loop_count
         /\ anim'.storage = anim.storage
         /\ \A i \in 1..FrameCount(anim) : 
              /\ anim'.frames[i].buf = Ptr(<<"indices", i>>)
              /\ anim'.frames[i].px = Indices(work.table, anim.frames[i].px)
              /\ anim'.frames[i].palette = PaletteRgb(work.table)
              /\ anim'.frames[i].palette_alpha = PaletteAlpha(work.table)
              /\ anim'.frames[i].delay = anim.frames[i].delay
<1> DEFINE pal == PaletteRgb(work.table)
           alpha == PaletteAlpha(work.table)
           n == FrameCount(anim)
           fs == [i \in 1..n |-> IndexedFrame(anim.frames[i], i)]
<1>1. /\ anim \in Anims /\ n \in Nat \ {0} /\ \A i \in 1..n : anim.frames[i] \in Frames
  BY IndexCall DEF IndexSteps
<1>2. pal \in Palettes /\ alpha \in PaletteAlphas
  BY PassTwo, TableNotEmpty, PaletteShows
<1>3. /\ work.bufs \in Seq(Seq(Nat)) /\ Len(work.bufs) = n
      /\ \A i \in 1..n : work.bufs[i] = Indices(work.table, anim.frames[i].px)
  BY PassTwo DEF FoundInv, CallsInv, IndexInv
<1>4. anim' = [ anim EXCEPT !.frames = fs, !.palette = pal, !.palette_alpha = alpha,
                            !.channels = 1, !.bytes_per_channel = 1 ]
  OBVIOUS
<1>5. \A i \in 1..n :
         fs[i] = [ buf |-> Ptr(<<"indices", i>>), px |-> work.bufs[i], channels |-> 1,
                   bytes_per_channel |-> 1, palette |-> pal,
                   palette_alpha |-> alpha, delay |-> anim.frames[i].delay ]
  BY <1>1, IndexedFrameFields
<1>6. fs \in [1..n -> Frames]
  <2>1. SUFFICES ASSUME NEW i \in 1..n PROVE fs[i] \in Frames
    OBVIOUS
  <2>2. Ptr(<<"indices", i>>) \in [block : {"pixels", "indices", "storage"} \X Nat, at : Nat]
    <3>1. i \in Nat
      BY <1>1
    <3>2. <<"indices", i>> \in {"pixels", "indices", "storage"} \X Nat
      BY <3>1
    <3> QED
      BY <3>2 DEF Ptr
  <2>3. work.bufs[i] \in Seq(Nat)
    BY <1>3
  <2>4. anim.frames[i].delay \in Nat
    BY <1>1 DEF Frames
  <2> DEFINE b == Ptr(<<"indices", i>>)
             x == work.bufs[i]
             d == anim.frames[i].delay
  <2>5. fs[i] = [ buf |-> b, px |-> x, channels |-> 1, bytes_per_channel |-> 1,
                  palette |-> pal, palette_alpha |-> alpha, delay |-> d ]
    BY <1>5
  <2>7. /\ b \in [block : {"pixels", "indices", "storage"} \X Nat, at : Nat]
        /\ x \in Seq(Nat) /\ d \in Nat
    BY <2>2, <2>3, <2>4
  <2> HIDE DEF pal, alpha, n, fs, b, x, d
  <2> QED
    <3> DEFINE one == 1
    <3>1. one \in Nat
      OBVIOUS
    <3>2. fs[i] = [ buf |-> b, px |-> x, channels |-> one, bytes_per_channel |-> one,
                    palette |-> pal, palette_alpha |-> alpha, delay |-> d ]
      BY <2>5
    <3> HIDE DEF one
    <3> QED
      BY <1>2, <2>7, <3>1, <3>2, FieldsMakeFrame
<1> HIDE DEF pal, alpha, n, fs
<1>7. fs \in Seq(Frames) /\ Len(fs) = n
  BY <1>1, <1>6
<1>8. /\ anim'.frames = fs /\ anim'.palette = pal /\ anim'.palette_alpha = alpha
      /\ anim'.channels = 1 /\ anim'.metadata = anim.metadata
      /\ anim'.loop_count = anim.loop_count /\ anim'.storage = anim.storage
      /\ anim' = [ frames |-> fs, channels |-> 1, bytes_per_channel |-> 1,
                  pixels |-> anim.pixels, loop_count |-> anim.loop_count, palette |-> pal,
                  palette_alpha |-> alpha, metadata |-> anim.metadata,
                  storage |-> anim.storage ]
  <2>1. /\ anim'.frames = fs /\ anim'.palette = pal /\ anim'.palette_alpha = alpha
        /\ anim'.channels = 1 /\ anim'.bytes_per_channel = 1
    BY <1>1, <1>4, Zenon DEF Anims
  <2>2. /\ anim'.pixels = anim.pixels /\ anim'.loop_count = anim.loop_count
        /\ anim'.metadata = anim.metadata /\ anim'.storage = anim.storage
    BY <1>1, <1>4, Zenon DEF Anims
  <2>3. anim' = [ frames |-> anim'.frames, channels |-> anim'.channels,
            bytes_per_channel |-> anim'.bytes_per_channel, pixels |-> anim'.pixels,
            loop_count |-> anim'.loop_count, palette |-> anim'.palette,
            palette_alpha |-> anim'.palette_alpha, metadata |-> anim'.metadata,
            storage |-> anim'.storage ]
    BY <1>1, <1>4, Zenon DEF Anims
  <2> QED
    BY <2>1, <2>2, <2>3, Zenon
<1>9. anim' \in Anims
  <2>1. anim.pixels \in Nat /\ anim.loop_count \in Nat /\ anim.metadata \in Seq(Nat)
    BY <1>1 DEF Anims
  <2>2. anim.storage \in BOOLEAN
    BY <1>1, Zenon DEF Anims
  <2>3. 1 \in Nat
    OBVIOUS
  <2> QED
    BY <1>2, <1>7, <1>8, <2>1, <2>2, <2>3, Zenon DEF Anims
<1>10. FrameCount(anim') = n
  BY <1>7, <1>8 DEF FrameCount
<1>11. \A i \in 1..n :
              /\ anim'.frames[i].buf = Ptr(<<"indices", i>>)
              /\ anim'.frames[i].px = Indices(work.table, anim.frames[i].px)
              /\ anim'.frames[i].palette = pal
              /\ anim'.frames[i].palette_alpha = alpha
              /\ anim'.frames[i].delay = anim.frames[i].delay
  <2>1. SUFFICES ASSUME NEW i \in 1..n
                 PROVE  /\ fs[i].buf = Ptr(<<"indices", i>>)
                        /\ fs[i].px = Indices(work.table, anim.frames[i].px)
                        /\ fs[i].palette = pal /\ fs[i].palette_alpha = alpha
                        /\ fs[i].delay = anim.frames[i].delay
    BY <1>8
  <2>2. work.bufs[i] = Indices(work.table, anim.frames[i].px)
    BY <1>3
  <2> DEFINE b == Ptr(<<"indices", i>>)
  <2>3. fs[i] = [ buf |-> b, px |-> work.bufs[i], channels |-> 1,
                  bytes_per_channel |-> 1, palette |-> pal,
                  palette_alpha |-> alpha, delay |-> anim.frames[i].delay ]
    BY <1>5, <2>1, Zenon
  <2> HIDE DEF b
  <2>4. fs[i].buf = b /\ fs[i].px = work.bufs[i] /\ fs[i].palette = pal
        /\ fs[i].palette_alpha = alpha /\ fs[i].delay = anim.frames[i].delay
    BY <2>3
  <2> QED
    BY <2>2, <2>4 DEF b
<1>12. AsIndexed(anim')
  BY <1>8, <1>10, <1>11 DEF AsIndexed
<1> QED
  BY <1>8, <1>9, <1>10, <1>11, <1>12 DEF pal, alpha, n

\* The new buffers replace the old ones.
LEMMA CommitKeeps ==
  ASSUME CallsInv, Commit
  PROVE  CallsInv'
<1> DEFINE P == {Block("palette")}
                  \cup (IF HasAlpha(work.table) THEN {Block("palette_alpha")} ELSE {})
           n == FrameCount(anim)
           B == { anim.frames[i].buf.block : i \in 1..n }
           I == { <<"indices", i>> : i \in 1..n }
           M == IF anim.metadata # <<>> THEN {Block("metadata")} ELSE {}
<1>1. pc = "commit"
  BY DEF Commit
<1>2. PICK oom \in OutOfMemory :
       IF oom THEN GiveUp(NewBufs)
       ELSE /\ Free(Bufs(anim) \o <<Ptr(Block("new_bufs"))>>, P)
            /\ anim' = [ anim EXCEPT
                 !.frames = [i \in 1..FrameCount(anim) |->
                               IndexedFrame(anim.frames[i], i)],
                 !.palette = PaletteRgb(work.table),
                 !.palette_alpha = PaletteAlpha(work.table),
                 !.channels = 1, !.bytes_per_channel = 1 ]
            /\ Return
            /\ UNCHANGED <<file, picture, starved>>
  BY DEF Commit
<1>3. /\ TableOk(work.table) /\ FoundInv
      /\ heap = Owned \cup NewBufs /\ Owned \cap NewBufs = {} /\ Busy = NewBufs
  BY <1>1, PassTwo
<1>4. CASE oom
  BY <1>2, <1>3, <1>4, GiveUpKeeps
<1>5. CASE ~oom
  <2>1. /\ anim \in Anims /\ AsGiven(anim) /\ ~anim.storage /\ anim # NoAnim
        /\ n \in Nat \ {0} /\ Len(work.bufs) = n
    BY <1>1, IndexCall DEF IndexSteps, CallsInv, IndexInv
  <2>2. /\ anim' \in Anims /\ AsIndexed(anim') /\ FrameCount(anim') = n
        /\ anim'.palette = PaletteRgb(work.table)
        /\ anim'.palette_alpha = PaletteAlpha(work.table)
        /\ anim'.metadata = anim.metadata /\ anim'.storage = anim.storage
        /\ \A i \in 1..n : anim'.frames[i].buf = Ptr(<<"indices", i>>)
    BY <1>1, <1>2, <1>5, CommitGives
  <2>3. Free(Bufs(anim) \o <<Ptr(Block("new_bufs"))>>, P)
        /\ Return /\ UNCHANGED <<file, picture, starved>>
    BY <1>2, <1>5
  <2>4. NewBufs = {Block("new_bufs")} \cup I
    BY <2>1 DEF NewBufs, Blocks
  <2>5. Owned = ((B \cup {Block("frames")}) \cup M) \cup FileBlocks(file)
    <3>1. Owned = OwnBlocks(anim) \cup FileBlocks(file)
      BY <2>1, OwnedIs DEF CallsInv, AnimBlocks
    <3> QED
      BY <2>1, <3>1 DEF OwnBlocks, AsGiven
  <2>6. \A i \in 1..n : anim.frames[i].buf.block = <<"pixels", i>>
    <3>1. \A b : Ptr(b).block = b
      BY DEF Ptr
    <3> QED
      BY <2>1, <3>1, Zenon DEF AsGiven
  <2>7. B \subseteq {"pixels"} \X Nat
    <3>1. \A i \in 1..n : i \in Nat
      BY <2>1
    <3> QED
      BY <2>6, <3>1
  <2>8. /\ Misused(Bufs(anim) \o <<Ptr(Block("new_bufs"))>>) = {}
        /\ Freed(Bufs(anim) \o <<Ptr(Block("new_bufs"))>>) = B \cup {Block("new_bufs")}
    <3>1. Fine(Bufs(anim), B)
      BY <2>1, BufsFine
    <3>2. Fine(<<Ptr(Block("new_bufs"))>>, {Block("new_bufs")})
      BY FineBlock DEF Names
    <3>3. B \cap {Block("new_bufs")} = {}
      BY <2>7 DEF Block
    <3> HIDE DEF B, I, M
    <3>4. Fine(Bufs(anim) \o <<Ptr(Block("new_bufs"))>>, B \cup {Block("new_bufs")})
      BY <3>1, <3>2, <3>3, FineConcat
    <3>5. B \cup {Block("new_bufs")} \subseteq heap
      BY <1>3, <2>4, <2>5
    <3> QED
      BY <3>4, <3>5, FineFrees
  <2>9. heap' = (heap \ (B \cup {Block("new_bufs")})) \cup P
    BY <2>3, <2>8 DEF Free
  <2>10. wild' = wild
    <3>1. wild \in BOOLEAN /\ wild' = (wild \/ Misused(Bufs(anim) \o <<Ptr(Block("new_bufs"))>>) # {})
      BY <2>3, Zenon DEF CallsInv, TypeOK, Free
    <3> QED
      BY <2>8, <3>1, Zenon
  <2>11. anim' # NoAnim /\ BufsOwned'
    BY <2>2, AnimIsThere DEF BufsOwned
  <2>12. Owned' = (((I \cup {Block("frames")}) \cup M) \cup P) \cup FileBlocks(file)
    <3>1. Owned' = OwnBlocks(anim') \cup FileBlocks(file)
      BY <2>2, <2>3, <2>11, OwnedIsNext DEF AnimBlocks
    <3>2. { anim'.frames[i].buf.block : i \in 1..FrameCount(anim') } = I
      <4>1. \A b : Ptr(b).block = b
        BY DEF Ptr
      <4>2. \A i \in 1..n : anim'.frames[i].buf.block = <<"indices", i>>
        BY <2>2, <4>1, Zenon
      <4> QED
        BY <2>2, <4>2
    <3>3. anim'.palette # <<>> /\ (HasAlpha(work.table) <=> anim'.palette_alpha # <<>>)
      BY <1>1, <1>3, <2>2, TableNotEmpty, PaletteShows
    <3>4. OwnBlocks(anim') = ((I \cup {Block("frames")}) \cup M) \cup P
      <4> HIDE DEF I
      <4> QED
        BY <2>1, <2>2, <3>2, <3>3 DEF OwnBlocks
    <3> QED
      BY <3>1, <3>4
  <2>13. HeapIsOwned'
    <3>1. Busy' = {}
      BY <2>3 DEF Return, Busy
    <3>2. I \subseteq {"indices"} \X Nat
      <4>1. \A i \in 1..n : i \in Nat
        BY <2>1
      <4> QED
        BY <4>1
    <3>3. Block("new_bufs") \notin I \cup M \cup FileBlocks(file) \cup {Block("frames")}
      BY <3>2 DEF Block, FileBlocks
    <3>4. B \cap (I \cup M \cup FileBlocks(file) \cup {Block("frames")}) = {}
      BY <2>7, <3>2 DEF Block, FileBlocks
    <3> HIDE DEF I, B, M, P
    <3> QED
      BY <1>3, <2>4, <2>5, <2>9, <2>12, <3>1, <3>3, <3>4 DEF HeapIsOwned
  <2>14. TypeOK' /\ FreesAreSound'
    BY <2>2, <2>3, <2>10 DEF CallsInv, TypeOK, FreesAreSound, Return
  <2>15. IndexInv' /\ EncodeInv'
    BY <2>3 DEF Return, IndexInv, EncodeInv, IndexSteps, EncodeSteps
  <2>16. DecodeInv'
    BY <2>3, FileStays DEF Return, DecodeSteps
  <2> QED
    BY <2>11, <2>13, <2>14, <2>15, <2>16 DEF CallsInv
<1> QED
  BY <1>4, <1>5

------------------------------------------------------------------------------
(* apxl_encode                                                               *)

\* The call begins, or the animation cannot be represented.
LEMMA EncodeKeeps ==
  ASSUME CallsInv, Encode
  PROVE  CallsInv'
<1>1. heap = Owned /\ pc = "idle" /\ anim # NoAnim /\ file = NoFile
  BY NothingBusy DEF Encode, Idle
<1>2. CASE Representable(anim)
  <2>1. pc' = "gather" /\ UNCHANGED <<anim, file, heap, wild, work, picture, starved>>
    BY <1>2 DEF Encode, Continue
  <2>2. IndexInv' /\ EncodeInv' /\ DecodeInv'
    BY <1>1, <1>2, <2>1, FileStays DEF IndexInv, IndexSteps, EncodeInv, DecodeSteps
  <2>3. heap' = Owned \cup Busy'
    BY <1>1, <2>1 DEF Busy
  <2> QED
    BY <2>1, <2>2, <2>3, GoesOn DEF EncodeSteps
<1>3. CASE ~Representable(anim)
  BY <1>1, <1>3, ReturnKeeps DEF Encode, CallsInv, TypeOK
<1> QED
  BY <1>2, <1>3

\* The frames are gathered, or do not match.
LEMMA GatherKeeps ==
  ASSUME CallsInv, Gather
  PROVE  CallsInv'
<1>1. heap = Owned /\ Busy = {} /\ pc = "gather"
  BY NothingBusy DEF Gather
<1>2. PICK oom \in OutOfMemory :
       IF oom THEN GiveUp({})
       ELSE /\ IF FramesMatch(anim)
                 THEN Allocate({Block("raw")}) /\ Continue("compress")
                 ELSE Return /\ UNCHANGED <<heap, wild>>
            /\ UNCHANGED <<anim, file, picture, starved>>
  BY DEF Gather
<1>3. CASE oom
  BY <1>1, <1>2, <1>3, GiveUpKeeps
<1>4. CASE ~oom /\ FramesMatch(anim)
  <2>1. /\ pc' = "compress" /\ UNCHANGED <<anim, file, wild, work, picture, starved>>
        /\ heap' = heap \cup {Block("raw")}
    BY <1>2, <1>4 DEF Continue, Allocate
  <2>2. IndexInv' /\ EncodeInv' /\ DecodeInv'
    BY <1>1, <1>4, <2>1, FileStays DEF IndexInv, IndexSteps, EncodeInv, EncodeSteps, DecodeSteps, CallsInv
  <2>3. heap' = Owned \cup Busy'
    BY <1>1, <2>1 DEF Busy
  <2> QED
    BY <2>1, <2>2, <2>3, GoesOn DEF EncodeSteps
<1>5. CASE ~oom /\ ~FramesMatch(anim)
  BY <1>1, <1>2, <1>5, ReturnKeeps DEF CallsInv, TypeOK
<1> QED
  BY <1>3, <1>4, <1>5

\* A product grows with its factor.
LEMMA ProductGrows ==
  ASSUME NEW a \in Nat, NEW b \in Nat, NEW m \in Nat, b <= m
  PROVE  a * b \in Nat /\ a * b <= a * m
<1>1. PICK k \in Nat : m = b + k
  BY SMT
<1>2. a * m = a * b + a * k
  BY <1>1, SMT
<1>3. a * k \in Nat /\ a * b \in Nat
  BY <1>1, SMT
<1> QED
  BY <1>2, <1>3, SMT

\* A size_t holds the size of all frames.
LEMMA SizeFits ==
  ASSUME NEW p \in 0..APXL_MAX_PIXELS, NEW c \in 1..4, NEW b \in {1, 2},
         NEW n \in 0..APXL_MAX_FRAMES
  PROVE  p * c * b * n \in Nat /\ (p * c * b * n) % SizeValues = p * c * b * n
<1> DEFINE x == p * c * b * n
           k == c * b * n
<1>1. /\ APXL_MAX_PIXELS \in Nat /\ APXL_MAX_FRAMES \in Nat /\ SizeValues \in Nat \ {0}
      /\ p \in Nat /\ n \in Nat
  BY ApxlAssumption
<1>2. k \in Nat /\ k <= 8 * APXL_MAX_FRAMES
  <2>1. c = 1 \/ c = 2 \/ c = 3 \/ c = 4
    BY SMT
  <2> QED
    BY <1>1, <2>1, SMT
<1>3. x = p * k
  BY <1>1, SMT
<1>4. 8 * APXL_MAX_FRAMES \in Nat
  BY <1>1
<1> HIDE DEF k, x
<1>5. x \in Nat /\ x <= p * (8 * APXL_MAX_FRAMES)
  BY <1>1, <1>2, <1>3, <1>4, ProductGrows
<1> DEFINE m == 8 * APXL_MAX_FRAMES
<1> HIDE DEF m
<1>6. m \in Nat
  BY <1>4 DEF m
<1>7. m * p <= m * APXL_MAX_PIXELS
  BY <1>1, <1>6, ProductGrows
<1>8. p * m <= APXL_MAX_PIXELS * m
  BY <1>1, <1>6, <1>7, SMT
<1>9. x < SizeValues
  <2>1. APXL_MAX_PIXELS * m < SizeValues /\ x <= p * m
    BY <1>5, SizeAssumption DEF m
  <2>2. APXL_MAX_PIXELS * m \in Nat /\ p * m \in Nat
    BY <1>1, <1>6, ProductGrows
  <2> QED
    BY <1>1, <1>5, <1>8, <2>1, <2>2, SMT
<1>10. x % SizeValues = x
  BY <1>1, <1>5, <1>9, SMT
<1> QED
  BY <1>5, <1>10 DEF x

\* A field of the header holds what is not above its largest value.
LEMMA CastIs ==
  ASSUME NEW n \in Nat
  PROVE  /\ Uint32(n) \in Nat /\ Uint32(n) <= n
         /\ Uint32(n) = n <=> n <= Uint32Max
BY ApxlAssumption, SMT DEF Uint32

\* What the encoder writes the decoder's header check lets pass.
LEMMA EncodedHeader ==
  ASSUME NEW a \in Anims, Representable(a)
  PROVE  /\ FileOf(a) \in Files /\ FileOf(a).ours
         /\ FileOf(a).metadata = SubSeq(a.metadata, 1, Uint32(Len(a.metadata)))
         /\ FileOf(a).whole <=> Uint32(Len(a.metadata)) = Len(a.metadata)
         /\ HeaderOk(FileOf(a)) /\ Len(FileOf(a).delays) = Len(FileOf(a).frames)
         /\ Len(FileOf(a).frames) = FrameCount(a)
         /\ \A i \in 1..FrameCount(a) : /\ FileOf(a).frames[i] = a.frames[i].px
                                        /\ FileOf(a).delays[i] = a.frames[i].delay
<1> DEFINE n == FrameCount(a)
           f == FileOf(a)
           fs == [i \in 1..n |-> a.frames[i].px]
           ds == [i \in 1..n |-> a.frames[i].delay]
           pal == a.frames[1].palette
           alpha == IF Indexed(a.frames[1]) THEN a.frames[1].palette_alpha ELSE <<>>
           m == SubSeq(a.metadata, 1, Uint32(Len(a.metadata)))
           w == Uint32(Len(a.metadata)) = Len(a.metadata)
<1>1. /\ n \in 1..APXL_MAX_FRAMES /\ a.pixels \in 1..APXL_MAX_PIXELS
      /\ a.channels \in 1..4 /\ a.bytes_per_channel \in {1, 2}
      /\ SharedPalette(a)
  BY DEF Representable, GeometryOk
<1>2. n \in Nat \ {0} /\ \A i \in 1..n : a.frames[i] \in Frames
  BY <1>1, ApxlAssumption DEF FrameCount, Anims
<1>3. /\ fs \in Seq(Seq(Nat)) /\ Len(fs) = n /\ ds \in Seq(Nat) /\ Len(ds) = n
  <2>1. \A i \in 1..n : a.frames[i].px \in Seq(Nat) /\ a.frames[i].delay \in Nat
    BY <1>2 DEF Frames
  <2> HIDE DEF n
  <2> QED
    BY <1>2, <2>1
<1>4. pal \in Palettes /\ alpha \in PaletteAlphas
  <2>1. a.frames[1] \in Frames
    BY <1>2
  <2>2. <<>> \in PaletteAlphas
    BY DEF PaletteAlphas
  <2> QED
    BY <2>1, <2>2 DEF Frames
<1>5. /\ Len(pal) <= APXL_MAX_PALETTE /\ Len(alpha) <= Len(pal)
      /\ pal # <<>> => a.channels = 1 /\ a.bytes_per_channel = 1
  <2>1. CASE Indexed(a.frames[1])
    BY <1>1, <2>1 DEF SharedPalette, Indexed
  <2>2. CASE ~Indexed(a.frames[1])
    BY <2>2, ApxlAssumption DEF Indexed
  <2> QED
    BY <2>1, <2>2
<1>6. /\ RawBytes(a) \in Nat
      /\ RawBytes(a) = a.pixels * a.channels * a.bytes_per_channel * n
  <2>1. a.pixels \in 0..APXL_MAX_PIXELS /\ n \in 0..APXL_MAX_FRAMES
    BY <1>1
  <2> QED
    BY <1>1, <2>1, SizeFits DEF RawBytes, FrameBytes
<1>7. f = [ frames |-> fs, delays |-> ds,
            channels |-> a.channels, bytes_per_channel |-> a.bytes_per_channel,
            pixels |-> a.pixels, loop_count |-> a.loop_count,
            palette |-> pal, palette_alpha |-> alpha,
            metadata |-> m, raw_byte_count |-> Uint32(RawBytes(a)),
            well_formed |-> TRUE, whole |-> w, ours |-> TRUE ]
  BY DEF FileOf
<1>8. /\ a.channels \in Nat /\ a.bytes_per_channel \in Nat /\ a.pixels \in Nat
      /\ a.loop_count \in Nat /\ m \in Seq(Nat) /\ w \in BOOLEAN
  <2>1. a.metadata \in Seq(Nat)
    BY DEF Anims
  <2>2. Uint32(Len(a.metadata)) \in Nat /\ Uint32(Len(a.metadata)) <= Len(a.metadata)
    BY <2>1, CastIs
  <2>3. m \in Seq(Nat)
    BY <2>1, <2>2
  <2> QED
    BY <2>3 DEF Anims
<1> DEFINE r == Uint32(RawBytes(a))
<1>9. r \in Nat /\ r = a.pixels * a.channels * a.bytes_per_channel * n
  BY <1>6, CastIs DEF Representable
<1> HIDE DEF n, f, fs, ds, pal, alpha, r, m, w
<1>10. f = [ frames |-> fs, delays |-> ds,
            channels |-> a.channels, bytes_per_channel |-> a.bytes_per_channel,
            pixels |-> a.pixels, loop_count |-> a.loop_count,
            palette |-> pal, palette_alpha |-> alpha,
            metadata |-> m, raw_byte_count |-> r,
            well_formed |-> TRUE, whole |-> w, ours |-> TRUE ]
  BY <1>7 DEF r
<1>11. f \in Files
  BY <1>3, <1>4, <1>8, <1>9, <1>10, Zenon DEF Files
<1>12. /\ f.frames = fs /\ f.delays = ds /\ f.channels = a.channels
       /\ f.bytes_per_channel = a.bytes_per_channel /\ f.pixels = a.pixels
       /\ f.palette = pal /\ f.palette_alpha = alpha /\ f.raw_byte_count = r
       /\ f.well_formed /\ f.metadata = m /\ f.whole = w /\ f.ours
  BY <1>10, Zenon
<1>13. HeaderOk(f)
  BY <1>1, <1>3, <1>5, <1>9, <1>12 DEF HeaderOk, GeometryOk
<1>14. \A i \in 1..n : f.frames[i] = a.frames[i].px /\ f.delays[i] = a.frames[i].delay
  BY <1>12 DEF fs, ds
<1> QED
  BY <1>3, <1>11, <1>12, <1>13, <1>14 DEF f, n, m, w

\* The file is written.
LEMMA CompressKeeps ==
  ASSUME CallsInv, Compress
  PROVE  CallsInv'
<1>1. /\ pc = "compress" /\ anim # NoAnim /\ anim \in Anims /\ file = NoFile
      /\ Representable(anim)
  BY DEF Compress, CallsInv, TypeOK, EncodeInv, EncodeSteps
<1>2. Busy = {Block("raw")} /\ heap = Owned \cup {Block("raw")} /\ Block("raw") \notin Owned
  <2>1. Busy = {Block("raw")}
    BY <1>1 DEF Busy
  <2> QED
    BY <2>1, BusyApart DEF CallsInv, HeapIsOwned
<1>3. PICK oom \in OutOfMemory :
       IF oom THEN GiveUp({Block("raw")})
       ELSE /\ Free(<<Ptr(Block("raw"))>>, {Block("file")})
            /\ file' = FileOf(anim)
            /\ Return
            /\ UNCHANGED <<anim, picture, starved>>
  BY DEF Compress
<1>4. CASE oom
  BY <1>2, <1>3, <1>4, GiveUpKeeps
<1>5. CASE ~oom
  <2>1. /\ Free(<<Ptr(Block("raw"))>>, {Block("file")})
        /\ file' = FileOf(anim) /\ Return /\ UNCHANGED <<anim, picture, starved>>
    BY <1>3, <1>5
  <2>2. heap' = (heap \ {Block("raw")}) \cup {Block("file")} /\ wild' = wild
    BY <1>2, <2>1, FreeOwn DEF Names
  <2>3. /\ file' \in Files /\ file' # NoFile /\ file'.ours
        /\ HeaderOk(file') /\ Len(file'.delays) = Len(file'.frames)
    BY <1>1, <2>1, EncodedHeader, FileIsThere
  <2>4. BufsOwned' /\ (anim' # NoAnim => anim' \in Anims)
    BY <2>1 DEF CallsInv, BufsOwned, TypeOK
  <2>5. Owned = AnimBlocks(anim)
    BY <1>1, OwnedIs DEF CallsInv, TypeOK, FileBlocks
  <2>6. Owned' = AnimBlocks(anim) \cup {Block("file")}
    BY <2>1, <2>3, <2>4, OwnedIsNext DEF FileBlocks
  <2>7. HeapIsOwned'
    BY <1>2, <2>1, <2>2, <2>5, <2>6 DEF HeapIsOwned, Busy, Return
  <2>8. TypeOK' /\ FreesAreSound'
    BY <2>1, <2>2, <2>3, <2>4 DEF CallsInv, TypeOK, FreesAreSound, Return
  <2>9. IndexInv' /\ EncodeInv'
    BY <2>1 DEF Return, IndexInv, EncodeInv, IndexSteps, EncodeSteps
  <2>10. DecodeInv'
    BY <2>1, <2>3 DEF Return, DecodeInv, DecodeSteps
  <2> QED
    BY <2>4, <2>7, <2>8, <2>9, <2>10 DEF CallsInv
<1> QED
  BY <1>4, <1>5

------------------------------------------------------------------------------
(* apxl_decode                                                               *)

\* The call begins.
LEMMA DecodeKeeps ==
  ASSUME CallsInv, Decode
  PROVE  CallsInv'
<1>1. heap = Owned /\ anim = NoAnim /\ file # NoFile /\ pc' = "header"
      /\ UNCHANGED <<anim, file, heap, wild, starved>>
  BY NothingBusy DEF Decode, Idle, Continue
<1>2. IndexInv' /\ EncodeInv' /\ DecodeInv'
  BY <1>1 DEF CallsInv, IndexInv, EncodeInv, DecodeInv, IndexSteps, EncodeSteps, DecodeSteps
<1>3. heap' = Owned \cup Busy'
  BY <1>1 DEF Busy
<1> QED
  BY <1>1, <1>2, <1>3, GoesOn DEF DecodeSteps

\* The header passes or does not.
LEMMA ReadHeaderKeeps ==
  ASSUME CallsInv, ReadHeader
  PROVE  CallsInv'
<1>1. /\ heap = Owned /\ pc = "header" /\ anim = NoAnim /\ file # NoFile
      /\ UNCHANGED <<anim, file, heap, wild, picture, starved>>
  BY NothingBusy DEF ReadHeader, CallsInv, DecodeInv, DecodeSteps
<1>2. CASE HeaderOk(file)
  <2>1. pc' = "palette"
    BY <1>2 DEF ReadHeader, Continue
  <2>2. IndexInv' /\ EncodeInv' /\ DecodeInv'
    BY <1>1, <1>2, <2>1 DEF CallsInv, IndexInv, EncodeInv, DecodeInv, IndexSteps, EncodeSteps, DecodeSteps
  <2>3. heap' = Owned \cup Busy'
    BY <1>1, <2>1 DEF Busy
  <2> QED
    BY <1>1, <2>1, <2>2, <2>3, GoesOn DEF DecodeSteps
<1>3. CASE ~HeaderOk(file)
  BY <1>1, <1>3, ReturnKeeps DEF ReadHeader, CallsInv, TypeOK
<1> QED
  BY <1>2, <1>3

\* The palette is copied.
LEMMA CopyPaletteKeeps ==
  ASSUME CallsInv, CopyPalette
  PROVE  CallsInv'
<1>1. /\ heap = Owned /\ Busy = {} /\ pc = "palette" /\ anim = NoAnim /\ file # NoFile
      /\ HeaderOk(file)
  BY NothingBusy DEF CopyPalette, CallsInv, DecodeInv, DecodeSteps
<1>2. CASE /\ Allocate(PaletteBlocks) /\ pc' = "decompress"
           /\ UNCHANGED <<anim, file, work, picture, starved>>
  <2>1. IndexInv' /\ EncodeInv' /\ DecodeInv'
    BY <1>1, <1>2 DEF CallsInv, IndexInv, EncodeInv, DecodeInv, IndexSteps, EncodeSteps, DecodeSteps
  <2>2. heap' = Owned \cup Busy' /\ wild' = wild
    BY <1>1, <1>2 DEF Busy, Allocate, PaletteBlocks
  <2> QED
    BY <1>2, <2>1, <2>2, GoesOn DEF DecodeSteps
<1>3. CASE GiveUp({})
  BY <1>1, <1>3, GiveUpKeeps
<1> QED
  BY <1>2, <1>3 DEF CopyPalette

\* The frames are decompressed, or the data is broken.
LEMMA DecompressKeeps ==
  ASSUME CallsInv, Decompress
  PROVE  CallsInv'
<1>1. /\ pc = "decompress" /\ anim = NoAnim /\ file # NoFile /\ HeaderOk(file)
      /\ Busy = PaletteBlocks /\ heap = Owned \cup PaletteBlocks /\ Owned \cap PaletteBlocks = {}
  <2>1. pc = "decompress"
    BY DEF Decompress
  <2>2. Busy = PaletteBlocks
    BY <2>1 DEF Busy
  <2> QED
    BY <2>1, <2>2, BusyApart DEF CallsInv, HeapIsOwned, DecodeInv, DecodeSteps
<1>2. PICK oom \in OutOfMemory :
       IF oom THEN GiveUp(PaletteBlocks)
       ELSE /\ IF file.whole
                 THEN Allocate({Block("storage")}) /\ Continue("frames")
                 ELSE /\ heap' = heap \ PaletteBlocks
                      /\ Return
                      /\ UNCHANGED wild
            /\ UNCHANGED <<anim, file, picture, starved>>
  BY DEF Decompress
<1>3. CASE oom
  BY <1>1, <1>2, <1>3, GiveUpKeeps
<1>4. CASE ~oom /\ file.whole
  <2>1. Allocate({Block("storage")}) /\ pc' = "frames" /\ UNCHANGED <<anim, file, picture, starved>>
    BY <1>2, <1>4 DEF Continue
  <2>2. IndexInv' /\ EncodeInv' /\ DecodeInv'
    BY <1>1, <1>4, <2>1
    DEF CallsInv, IndexInv, EncodeInv, DecodeInv, IndexSteps, EncodeSteps, DecodeSteps
  <2>3. heap' = Owned \cup Busy' /\ wild' = wild
    BY <1>1, <2>1 DEF Busy, Allocate, PaletteBlocks
  <2> QED
    BY <2>1, <2>2, <2>3, GoesOn DEF DecodeSteps
<1>5. CASE ~oom /\ ~file.whole
  <2>1. /\ heap' = Owned /\ Return /\ UNCHANGED <<anim, file, wild, starved>>
    BY <1>1, <1>2, <1>5
  <2> QED
    BY <2>1, ReturnKeeps DEF CallsInv, TypeOK
<1> QED
  BY <1>3, <1>4, <1>5

\* Fields of the right kinds make an animation.
LEMMA FieldsMakeAnim ==
  ASSUME NEW f \in Seq(Frames), NEW c \in Nat, NEW d \in Nat, NEW x \in Nat,
         NEW l \in Nat, NEW p \in Palettes, NEW q \in PaletteAlphas, NEW m \in Seq(Nat)
  PROVE  [ frames |-> f, channels |-> c, bytes_per_channel |-> d, pixels |-> x,
           loop_count |-> l, palette |-> p, palette_alpha |-> q, metadata |-> m,
           storage |-> TRUE ] \in Anims
<1>1. TRUE \in BOOLEAN
  OBVIOUS
<1> QED
  BY <1>1, Zenon DEF Anims

\* What is decoded from a file the header check lets pass.
LEMMA DecodedAnim ==
  ASSUME file \in Files, HeaderOk(file), Len(file.delays) = Len(file.frames),
         NEW kept \in Seq(Nat), NEW a,
         a = [ frames |-> [i \in DOMAIN file.frames |-> DecodedFrame(i)],
               channels |-> file.channels,
               bytes_per_channel |-> file.bytes_per_channel,
               pixels |-> file.pixels, loop_count |-> file.loop_count,
               palette |-> file.palette,
               palette_alpha |-> file.palette_alpha,
               metadata |-> kept, storage |-> TRUE ]
  PROVE  /\ a \in Anims /\ a.storage /\ a.metadata = kept
         /\ a.loop_count = file.loop_count
         /\ a.palette = file.palette /\ a.palette_alpha = file.palette_alpha
         /\ FrameCount(a) = Len(file.frames)
         /\ \A i \in 1..Len(file.frames) : a.frames[i] = DecodedFrame(i)
<1> DEFINE n == Len(file.frames)
           fs == [i \in 1..n |-> DecodedFrame(i)]
<1>1. /\ n \in Nat /\ DOMAIN file.frames = 1..n
      /\ file.frames \in Seq(Seq(Nat)) /\ file.delays \in Seq(Nat)
      /\ file.channels \in Nat /\ file.bytes_per_channel \in Nat /\ file.pixels \in Nat
      /\ file.loop_count \in Nat /\ file.palette \in Palettes
      /\ file.palette_alpha \in PaletteAlphas
  BY DEF Files
<1>2. ASSUME NEW i \in 1..n
      PROVE  DecodedFrame(i) \in Frames
  <2> DEFINE at == (i - 1) * file.pixels
             b == [block |-> Block("storage"), at |-> at]
  <2>1. at \in Nat
    <3> DEFINE j == i - 1
               m == file.pixels
    <3>1. j \in Nat /\ m \in Nat
      BY <1>1
    <3> HIDE DEF n, j, m
    <3>2. j * m \in Nat
      BY <3>1
    <3> QED
      BY <3>2 DEF j, m
  <2>2. Block("storage") \in {"pixels", "indices", "storage"} \X Nat
    BY DEF Block
  <2> HIDE DEF at
  <2>3. b \in [block : {"pixels", "indices", "storage"} \X Nat, at : Nat]
    BY <2>1, <2>2
  <2>4. file.frames[i] \in Seq(Nat) /\ file.delays[i] \in Nat
    BY <1>1, SMTT(30)
  <2>5. DecodedFrame(i) =
         [ buf |-> b, px |-> file.frames[i], channels |-> file.channels,
           bytes_per_channel |-> file.bytes_per_channel,
           palette |-> file.palette, palette_alpha |-> file.palette_alpha,
           delay |-> file.delays[i] ]
    BY DEF DecodedFrame, at
  <2> DEFINE c == file.channels
             d == file.bytes_per_channel
             p == file.palette
             q == file.palette_alpha
             x == file.frames[i]
             e == file.delays[i]
  <2>6. DecodedFrame(i) = [ buf |-> b, px |-> x, channels |-> c, bytes_per_channel |-> d,
                            palette |-> p, palette_alpha |-> q, delay |-> e ]
    BY <2>5
  <2>7. c \in Nat /\ d \in Nat /\ p \in Palettes /\ q \in PaletteAlphas
        /\ x \in Seq(Nat) /\ e \in Nat
    BY <1>1, <2>4
  <2> HIDE DEF b, n, c, d, p, q, x, e
  <2> QED
    BY <2>3, <2>6, <2>7, FieldsMakeFrame
<1>3. fs \in Seq(Frames) /\ Len(fs) = n /\ \A i \in 1..n : fs[i] = DecodedFrame(i)
  <2> DEFINE D(i) == DecodedFrame(i)
  <2>0. n \in Nat
    BY <1>1
  <2> HIDE DEF D, n
  <2>1. \A i \in 1..n : D(i) \in Frames
    BY <1>2 DEF D
  <2>2. [i \in 1..n |-> D(i)] \in Seq(Frames) /\ Len([i \in 1..n |-> D(i)]) = n
        /\ \A i \in 1..n : [j \in 1..n |-> D(j)][i] = D(i)
    BY <2>0, <2>1
  <2> QED
    BY <2>2 DEF D
<1>4. a = [ frames |-> fs,
               channels |-> file.channels,
               bytes_per_channel |-> file.bytes_per_channel,
               pixels |-> file.pixels, loop_count |-> file.loop_count,
               palette |-> file.palette,
               palette_alpha |-> file.palette_alpha,
               metadata |-> kept, storage |-> TRUE ]
  BY <1>1
<1> DEFINE c == file.channels
           d == file.bytes_per_channel
           x == file.pixels
           l == file.loop_count
           p == file.palette
           q == file.palette_alpha
<1>5. /\ a = [ frames |-> fs, channels |-> c, bytes_per_channel |-> d, pixels |-> x,
               loop_count |-> l, palette |-> p, palette_alpha |-> q, metadata |-> kept,
               storage |-> TRUE ]
      /\ c \in Nat /\ d \in Nat /\ x \in Nat /\ l \in Nat
      /\ p \in Palettes /\ q \in PaletteAlphas
  BY <1>1, <1>4
<1> HIDE DEF fs, n, c, d, x, l, p, q
<1>6. a \in Anims
  BY <1>3, <1>5, FieldsMakeAnim
<1>7. /\ a.frames = fs /\ a.storage /\ a.metadata = kept /\ a.palette = p
      /\ a.palette_alpha = q /\ a.loop_count = l
  BY <1>5
<1>8. FrameCount(a) = n
  BY <1>3, <1>7 DEF FrameCount
<1> QED
  BY <1>3, <1>6, <1>7, <1>8 DEF n, p, q, l

\* The animation is put together.
LEMMA BuildFramesKeeps ==
  ASSUME CallsInv, BuildFrames
  PROVE  CallsInv'
<1>1. /\ pc = "frames" /\ anim = NoAnim /\ file # NoFile /\ file \in Files /\ HeaderOk(file)
      /\ Len(file.delays) = Len(file.frames)
      /\ Busy = PaletteBlocks \cup {Block("storage")}
      /\ heap = Owned \cup Busy
  <2>1. pc = "frames"
    BY DEF BuildFrames
  <2>2. Busy = PaletteBlocks \cup {Block("storage")}
    BY <2>1 DEF Busy
  <2> QED
    BY <2>1, <2>2 DEF CallsInv, HeapIsOwned, DecodeInv, DecodeSteps, TypeOK
<1>2. PICK oom \in OutOfMemory, dropped \in OutOfMemory :
       IF oom THEN GiveUp(PaletteBlocks \cup {Block("storage")})
       ELSE LET kept == IF dropped THEN <<>> ELSE file.metadata
            IN  /\ Allocate({Block("frames")}
                      \cup (IF kept # <<>> THEN {Block("metadata")} ELSE {}))
                /\ anim' = [ frames |-> [i \in DOMAIN file.frames |-> DecodedFrame(i)],
                             channels |-> file.channels,
                             bytes_per_channel |-> file.bytes_per_channel,
                             pixels |-> file.pixels, loop_count |-> file.loop_count,
                             palette |-> file.palette,
                             palette_alpha |-> file.palette_alpha,
                             metadata |-> kept, storage |-> TRUE ]
                /\ starved' = (starved \/ kept # file.metadata)
                /\ Return
                /\ UNCHANGED <<file, picture>>
  BY DEF BuildFrames
<1>3. CASE oom
  BY <1>1, <1>2, <1>3, GiveUpKeeps
<1>4. CASE ~oom
  <2> DEFINE kept == IF dropped THEN <<>> ELSE file.metadata
             M == IF kept # <<>> THEN {Block("metadata")} ELSE {}
  <2>1. /\ Allocate({Block("frames")} \cup M)
        /\ anim' = [ frames |-> [i \in DOMAIN file.frames |-> DecodedFrame(i)],
                     channels |-> file.channels,
                     bytes_per_channel |-> file.bytes_per_channel,
                     pixels |-> file.pixels, loop_count |-> file.loop_count,
                     palette |-> file.palette,
                     palette_alpha |-> file.palette_alpha,
                     metadata |-> kept, storage |-> TRUE ]
        /\ starved' = (starved \/ kept # file.metadata)
        /\ Return
        /\ UNCHANGED <<file, picture>>
    BY <1>2, <1>4
  <2>2. kept \in Seq(Nat)
    BY <1>1 DEF Files
  <2> HIDE DEF kept
  <2>3. /\ anim' \in Anims /\ anim'.storage /\ anim'.metadata = kept
        /\ anim'.palette = file.palette /\ anim'.palette_alpha = file.palette_alpha
    BY <1>1, <2>1, <2>2, DecodedAnim
  <2>4. anim' # NoAnim /\ BufsOwned'
    BY <2>3, AnimIsThere DEF BufsOwned
  <2>5. Owned = {Block("file")}
    BY <1>1, OwnedKinds DEF FileBlocks
  <2>6. Owned' = (({Block("frames"), Block("storage")} \cup M) \cup PaletteBlocks) \cup {Block("file")}
    <3>1. Owned' = OwnBlocks(anim') \cup {Block("file")}
      BY <1>1, <2>1, <2>3, <2>4, OwnedIsNext DEF AnimBlocks, FileBlocks
    <3>2. OwnBlocks(anim') = ({Block("frames"), Block("storage")} \cup M) \cup PaletteBlocks
      BY <2>3 DEF OwnBlocks, PaletteBlocks
    <3> QED
      BY <3>1, <3>2
  <2>7. heap' = heap \cup ({Block("frames")} \cup M) /\ wild' = wild /\ Busy' = {}
    BY <2>1 DEF Allocate, Return, Busy
  <2>8. HeapIsOwned'
    <3> HIDE DEF M
    <3> QED
      BY <1>1, <2>5, <2>6, <2>7 DEF HeapIsOwned
  <2>9. TypeOK' /\ FreesAreSound'
    <3>1. starved' \in BOOLEAN
      <4>1. starved \in BOOLEAN
        BY DEF CallsInv, TypeOK
      <4> QED
        BY <2>1, <4>1
    <3> QED
      BY <2>1, <2>3, <2>7, <3>1 DEF CallsInv, TypeOK, FreesAreSound, Return
  <2>10. IndexInv' /\ EncodeInv'
    BY <2>1 DEF Return, IndexInv, EncodeInv, IndexSteps, EncodeSteps
  <2>11. DecodeInv'
    BY <2>1, FileStays DEF Return, DecodeSteps
  <2> QED
    BY <2>4, <2>8, <2>9, <2>10, <2>11 DEF CallsInv
<1> QED
  BY <1>3, <1>4

------------------------------------------------------------------------------
(* The invariant                                                             *)

\* Nothing changes.
LEMMA AnimStays ==
  ASSUME CallsInv, UNCHANGED vars
  PROVE  CallsInv'
<1>1. UNCHANGED <<anim, file, heap, wild, pc, work, picture, starved>>
  BY DEF vars
<1>2. TypeOK' /\ BufsOwned' /\ FreesAreSound'
  BY <1>1 DEF CallsInv, TypeOK, BufsOwned, FreesAreSound
<1>3. EncodeInv' /\ DecodeInv'
  BY <1>1 DEF CallsInv, EncodeInv, DecodeInv
<1>4. IndexInv'
  BY <1>1 DEF CallsInv, IndexInv, CollectInv, FoundInv, Visited
<1>5. HeapIsOwned'
  <2>1. Owned' = Owned /\ Busy' = Busy
    BY <1>1 DEF Owned, Busy, NewBufs, PaletteBlocks
  <2> QED
    BY <1>1, <2>1 DEF CallsInv, HeapIsOwned
<1> QED
  BY <1>2, <1>3, <1>4, <1>5 DEF CallsInv

\* What the caller begins with.
LEMMA AnimStarts ==
  ASSUME Init
  PROVE  CallsInv
<1>1. heap = Owned /\ wild = FALSE /\ pc = "idle" /\ work = <<>> /\ starved = FALSE
  BY DEF Init
<1>2. IndexInv /\ EncodeInv /\ FreesAreSound /\ HeapIsOwned
  BY <1>1 DEF IndexInv, EncodeInv, FreesAreSound, HeapIsOwned, Busy, IndexSteps, EncodeSteps
<1>3. CASE anim \in Assembled /\ file = NoFile
  <2>1. TypeOK
    BY <1>1, <1>3, AssembledAssumption DEF TypeOK
  <2>2. BufsOwned
    <3>1. AsGiven(anim)
      BY <1>3, AssembledAssumption DEF AsGiven
    <3> QED
      BY <3>1 DEF BufsOwned
  <2>3. DecodeInv
    BY <1>1, <1>3 DEF DecodeInv, DecodeSteps
  <2> QED
    BY <1>2, <2>1, <2>2, <2>3 DEF CallsInv
<1>4. CASE anim = NoAnim /\ file \in Foreign
  <2>1. TypeOK /\ BufsOwned
    BY <1>1, <1>4, ForeignAssumption DEF TypeOK, BufsOwned
  <2>2. DecodeInv
    BY <1>1, <1>4, ForeignAssumption DEF DecodeInv, DecodeSteps
  <2> QED
    BY <1>2, <2>1, <2>2 DEF CallsInv
<1> QED
  BY <1>3, <1>4 DEF Init

\* Every step keeps the invariant.
LEMMA AnimKeeps ==
  ASSUME ~IndexDecoded, CallsInv, [Next]_vars
  PROVE  CallsInv'
<1>1. CASE DropFile \/ FreeAnim \/ Rest
  BY <1>1, DropFileKeeps, FreeAnimKeeps, AnimStays DEF Rest
<1>2. CASE TryIndex \/ AllocateTable \/ CollectColour \/ NextFrame
  BY <1>2, TryIndexKeeps, AllocateTableKeeps, CollectColourKeeps, NextFrameKeeps
<1>3. CASE AllocateNewBufs \/ IndexFrame \/ FreeTable \/ Commit
  BY <1>3, AllocateNewBufsKeeps, IndexFrameKeeps, FreeTableKeeps, CommitKeeps
<1>4. CASE Encode \/ Gather \/ Compress
  BY <1>4, EncodeKeeps, GatherKeeps, CompressKeeps
<1>5. CASE Decode \/ ReadHeader \/ CopyPalette \/ Decompress \/ BuildFrames
  BY <1>5, DecodeKeeps, ReadHeaderKeeps, CopyPaletteKeeps, DecompressKeeps, BuildFramesKeeps
<1>6. CASE UNCHANGED vars
  BY <1>6, AnimStays
<1> QED
  BY <1>1, <1>2, <1>3, <1>4, <1>5, <1>6 DEF Next

\* Metadata are kept by the encoder: in the file they are whole, or it is not.
LEMMA CompressKeepsMetadata ==
  ASSUME CallsInv, MetadataKept, Compress, file' # file
  PROVE  /\ file'.whole => SameMetadata(file.metadata)'
         /\ MetadataFits => file'.whole
         /\ UNCHANGED <<anim, picture, starved>>
<1>1. anim # NoAnim /\ anim \in Anims /\ Representable(anim)
  BY DEF Compress, CallsInv, TypeOK, EncodeInv, EncodeSteps
<1>2. file' = FileOf(anim) /\ UNCHANGED <<anim, picture, starved>>
  BY DEF Compress, GiveUp
<1> DEFINE m == anim.metadata
<1>3. m \in Seq(Nat) /\ Len(m) \in Nat /\ SameMetadata(m) /\ picture.metadata \in Seq(Nat)
  BY <1>1 DEF Anims, MetadataKept
<1>4. /\ file'.whole <=> Uint32(Len(m)) = Len(m)
      /\ file'.metadata = SubSeq(m, 1, Uint32(Len(m)))
  BY <1>1, <1>2, EncodedHeader
<1>5. Uint32(Len(m)) = Len(m) <=> Len(m) <= Uint32Max
  BY <1>3, CastIs
<1> HIDE DEF m
<1>6. SubSeq(m, 1, Len(m)) = m
  BY <1>3
<1>7. file'.whole => SameMetadata(file.metadata)'
  BY <1>2, <1>3, <1>4, <1>6 DEF SameMetadata
<1>8. MetadataFits => Len(m) <= Uint32Max
  <2>1. CASE m = picture.metadata
    BY <2>1 DEF MetadataFits
  <2>2. CASE m = <<>>
    BY <2>2, ApxlAssumption
  <2> QED
    BY <1>3, <2>1, <2>2 DEF SameMetadata
<1> QED
  BY <1>2, <1>4, <1>5, <1>7, <1>8

\* And by the decoder, unless there is no memory for them.
LEMMA BuildKeepsMetadata ==
  ASSUME CallsInv, MetadataKept, BuildFrames, anim' # anim
  PROVE  /\ SameMetadata(anim.metadata)'
         /\ UNCHANGED <<file, picture>> /\ (starved => starved')
<1>1. file # NoFile /\ file.whole
  BY DEF BuildFrames, CallsInv, DecodeInv, DecodeSteps
<1>2. PICK dropped \in OutOfMemory :
        LET kept == IF dropped THEN <<>> ELSE file.metadata
        IN  /\ anim' = [ frames |-> [i \in DOMAIN file.frames |-> DecodedFrame(i)],
                         channels |-> file.channels,
                         bytes_per_channel |-> file.bytes_per_channel,
                         pixels |-> file.pixels, loop_count |-> file.loop_count,
                         palette |-> file.palette,
                         palette_alpha |-> file.palette_alpha,
                         metadata |-> kept, storage |-> TRUE ]
            /\ starved' = (starved \/ kept # file.metadata)
            /\ UNCHANGED <<file, picture>>
  BY DEF BuildFrames, GiveUp
<1> DEFINE kept == IF dropped THEN <<>> ELSE file.metadata
<1>3. /\ anim'.metadata = kept /\ starved' = (starved \/ kept # file.metadata)
      /\ kept = file.metadata \/ kept = <<>>
      /\ UNCHANGED <<file, picture>>
  BY <1>2
<1> HIDE DEF kept
<1>4. starved \in BOOLEAN
  BY DEF CallsInv, TypeOK
<1>5. starved => starved'
  BY <1>3, <1>4
<1>6. kept # file.metadata => starved'
  BY <1>3, <1>4
<1>7. SameMetadata(file.metadata)
  BY <1>1 DEF MetadataKept
<1>8. SameMetadata(anim.metadata)'
  BY <1>3, <1>5, <1>6, <1>7 DEF SameMetadata
<1> QED
  BY <1>3, <1>5, <1>8

\* Every step keeps the metadata.
LEMMA MetadataKeeps ==
  ASSUME ~IndexDecoded, CallsInv, MetadataKept, [Next]_vars
  PROVE  MetadataKept'
<1>1. ASSUME anim' \in {anim, NoAnim}, file' \in {file, NoFile}, picture' = picture,
             starved => starved'
      PROVE  MetadataKept'
  BY <1>1 DEF MetadataKept, SameMetadata, MetadataFits
<1>2. CASE DropFile \/ FreeAnim \/ Rest \/ TryIndex \/ AllocateTable
  BY <1>1, <1>2 DEF DropFile, FreeAnim, Rest, TryIndex, AllocateTable, GiveUp, vars
<1>3. CASE CollectColour \/ NextFrame \/ AllocateNewBufs \/ IndexFrame \/ FreeTable
  BY <1>1, <1>3 DEF CollectColour, NextFrame, AllocateNewBufs, IndexFrame, FreeTable, GiveUp
<1>4. CASE Encode \/ Gather \/ Decode \/ ReadHeader \/ CopyPalette \/ Decompress
  BY <1>1, <1>4 DEF Encode, Gather, Decode, ReadHeader, CopyPalette, Decompress, GiveUp
<1>5. CASE UNCHANGED vars
  BY <1>1, <1>5 DEF vars
<1>6. CASE Commit
  <2>1. CASE anim' = anim
    BY <1>1, <1>6, <2>1 DEF Commit, GiveUp
  <2>2. CASE anim' # anim
    <3>1. /\ anim' = [ anim EXCEPT
                 !.frames = [i \in 1..FrameCount(anim) |->
                               IndexedFrame(anim.frames[i], i)],
                 !.palette = PaletteRgb(work.table),
                 !.palette_alpha = PaletteAlpha(work.table),
                 !.channels = 1, !.bytes_per_channel = 1 ]
          /\ UNCHANGED <<file, picture, starved>>
      BY <1>6, <2>2 DEF Commit, GiveUp
    <3>2. pc = "commit" /\ anim # NoAnim
      BY <1>6 DEF Commit, CallsInv, IndexInv, IndexSteps
    <3>3. anim'.metadata = anim.metadata
      BY <3>1, <3>2, CommitGives
    <3> QED
      BY <3>1, <3>2, <3>3 DEF MetadataKept, SameMetadata, MetadataFits
  <2> QED
    BY <2>1, <2>2
<1>7. CASE Compress
  <2>1. CASE file' = file
    BY <1>1, <1>7, <2>1 DEF Compress, GiveUp
  <2>2. CASE file' # file
    <3>1. /\ file'.whole => SameMetadata(file.metadata)'
          /\ MetadataFits => file'.whole
          /\ UNCHANGED <<anim, picture, starved>>
      BY <1>7, <2>2, CompressKeepsMetadata
    <3> QED
      BY <3>1 DEF MetadataKept, SameMetadata, MetadataFits
  <2> QED
    BY <2>1, <2>2
<1>8. CASE BuildFrames
  <2>1. CASE anim' = anim
    <3>1. starved \in BOOLEAN
      BY DEF CallsInv, TypeOK
    <3>2. UNCHANGED <<file, picture>> /\ (starved => starved')
      BY <1>8, <3>1 DEF BuildFrames, GiveUp
    <3> QED
      BY <1>1, <2>1, <3>2
  <2>2. CASE anim' # anim
    <3>1. /\ SameMetadata(anim.metadata)'
          /\ UNCHANGED <<file, picture>> /\ (starved => starved')
      BY <1>8, <2>2, BuildKeepsMetadata
    <3> QED
      BY <3>1 DEF MetadataKept, SameMetadata, MetadataFits
  <2> QED
    BY <2>1, <2>2
<1> QED
  BY <1>2, <1>3, <1>4, <1>5, <1>6, <1>7, <1>8 DEF Next

\* They are there from the start.
LEMMA MetadataStarts ==
  ASSUME Init
  PROVE  MetadataKept
<1>1. CASE anim \in Assembled /\ file = NoFile /\ picture = PictureOf(anim)
  <2>1. anim.metadata \in Seq(Nat)
    BY <1>1, AssembledAssumption DEF Anims
  <2> QED
    BY <1>1, <2>1 DEF MetadataKept, SameMetadata, PictureOf
<1>2. CASE anim = NoAnim /\ file \in Foreign /\ picture = PictureIn(file)
  <2>1. file.metadata \in Seq(Nat) /\ ~file.ours
    BY <1>2, ForeignAssumption DEF Files
  <2> QED
    BY <1>2, <2>1 DEF MetadataKept, SameMetadata, PictureIn
<1> QED
  BY <1>1, <1>2 DEF Init

(* The invariant of the animation codec, for every animation, file and       *)
(* outcome of every allocation: what each call has in memory and how far it  *)
(* is, and that metadata stay whole.  With it, no call loses a block or      *)
(* frees one twice.  Callers that convert a decoded animation are excluded:  *)
(* that frees its shared block in the middle.                                *)
THEOREM AnimSafe ==
  ASSUME ~IndexDecoded
  PROVE  Spec => []AnimInv
<1>1. Init => AnimInv
  BY AnimStarts, MetadataStarts DEF AnimInv
<1>2. AnimInv /\ [Next]_vars => AnimInv'
  BY AnimKeeps, MetadataKeeps DEF AnimInv
<1> QED
  BY <1>1, <1>2, PTL DEF Spec

------------------------------------------------------------------------------
(* Nothing is lost                                                           *)

\* All frames have a palette or none has.
Uniform(a) ==
  \A i, j \in 1..FrameCount(a) : Indexed(a.frames[i]) <=> Indexed(a.frames[j])

\* What the theorem needs besides.
LosslessInv ==
  /\ CallsInv /\ Lossless
  /\ anim # NoAnim => Uniform(anim)

\* The frames shown are those of the picture, with its timing.
LEMMA SamePicture ==
  ASSUME NEW p, NEW q, Shows(p), q.frames = p.frames, q.delays = p.delays,
         q.loops = p.loops, q.metadata = p.metadata \/ (starved' /\ q.metadata = <<>>),
         picture' = picture, starved => starved'
  PROVE  Shows(q)'
  BY DEF Shows, SameMetadata

\* A picture, field by field.
LEMMA PictureFields ==
  \A a : /\ PictureOf(a).frames = [ i \in 1..FrameCount(a) |->
                     Shown(a.frames[i].px, a.frames[i].palette, a.frames[i].palette_alpha) ]
         /\ PictureOf(a).delays = [ i \in 1..FrameCount(a) |-> a.frames[i].delay ]
         /\ PictureOf(a).loops = a.loop_count
         /\ PictureOf(a).metadata = a.metadata
  BY DEF PictureOf

\* The picture in a file, field by field.
LEMMA FileFields ==
  \A f : /\ PictureIn(f).frames = [ i \in DOMAIN f.frames |->
                     Shown(f.frames[i], f.palette, f.palette_alpha) ]
         /\ PictureIn(f).delays = f.delays
         /\ PictureIn(f).loops = f.loop_count
         /\ PictureIn(f).metadata = f.metadata
  BY DEF PictureIn

\* Steps that leave the animation and the file alone, or drop one of them.
LEMMA NothingNew ==
  ASSUME LosslessInv, anim' \in {anim, NoAnim}, file' \in {file, NoFile},
         picture' = picture, starved => starved'
  PROVE  Lossless' /\ (anim' # NoAnim => Uniform(anim'))
<1>1. ASSUME anim' # NoAnim
      PROVE  Shows(PictureOf(anim))' /\ Uniform(anim')
  <2>1. anim' = anim /\ Shows(PictureOf(anim)) /\ Uniform(anim)
    BY <1>1 DEF LosslessInv, Lossless
  <2>2. PictureOf(anim)' = PictureOf(anim)
    BY <2>1 DEF PictureOf, FrameCount
  <2> QED
    BY <2>1, <2>2 DEF Shows, SameMetadata
<1>2. ASSUME file' # NoFile /\ file'.whole
      PROVE  Shows(PictureIn(file))'
  <2>1. file' = file /\ Shows(PictureIn(file))
    BY <1>2 DEF LosslessInv, Lossless
  <2>2. PictureIn(file)' = PictureIn(file)
    BY <2>1 DEF PictureIn
  <2> QED
    BY <2>1, <2>2 DEF Shows, SameMetadata
<1> QED
  BY <1>1, <1>2 DEF Lossless

\* The indexed animation looks like the one it was made from.
LEMMA CommitLossless ==
  ASSUME LosslessInv, Commit
  PROVE  Lossless' /\ (anim' # NoAnim => Uniform(anim'))
<1> DEFINE n == FrameCount(anim)
           pal == PaletteRgb(work.table)
           alpha == PaletteAlpha(work.table)
<1>1. CallsInv /\ pc = "commit" /\ anim # NoAnim /\ Shows(PictureOf(anim)) /\ Indexable(anim)
  BY DEF LosslessInv, Lossless, Commit, CallsInv, IndexInv, IndexSteps
<1>2. PICK oom \in OutOfMemory :
       IF oom THEN GiveUp(NewBufs)
       ELSE /\ Free(Bufs(anim) \o <<Ptr(Block("new_bufs"))>>,
                    {Block("palette")}
                      \cup (IF HasAlpha(work.table) THEN {Block("palette_alpha")}
                                                    ELSE {}))
            /\ anim' = [ anim EXCEPT
                 !.frames = [i \in 1..FrameCount(anim) |->
                               IndexedFrame(anim.frames[i], i)],
                 !.palette = PaletteRgb(work.table),
                 !.palette_alpha = PaletteAlpha(work.table),
                 !.channels = 1, !.bytes_per_channel = 1 ]
            /\ Return
            /\ UNCHANGED <<file, picture, starved>>
  BY DEF Commit
<1>3. CASE oom
  BY <1>2, <1>3, NothingNew DEF GiveUp
<1>4. CASE ~oom
  <2>1. UNCHANGED <<file, picture, starved>>
    BY <1>2, <1>4
  <2>2. /\ FrameCount(anim') = n /\ anim'.metadata = anim.metadata
        /\ anim'.loop_count = anim.loop_count
        /\ \A i \in 1..n :
              /\ anim'.frames[i].px = Indices(work.table, anim.frames[i].px)
              /\ anim'.frames[i].palette = pal
              /\ anim'.frames[i].palette_alpha = alpha
              /\ anim'.frames[i].delay = anim.frames[i].delay
    BY <1>1, <1>2, <1>4, CommitGives
  <2>3. TableOk(work.table) /\ work.table.count # 0
    BY <1>1, PassTwo, TableNotEmpty
  <2>4. \A i \in 1..n :
          Shown(Indices(work.table, anim.frames[i].px), pal, alpha) = anim.frames[i].px
    <3>1. SUFFICES ASSUME NEW i \in 1..n
                   PROVE  Shown(Indices(work.table, anim.frames[i].px), pal, alpha) = anim.frames[i].px
      OBVIOUS
    <3>2. anim.frames[i].px \in Seq(Keys(work.table))
      BY <1>1, SamplesKnown
    <3> QED
      BY <2>3, <3>2, IndicesShow
  <2>5. \A i \in 1..n :
          Shown(anim.frames[i].px, anim.frames[i].palette, anim.frames[i].palette_alpha)
            = anim.frames[i].px
    BY <1>1 DEF Indexable, Indexed, Shown
  <2> DEFINE before(i) == Shown(anim.frames[i].px, anim.frames[i].palette,
                                anim.frames[i].palette_alpha)
             after(i) == Shown(anim'.frames[i].px, anim'.frames[i].palette,
                               anim'.frames[i].palette_alpha)
  <2>a. \A i \in 1..n : after(i) = before(i)
    BY <2>2, <2>4, <2>5
  <2>b. /\ PictureOf(anim).frames = [i \in 1..n |-> before(i)]
        /\ PictureOf(anim).delays = [i \in 1..n |-> anim.frames[i].delay]
    BY PictureFields
  <2>c. /\ PictureOf(anim').frames = [i \in 1..FrameCount(anim') |-> after(i)]
        /\ PictureOf(anim').delays = [i \in 1..FrameCount(anim') |-> anim'.frames[i].delay]
    BY PictureFields
  <2> HIDE DEF pal, alpha, n, before, after
  <2>6. PictureOf(anim').frames = PictureOf(anim).frames
    <3>1. [i \in 1..n |-> after(i)] = [i \in 1..n |-> before(i)]
      BY <2>a
    <3> QED
      BY <2>2, <2>b, <2>c, <3>1, Zenon
  <2>7. PictureOf(anim').delays = PictureOf(anim).delays
    <3>1. [i \in 1..n |-> anim'.frames[i].delay] = [i \in 1..n |-> anim.frames[i].delay]
      BY <2>2
    <3> QED
      BY <2>2, <2>b, <2>c, <3>1, Zenon
  <2>8. Shows(PictureOf(anim))'
    <3>1. /\ PictureOf(anim').loops = PictureOf(anim).loops
          /\ PictureOf(anim').metadata = PictureOf(anim).metadata
      BY <2>2, PictureFields
    <3> QED
      BY <1>1, <2>1, <2>6, <2>7, <3>1, SamePicture
  <2>9. Uniform(anim')
    BY <2>2 DEF Uniform, Indexed
  <2>10. file' # NoFile /\ file'.whole => Shows(PictureIn(file))'
    <3>1. file # NoFile /\ file.whole => Shows(PictureIn(file))
      BY DEF LosslessInv, Lossless
    <3>2. PictureIn(file)' = PictureIn(file)
      BY <2>1 DEF PictureIn
    <3> QED
      BY <2>1, <3>1, <3>2 DEF Shows, SameMetadata
  <2> QED
    BY <2>8, <2>9, <2>10 DEF Lossless
<1> QED
  BY <1>3, <1>4

\* The file shows what the animation does.
LEMMA CompressLossless ==
  ASSUME LosslessInv, Compress
  PROVE  Lossless' /\ (anim' # NoAnim => Uniform(anim'))
<1> DEFINE n == FrameCount(anim)
<1>1. /\ CallsInv /\ pc = "compress" /\ anim # NoAnim /\ anim \in Anims
      /\ Shows(PictureOf(anim)) /\ Uniform(anim) /\ Representable(anim)
  BY DEF LosslessInv, Lossless, Compress, CallsInv, TypeOK, EncodeInv, EncodeSteps
<1>2. PICK oom \in OutOfMemory :
       IF oom THEN GiveUp({Block("raw")})
       ELSE /\ Free(<<Ptr(Block("raw"))>>, {Block("file")})
            /\ file' = FileOf(anim)
            /\ Return
            /\ UNCHANGED <<anim, picture, starved>>
  BY DEF Compress
<1>3. CASE oom
  BY <1>2, <1>3, NothingNew DEF GiveUp
<1>4. CASE ~oom
  <2>1. file' = FileOf(anim) /\ UNCHANGED <<anim, picture, starved>>
    BY <1>2, <1>4
  <2>2. /\ file' \in Files /\ Len(file'.frames) = n /\ Len(file'.delays) = n
        /\ \A i \in 1..n : /\ file'.frames[i] = anim.frames[i].px
                           /\ file'.delays[i] = anim.frames[i].delay
    BY <1>1, <2>1, EncodedHeader
  <2>3. /\ file'.palette = anim.frames[1].palette
        /\ file'.palette_alpha = IF Indexed(anim.frames[1])
                                   THEN anim.frames[1].palette_alpha ELSE <<>>
        /\ file'.loop_count = anim.loop_count
        /\ file'.whole => file'.metadata = anim.metadata
    <3>1. file'.whole => file'.metadata = anim.metadata
      <4> DEFINE m == anim.metadata
      <4>1. m \in Seq(Nat)
        BY <1>1 DEF Anims
      <4>2. /\ file'.whole <=> Uint32(Len(m)) = Len(m)
            /\ file'.metadata = SubSeq(m, 1, Uint32(Len(m)))
        BY <1>1, <2>1, EncodedHeader
      <4> HIDE DEF m
      <4>3. SubSeq(m, 1, Len(m)) = m
        BY <4>1
      <4> QED
        BY <4>2, <4>3 DEF m
    <3> QED
      BY <2>1, <3>1, Zenon DEF FileOf
  <2>4. n \in Nat \ {0}
    BY <1>1, ApxlAssumption DEF Representable, GeometryOk
  <2>5. DOMAIN file'.frames = 1..n /\ file'.delays = [i \in 1..n |-> anim.frames[i].delay]
    <3>1. file'.delays \in Seq(Nat) /\ file'.frames \in Seq(Seq(Nat))
      BY <2>2 DEF Files
    <3> DEFINE ds == file'.delays
               fs == file'.frames
               d(i) == anim.frames[i].delay
    <3>2. /\ ds \in Seq(Nat) /\ fs \in Seq(Seq(Nat)) /\ Len(ds) = n /\ Len(fs) = n
          /\ \A i \in 1..n : ds[i] = d(i)
      BY <2>2, <3>1
    <3> HIDE DEF n, ds, fs, d
    <3>3. DOMAIN fs = 1..n /\ DOMAIN ds = 1..n
      BY <3>2
    <3>4. ds = [i \in 1..n |-> d(i)]
      BY <3>2, <3>3
    <3> QED
      BY <3>3, <3>4 DEF ds, fs, d
  <2>6. \A i \in 1..n :
          Shown(file'.frames[i], file'.palette, file'.palette_alpha)
            = Shown(anim.frames[i].px, anim.frames[i].palette, anim.frames[i].palette_alpha)
    <3>1. SUFFICES ASSUME NEW i \in 1..n
                   PROVE  Shown(anim.frames[i].px, file'.palette, file'.palette_alpha)
                            = Shown(anim.frames[i].px, anim.frames[i].palette,
                                    anim.frames[i].palette_alpha)
      BY <2>2
    <3>2. CASE Indexed(anim.frames[1])
      <4>1. /\ anim.frames[i].palette = anim.frames[1].palette
            /\ anim.frames[i].palette_alpha = anim.frames[1].palette_alpha
        <5>1. i = 1 \/ i \in 2..n
          BY <2>4
        <5> QED
          BY <1>1, <3>2, <5>1 DEF Representable, SharedPalette
      <4> QED
        BY <2>3, <3>2, <4>1
    <3>3. CASE ~Indexed(anim.frames[1])
      <4>1. 1 \in 1..n
        BY <2>4
      <4>2. ~Indexed(anim.frames[i])
        BY <1>1, <3>3, <4>1 DEF Uniform
      <4>3. file'.palette = <<>> /\ anim.frames[i].palette = <<>>
        BY <2>3, <3>3, <4>2 DEF Indexed
      <4> QED
        BY <4>3 DEF Shown
    <3> QED
      BY <3>2, <3>3
  <2> DEFINE before(i) == Shown(anim.frames[i].px, anim.frames[i].palette,
                                anim.frames[i].palette_alpha)
             after(i) == Shown(file'.frames[i], file'.palette, file'.palette_alpha)
  <2>a. /\ PictureOf(anim).frames = [i \in 1..n |-> before(i)]
        /\ PictureOf(anim).delays = [i \in 1..n |-> anim.frames[i].delay]
    BY PictureFields
  <2>b. /\ PictureIn(file').frames = [i \in DOMAIN file'.frames |-> after(i)]
        /\ PictureIn(file').delays = file'.delays
    BY FileFields
  <2>c. \A i \in 1..n : after(i) = before(i)
    BY <2>6
  <2> HIDE DEF n, before, after
  <2>7. /\ PictureIn(file').frames = PictureOf(anim).frames
        /\ PictureIn(file').delays = PictureOf(anim).delays
    <3>1. [i \in 1..n |-> after(i)] = [i \in 1..n |-> before(i)]
      BY <2>c
    <3> QED
      BY <2>5, <2>a, <2>b, <3>1, Zenon
  <2>8. file'.whole => Shows(PictureIn(file))'
    <3>1. /\ PictureIn(file').loops = PictureOf(anim).loops
          /\ file'.whole => PictureIn(file').metadata = PictureOf(anim).metadata
      BY <2>3, PictureFields, FileFields
    <3> QED
      BY <1>1, <2>1, <2>7, <3>1, SamePicture
  <2>9. Shows(PictureOf(anim))'
    <3>1. PictureOf(anim)' = PictureOf(anim)
      BY <2>1 DEF PictureOf, FrameCount
    <3> QED
      BY <1>1, <2>1, <3>1 DEF Shows, SameMetadata
  <2> QED
    BY <1>1, <2>1, <2>8, <2>9 DEF Lossless
<1> QED
  BY <1>3, <1>4

\* The decoded animation shows what the file does, its metadata apart.
LEMMA BuildLossless ==
  ASSUME LosslessInv, BuildFrames
  PROVE  Lossless' /\ (anim' # NoAnim => Uniform(anim'))
<1> DEFINE n == Len(file.frames)
<1>1. /\ CallsInv /\ pc = "frames" /\ file # NoFile /\ file \in Files
      /\ HeaderOk(file) /\ Len(file.delays) = n /\ Shows(PictureIn(file))
  BY DEF LosslessInv, Lossless, BuildFrames, CallsInv, TypeOK, DecodeInv, DecodeSteps
<1>2. PICK oom \in OutOfMemory, dropped \in OutOfMemory :
       IF oom THEN GiveUp(PaletteBlocks \cup {Block("storage")})
       ELSE LET kept == IF dropped THEN <<>> ELSE file.metadata
            IN  /\ Allocate({Block("frames")}
                      \cup (IF kept # <<>> THEN {Block("metadata")} ELSE {}))
                /\ anim' = [ frames |-> [i \in DOMAIN file.frames |-> DecodedFrame(i)],
                             channels |-> file.channels,
                             bytes_per_channel |-> file.bytes_per_channel,
                             pixels |-> file.pixels, loop_count |-> file.loop_count,
                             palette |-> file.palette,
                             palette_alpha |-> file.palette_alpha,
                             metadata |-> kept, storage |-> TRUE ]
                /\ starved' = (starved \/ kept # file.metadata)
                /\ Return
                /\ UNCHANGED <<file, picture>>
  BY DEF BuildFrames
<1>3. CASE oom
  BY <1>2, <1>3, NothingNew DEF GiveUp
<1>4. CASE ~oom
  <2> DEFINE kept == IF dropped THEN <<>> ELSE file.metadata
  <2>1. /\ anim' = [ frames |-> [i \in DOMAIN file.frames |-> DecodedFrame(i)],
                     channels |-> file.channels,
                     bytes_per_channel |-> file.bytes_per_channel,
                     pixels |-> file.pixels, loop_count |-> file.loop_count,
                     palette |-> file.palette,
                     palette_alpha |-> file.palette_alpha,
                     metadata |-> kept, storage |-> TRUE ]
        /\ starved' = (starved \/ kept # file.metadata)
        /\ UNCHANGED <<file, picture>>
    BY <1>2, <1>4
  <2>2. kept \in Seq(Nat) /\ (kept = file.metadata \/ kept = <<>>)
    BY <1>1 DEF Files
  <2> HIDE DEF kept
  <2>3. /\ anim'.metadata = kept /\ anim'.loop_count = file.loop_count
        /\ FrameCount(anim') = n
        /\ \A i \in 1..n : anim'.frames[i] = DecodedFrame(i)
    BY <1>1, <2>1, <2>2, DecodedAnim
  <2>4. \A i \in 1..n :
          /\ anim'.frames[i].px = file.frames[i] /\ anim'.frames[i].palette = file.palette
          /\ anim'.frames[i].palette_alpha = file.palette_alpha
          /\ anim'.frames[i].delay = file.delays[i]
    <3>1. \A i : /\ DecodedFrame(i).px = file.frames[i]
                 /\ DecodedFrame(i).palette = file.palette
                 /\ DecodedFrame(i).palette_alpha = file.palette_alpha
                 /\ DecodedFrame(i).delay = file.delays[i]
      BY DEF DecodedFrame
    <3> QED
      BY <2>3, <3>1, Zenon
  <2>5. /\ n \in Nat /\ DOMAIN file.frames = 1..n
        /\ file.delays = [i \in 1..n |-> file.delays[i]]
    <3>1. file.delays \in Seq(Nat) /\ file.frames \in Seq(Seq(Nat))
      BY <1>1 DEF Files
    <3> QED
      BY <1>1, <3>1
  <2> DEFINE before(i) == Shown(file.frames[i], file.palette, file.palette_alpha)
             after(i) == Shown(anim'.frames[i].px, anim'.frames[i].palette,
                               anim'.frames[i].palette_alpha)
  <2>a. /\ PictureIn(file).frames = [i \in DOMAIN file.frames |-> before(i)]
        /\ PictureIn(file).delays = file.delays
    BY FileFields
  <2>b. /\ PictureOf(anim').frames = [i \in 1..FrameCount(anim') |-> after(i)]
        /\ PictureOf(anim').delays = [i \in 1..FrameCount(anim') |-> anim'.frames[i].delay]
    BY PictureFields
  <2>c. \A i \in 1..n : after(i) = before(i)
    BY <2>4
  <2> HIDE DEF n, before, after
  <2>6. /\ PictureOf(anim').frames = PictureIn(file).frames
        /\ PictureOf(anim').delays = PictureIn(file).delays
    <3>1. [i \in 1..n |-> after(i)] = [i \in 1..n |-> before(i)]
      BY <2>c
    <3>2. [i \in 1..n |-> anim'.frames[i].delay] = [i \in 1..n |-> file.delays[i]]
      BY <2>4
    <3>3. PictureOf(anim').delays = [i \in 1..n |-> anim'.frames[i].delay]
      BY <2>3, <2>b, Zenon
    <3>4. PictureOf(anim').delays = PictureIn(file).delays
      BY <2>5, <2>a, <3>2, <3>3, Zenon
    <3>5. PictureOf(anim').frames = PictureIn(file).frames
      BY <2>3, <2>5, <2>a, <2>b, <3>1, Zenon
    <3> QED
      BY <3>4, <3>5
  <2>7. (starved => starved') /\ (kept = file.metadata \/ (starved' /\ kept = <<>>))
    BY <2>1, <2>2
  <2>8. Shows(PictureOf(anim))'
    <3>1. /\ PictureOf(anim').loops = PictureIn(file).loops
          /\ \/ PictureOf(anim').metadata = PictureIn(file).metadata
             \/ starved' /\ PictureOf(anim').metadata = <<>>
      BY <2>3, <2>7, PictureFields, FileFields
    <3> QED
      BY <1>1, <2>1, <2>6, <2>7, <3>1, SamePicture
  <2>9. Shows(PictureIn(file))'
    <3>1. PictureIn(file)' = PictureIn(file)
      BY <2>1 DEF PictureIn
    <3> QED
      BY <1>1, <2>1, <2>7, <3>1 DEF Shows, SameMetadata
  <2>10. Uniform(anim')
    BY <2>3, <2>4 DEF Uniform, Indexed
  <2> QED
    BY <2>8, <2>9, <2>10 DEF Lossless
<1> QED
  BY <1>3, <1>4

\* Every step keeps the picture.
LEMMA LosslessKeeps ==
  ASSUME ~IndexDecoded, LosslessInv, [Next]_vars
  PROVE  LosslessInv'
<1>1. CallsInv'
  BY AnimKeeps DEF LosslessInv
<1>2. ASSUME DropFile \/ FreeAnim \/ Rest \/ TryIndex \/ AllocateTable
      PROVE  /\ anim' \in {anim, NoAnim} /\ file' \in {file, NoFile}
             /\ picture' = picture /\ (starved => starved')
  BY <1>2 DEF DropFile, FreeAnim, Rest, TryIndex, AllocateTable, GiveUp, vars
<1>3. ASSUME CollectColour \/ NextFrame \/ AllocateNewBufs \/ IndexFrame \/ FreeTable
      PROVE  /\ anim' \in {anim, NoAnim} /\ file' \in {file, NoFile}
             /\ picture' = picture /\ (starved => starved')
  BY <1>3 DEF CollectColour, NextFrame, AllocateNewBufs, IndexFrame, FreeTable, GiveUp
<1>4. ASSUME Encode \/ Gather \/ Decode \/ ReadHeader \/ CopyPalette \/ Decompress
      PROVE  /\ anim' \in {anim, NoAnim} /\ file' \in {file, NoFile}
             /\ picture' = picture /\ (starved => starved')
  BY <1>4 DEF Encode, Gather, Decode, ReadHeader, CopyPalette, Decompress, GiveUp
<1>5. ASSUME UNCHANGED vars
      PROVE  /\ anim' \in {anim, NoAnim} /\ file' \in {file, NoFile}
             /\ picture' = picture /\ (starved => starved')
  BY <1>5 DEF vars
<1>6. CASE Commit \/ Compress \/ BuildFrames
  BY <1>1, <1>6, CommitLossless, CompressLossless, BuildLossless DEF LosslessInv
<1>7. CASE ~(Commit \/ Compress \/ BuildFrames)
  <2>1. /\ anim' \in {anim, NoAnim} /\ file' \in {file, NoFile}
        /\ picture' = picture /\ (starved => starved')
    BY <1>2, <1>3, <1>4, <1>5, <1>7 DEF Next
  <2> QED
    BY <1>1, <2>1, NothingNew DEF LosslessInv
<1> QED
  BY <1>6, <1>7

\* It is there from the start.
LEMMA LosslessStarts ==
  ASSUME PalettesAgree, Init
  PROVE  LosslessInv
<1>1. CallsInv
  BY AnimStarts
<1>2. CASE anim \in Assembled /\ file = NoFile /\ picture = PictureOf(anim)
  <2>1. Shows(PictureOf(anim))
    BY <1>2 DEF Shows, SameMetadata, PictureOf
  <2>2. Uniform(anim)
    BY <1>2 DEF PalettesAgree, Uniform
  <2> QED
    BY <1>1, <1>2, <2>1, <2>2 DEF LosslessInv, Lossless
<1>3. CASE anim = NoAnim /\ file \in Foreign /\ picture = PictureIn(file)
  <2>1. Shows(PictureIn(file))
    BY <1>3 DEF Shows, SameMetadata, PictureIn
  <2> QED
    BY <1>1, <1>3, <2>1 DEF LosslessInv, Lossless
<1> QED
  BY <1>2, <1>3 DEF Init

(* Colours, timing and loop count survive conversion, encoding and decoding  *)
(* in any order, provided all frames of what the caller assembled have a     *)
(* palette or none has.                                                      *)
THEOREM PictureSurvives ==
  ASSUME ~IndexDecoded, PalettesAgree
  PROVE  Spec => []Lossless
<1>1. Init => LosslessInv
  BY LosslessStarts
<1>2. LosslessInv /\ [Next]_vars => LosslessInv'
  BY LosslessKeeps
<1>3. LosslessInv => Lossless
  BY DEF LosslessInv
<1> QED
  BY <1>1, <1>2, <1>3, PTL DEF Spec

------------------------------------------------------------------------------
(* The answers are right                                                     *)

\* What apxl_anim_try_index says is right, whichever step it returns from.
LEMMA TooMany ==
  ASSUME CallsInv, CollectColour, pc' = "idle"
  PROVE  anim' = anim /\ Cardinality(ColoursOf(anim)) > APXL_MAX_PALETTE
<1> DEFINE f == work.frame
           px == anim.frames[f].px
           k == px[work.pixel]
           t == LookupOrInsert(work.table, k)
<1>1. /\ pc = "pass1" /\ f <= FrameCount(anim) /\ work.pixel <= Len(px)
      /\ anim' = anim /\ t.full
  BY DEF CollectColour
<1>2. TableOk(work.table) /\ ~work.table.full /\ CollectInv
  BY <1>1, PassOne
<1>3. /\ f \in 1..FrameCount(anim) /\ FrameCount(anim) \in Nat
      /\ px \in Seq(Colours)
      /\ \A p \in DOMAIN px : px[p] \in ColoursOf(anim)
      /\ ColoursOf(anim) \subseteq Colours
  <2>1. FrameCount(anim) \in Nat
    BY <1>1, IndexCall DEF IndexSteps
  <2>2. f \in 1..FrameCount(anim)
    BY <1>1, <1>2, <2>1 DEF CollectInv
  <2> QED
    BY <1>1, <2>1, <2>2, IndexCall DEF IndexSteps
<1>4. work.pixel \in DOMAIN px
  <2>1. work.pixel \in Nat \ {0} /\ Len(px) \in Nat /\ DOMAIN px = 1..Len(px)
    BY <1>2, <1>3 DEF CollectInv
  <2> QED
    BY <1>1, <2>1
<1>5. k \in ColoursOf(anim) /\ k \in Colours
  BY <1>3, <1>4
<1>6. k \notin Keys(work.table) /\ work.table.count = APXL_MAX_PALETTE
  BY <1>1, <1>2, <1>5, LookupOutcome
<1> HIDE DEF k
<1>7. /\ IsFiniteSet(Keys(work.table) \cup {k})
      /\ Cardinality(Keys(work.table) \cup {k}) = APXL_MAX_PALETTE + 1
  BY <1>2, <1>6, ColoursCounted, FS_AddElement
<1>8. Keys(work.table) \cup {k} \subseteq ColoursOf(anim)
  BY <1>2, <1>5 DEF CollectInv
<1>9. IsFiniteSet(ColoursOf(anim))
  <2>1. RgbValues * AlphaValues - 1 \in Int
    BY ApxlAssumption, SMT
  <2>2. IsFiniteSet(Colours)
    BY <2>1, FS_Interval DEF Colours
  <2> QED
    BY <1>3, <2>2, FS_Subset
<1>10. Cardinality(Keys(work.table) \cup {k}) <= Cardinality(ColoursOf(anim))
  BY <1>8, <1>9, FS_Subset
<1>11. Cardinality(ColoursOf(anim)) \in Nat /\ APXL_MAX_PALETTE \in Nat
  BY <1>9, FS_CardinalityType, ApxlAssumption
<1> QED
  BY <1>1, <1>7, <1>10, <1>11

\* The palette holds the colours of all frames, and indices stay in it.
LEMMA Committed ==
  ASSUME CallsInv, Commit
  PROVE  \/ anim' = anim /\ starved'
         \/ /\ Len(anim'.palette) = Cardinality(ColoursOf(anim))
            /\ Len(anim'.palette) <= APXL_MAX_PALETTE
            /\ \A i \in 1..FrameCount(anim') :
                 /\ anim'.frames[i].palette = anim'.palette
                 /\ Range(anim'.frames[i].px) \subseteq 0..(Len(anim'.palette) - 1)
<1> DEFINE n == FrameCount(anim)
           t == work.table
<1>1. PICK oom \in OutOfMemory :
       IF oom THEN GiveUp(NewBufs)
       ELSE anim' = [ anim EXCEPT
                 !.frames = [i \in 1..FrameCount(anim) |->
                               IndexedFrame(anim.frames[i], i)],
                 !.palette = PaletteRgb(work.table),
                 !.palette_alpha = PaletteAlpha(work.table),
                 !.channels = 1, !.bytes_per_channel = 1 ]
  BY DEF Commit
<1>2. CASE oom
  BY <1>1, <1>2 DEF GiveUp
<1>3. CASE ~oom
  <2>1. pc = "commit"
    BY DEF Commit
  <2>2. /\ FrameCount(anim') = n /\ anim'.palette = PaletteRgb(t)
        /\ \A i \in 1..n :
             /\ anim'.frames[i].px = Indices(t, anim.frames[i].px)
             /\ anim'.frames[i].palette = PaletteRgb(t)
    BY <1>1, <1>3, <2>1, CommitGives
  <2>3. TableOk(t) /\ t.count # 0 /\ Keys(t) = ColoursOf(anim)
    BY <2>1, PassTwo, TableNotEmpty DEF FoundInv
  <2>4. Len(anim'.palette) = t.count
    BY <2>2, <2>3, PaletteShows
  <2>5. t.count = Cardinality(ColoursOf(anim))
    BY <2>3, ColoursCounted
  <2>6. t.count \in 0..APXL_MAX_PALETTE
    BY <2>3 DEF TableOk, Tables
  <2>7. \A i \in 1..n : Range(anim'.frames[i].px) \subseteq 0..(t.count - 1)
    <3>1. SUFFICES ASSUME NEW i \in 1..n
                   PROVE  Range(Indices(t, anim.frames[i].px)) \subseteq 0..(t.count - 1)
      BY <2>2
    <3>2. anim.frames[i].px \in Seq(Keys(t))
      BY <2>1, SamplesKnown
    <3>3. /\ DOMAIN Indices(t, anim.frames[i].px) = DOMAIN anim.frames[i].px
          /\ \A p \in DOMAIN anim.frames[i].px :
               Indices(t, anim.frames[i].px)[p] \in 0..(t.count - 1)
      BY <2>3, <3>2, IndicesAreBytes
    <3> QED
      BY <3>3 DEF Range
  <2>8. Len(anim'.palette) <= APXL_MAX_PALETTE
    BY <2>4, <2>6, ApxlAssumption
  <2> HIDE DEF n, t
  <2> QED
    BY <2>2, <2>4, <2>5, <2>7, <2>8
<1> QED
  BY <1>2, <1>3

\* apxl_anim_try_index returns for lack of memory, for lack of room, or with
\* the new frames.
LEMMA IndexReturns ==
  ASSUME CallsInv, [Next]_vars, pc \in IndexSteps, pc' = "idle"
  PROVE  \/ anim' = anim /\ starved'
         \/ CollectColour
         \/ Commit
<1>1. ~(DropFile \/ FreeAnim \/ Rest \/ TryIndex \/ Encode \/ Decode)
  BY DEF DropFile, FreeAnim, Rest, TryIndex, Encode, Decode, Idle, IndexSteps
<1>2. ~(Gather \/ Compress \/ ReadHeader \/ CopyPalette \/ Decompress \/ BuildFrames)
  BY DEF Gather, Compress, ReadHeader, CopyPalette, Decompress, BuildFrames, IndexSteps
<1>3. ~(NextFrame \/ FreeTable \/ UNCHANGED vars)
  BY DEF NextFrame, FreeTable, vars, IndexSteps
<1>4. ASSUME AllocateTable \/ AllocateNewBufs \/ IndexFrame
      PROVE  anim' = anim /\ starved'
  BY <1>4 DEF AllocateTable, AllocateNewBufs, IndexFrame, GiveUp
<1> QED
  BY <1>1, <1>2, <1>3, <1>4 DEF Next

\* Each of them is the right answer.
LEMMA IndexAnswer ==
  ASSUME CallsInv, [Next]_vars, pc \in IndexSteps, pc' = "idle"
  PROVE  LET colours == Cardinality(ColoursOf(anim))
             count   == Len(anim'.palette)
         IN  \/ anim' = anim /\ (starved' \/ colours > APXL_MAX_PALETTE)
             \/ /\ count = colours /\ count <= APXL_MAX_PALETTE
                /\ \A i \in 1..FrameCount(anim') :
                     /\ anim'.frames[i].palette = anim'.palette
                     /\ Range(anim'.frames[i].px) \subseteq 0..(count - 1)
<1>1. CASE CollectColour
  BY <1>1, TooMany
<1>2. CASE Commit
  BY <1>2, Committed
<1>3. CASE anim' = anim /\ starved'
  BY <1>3
<1> QED
  BY <1>1, <1>2, <1>3, IndexReturns

\* A file of this encoder is refused for lack of memory only, if its header could
\* say how long the metadata are.
LEMMA OwnFileDecoded ==
  ASSUME AnimInv, [Next]_vars, pc \in DecodeSteps, pc' = "idle", file.ours, MetadataFits
  PROVE  anim' # NoAnim \/ starved'
<1>1. ~(DropFile \/ FreeAnim \/ Rest \/ TryIndex \/ Encode \/ Decode)
  BY DEF DropFile, FreeAnim, Rest, TryIndex, Encode, Decode, Idle, DecodeSteps
<1>2. ~(Gather \/ Compress \/ AllocateTable \/ CollectColour \/ NextFrame \/ AllocateNewBufs)
  BY DEF Gather, Compress, AllocateTable, CollectColour, NextFrame, AllocateNewBufs, DecodeSteps
<1>3. ~(IndexFrame \/ FreeTable \/ Commit \/ UNCHANGED vars)
  BY DEF IndexFrame, FreeTable, Commit, vars, DecodeSteps
<1>4. HeaderOk(file) /\ file.whole
  BY DEF AnimInv, CallsInv, DecodeInv, MetadataKept
<1>5. CASE ReadHeader \/ CopyPalette \/ Decompress
  BY <1>4, <1>5 DEF ReadHeader, CopyPalette, Decompress, Continue, GiveUp
<1>6. CASE BuildFrames
  <2>1. anim' # NoAnim \/ starved'
    <3>1. PICK kept \in {<<>>, file.metadata} :
            \/ GiveUp(PaletteBlocks \cup {Block("storage")})
            \/ anim' = [ frames |-> [i \in DOMAIN file.frames |-> DecodedFrame(i)],
                         channels |-> file.channels,
                         bytes_per_channel |-> file.bytes_per_channel,
                         pixels |-> file.pixels, loop_count |-> file.loop_count,
                         palette |-> file.palette,
                         palette_alpha |-> file.palette_alpha,
                         metadata |-> kept, storage |-> TRUE ]
      BY <1>6 DEF BuildFrames
    <3>2. "channels" \notin DOMAIN NoAnim
      BY DEF NoAnim
    <3> QED
      BY <3>1, <3>2 DEF GiveUp
  <2> QED
    BY <2>1
<1> QED
  BY <1>1, <1>2, <1>3, <1>5, <1>6 DEF Next

(* apxl_anim_try_index converts exactly the animations whose colours fit one *)
(* palette.                                                                  *)
THEOREM TryIndexAnswersRight ==
  ASSUME ~IndexDecoded
  PROVE  Spec => TryIndexIsExact
<1>1. CallsInv /\ [Next]_vars =>
        [ (pc \in IndexSteps /\ pc' = "idle") =>
        LET colours == Cardinality(ColoursOf(anim))
            count   == Len(anim'.palette)
        IN  \/ anim' = anim /\ (starved' \/ colours > APXL_MAX_PALETTE)
            \/ /\ count = colours /\ count <= APXL_MAX_PALETTE
               /\ \A i \in 1..FrameCount(anim') :
                    /\ anim'.frames[i].palette = anim'.palette
                    /\ Range(anim'.frames[i].px) \subseteq 0..(count - 1) ]_vars
  BY IndexAnswer
<1>2. AnimInv => CallsInv
  BY DEF AnimInv
<1> QED
  BY <1>1, <1>2, AnimSafe, PTL DEF Spec, TryIndexIsExact

(* apxl_decode accepts what apxl_encode wrote, if the metadata fit their     *)
(* field in the header.                                                      *)
THEOREM OwnAnimsDecode ==
  ASSUME ~IndexDecoded
  PROVE  Spec => OwnFilesDecode
<1>1. AnimInv /\ [Next]_vars =>
        [ (pc \in DecodeSteps /\ pc' = "idle" /\ file.ours /\ MetadataFits) =>
            anim' # NoAnim \/ starved' ]_vars
  BY OwnFileDecoded
<1> QED
  BY <1>1, AnimSafe, PTL DEF Spec, OwnFilesDecode
==============================================================================
