--------------------------- MODULE CountingProofs ----------------------------
(***************************************************************************)
(* Facts about positions, counts and sums that the proofs of several       *)
(* modules rest on: the n-th of a set of numbers, what is picked from a    *)
(* sequence that grows or is put together, the least of a set, and a sum   *)
(* of one more.                                                            *)
(***************************************************************************)
EXTENDS Counting, FiniteSetsExt, FiniteSetTheorems, SequenceTheorems,
        WellFoundedInduction, TLAPS

------------------------------------------------------------------------------
(* The n-th of a set of numbers, and the greatest.                           *)

Upto(S, j) == { m \in S : m <= j }

\* The greater a number of the set, the more are up to it.
LEMMA UptoSmaller ==
  ASSUME NEW S \in SUBSET Nat, IsFiniteSet(S), NEW i \in S, NEW j \in S, i < j
  PROVE  Cardinality(Upto(S, i)) < Cardinality(Upto(S, j))
<1>1. IsFiniteSet(Upto(S, i)) /\ IsFiniteSet(Upto(S, j))
  BY FS_Subset DEF Upto
<1>2. /\ Upto(S, i) \subseteq Upto(S, j)
      /\ j \in Upto(S, j) /\ j \notin Upto(S, i)
  <2>1. i \in Nat /\ j \in Nat /\ \A m \in S : m \in Nat
    OBVIOUS
  <2>2. j <= j /\ ~(j <= i) /\ \A m \in S : m <= i => m <= j
    BY <2>1
  <2> QED
    BY <2>2, Zenon DEF Upto
<1>3. /\ Cardinality(Upto(S, i)) <= Cardinality(Upto(S, j))
      /\ Cardinality(Upto(S, i)) = Cardinality(Upto(S, j)) => Upto(S, j) = Upto(S, i)
  BY <1>1, <1>2, FS_Subset
<1> QED
  BY <1>1, <1>2, <1>3, FS_CardinalityType

\* A number is the one its count says.
LEMMA NthIs ==
  ASSUME NEW S \in SUBSET Nat, IsFiniteSet(S), NEW j \in S
  PROVE  Nth(S, Cardinality(Upto(S, j))) = j
<1> DEFINE n == Cardinality(Upto(S, j))
           i == Nth(S, n)
<1>1. i \in S /\ Cardinality(Upto(S, i)) = n
  BY DEF Nth, Upto
<1>2. i \in Nat /\ j \in Nat /\ n \in Nat
  <2>1. IsFiniteSet(Upto(S, j))
    BY FS_Subset DEF Upto
  <2> QED
    BY <1>1, <2>1, FS_CardinalityType
<1> HIDE DEF i, n
<1>3. ~(i < j) /\ ~(j < i)
  <2>1. i < j => Cardinality(Upto(S, i)) < Cardinality(Upto(S, j))
    BY <1>1, UptoSmaller
  <2>2. j < i => Cardinality(Upto(S, j)) < Cardinality(Upto(S, i))
    BY <1>1, UptoSmaller
  <2> QED
    BY <1>1, <1>2, <2>1, <2>2 DEF n
<1> QED
  BY <1>2, <1>3 DEF i, n

\* The counts of the numbers up to each of n numbers are 1 to n.
LEMMA NthWorks ==
  ASSUME NEW S \in SUBSET Nat, IsFiniteSet(S), NEW n \in 1..Cardinality(S)
  PROVE  Nth(S, n) \in S /\ Cardinality(Upto(S, Nth(S, n))) = n
<1> DEFINE f == [j \in S |-> Cardinality(Upto(S, j))]
           T == 1..Cardinality(S)
<1>0. Cardinality(S) \in Nat
  BY FS_CardinalityType
<1>1. ASSUME NEW j \in S PROVE f[j] \in T
  <2>1. IsFiniteSet(Upto(S, j)) /\ Cardinality(Upto(S, j)) <= Cardinality(S)
    BY FS_Subset DEF Upto
  <2>2. Cardinality(Upto(S, j)) # 0
    BY <2>1, FS_EmptySet DEF Upto
  <2> QED
    BY <1>0, <2>1, <2>2, FS_CardinalityType
<1>2. \A i, j \in S : i # j => f[i] # f[j]
  <2> SUFFICES ASSUME NEW i \in S, NEW j \in S, i # j PROVE f[i] # f[j]
    OBVIOUS
  <2>1. i < j \/ j < i
    OBVIOUS
  <2> QED
    BY <1>0, <1>1, <2>1, UptoSmaller
<1>3. f \in Injection(S, T)
  BY <1>1, <1>2, Zenon DEF Injection, IsInjective
<1>4. IsFiniteSet(T) /\ Cardinality(T) = Cardinality(S)
  BY <1>0, FS_Interval
<1>5. f \in Surjection(S, T)
  BY <1>3, <1>4, FS_Injection
<1>6. PICK j \in S : Cardinality(Upto(S, j)) = n
  BY <1>5 DEF Surjection
<1> QED
  BY <1>6, NthIs

\* Of some numbers there is a least, and if they are bounded a greatest.
LEMMA LeastOf ==
  ASSUME NEW S \in SUBSET Nat, S # {}
  PROVE  \E m \in S : \A x \in S : m <= x
<1> DEFINE R == OpToRel(<, Nat)
<1>1. \A x, y \in Nat : x < y => <<x, y>> \in R
  BY SMT DEF OpToRel
<1>2. PICK m \in S : \A y \in S : ~(<<y, m>> \in R)
  <2>1. IsWellFoundedOn(R, Nat)
    BY NatLessThanWellFounded
  <2> HIDE DEF R
  <2> QED
    BY <2>1, WFMin, Zenon
<1> HIDE DEF R
<1>3. ASSUME NEW x \in S, ~(m <= x) PROVE FALSE
  <2>1. x \in Nat /\ m \in Nat /\ x < m
    BY <1>3, SMT
  <2> QED
    BY <1>1, <1>2, <2>1, Zenon
<1> QED
  BY <1>3

LEMMA GreatestOf ==
  ASSUME NEW n \in Nat, NEW S \in SUBSET (0..n), S # {}
  PROVE  \E m \in S : \A x \in S : x <= m
<1> DEFINE D == { d \in 0..n : n - d \in S }
<1>1. D \in SUBSET Nat /\ D # {}
  <2>1. PICK x \in S : TRUE
    OBVIOUS
  <2>2. n - x \in 0..n /\ n - (n - x) = x
    BY <2>1
  <2>3. n - x \in D
    BY <2>1, <2>2
  <2>4. D \subseteq Nat
    OBVIOUS
  <2> HIDE DEF D
  <2> QED
    BY <2>3, <2>4
<1>2. PICK d \in D : \A e \in D : d <= e
  <2> HIDE DEF D
  <2> QED
    BY <1>1, LeastOf
<1>3. ASSUME NEW x \in S PROVE x <= n - d
  <2>1. n - x \in 0..n /\ n - (n - x) = x /\ x \in 0..n
    OBVIOUS
  <2>2. n - x \in D
    BY <2>1
  <2>3. d <= n - x /\ d \in 0..n
    BY <1>2, <2>2
  <2> QED
    BY <2>1, <2>3
<1> QED
  BY <1>2, <1>3

\* What Max chooses.
LEMMA MaxIs ==
  ASSUME NEW S \in SUBSET Int, NEW m \in S, \A s \in S : s <= m
  PROVE  Max(S) = m
<1>1. Max(S) \in S /\ \A s \in S : Max(S) >= s
  BY DEF Max
<1>2. m \in Int /\ Max(S) \in Int
  BY <1>1
<1>3. Max(S) >= m /\ Max(S) <= m
  BY <1>1
<1> HIDE DEF Max
<1> QED
  BY <1>2, <1>3

\* A greater number added to a set comes last in it.
LEMMA NthGrown ==
  ASSUME NEW S \in SUBSET Nat, IsFiniteSet(S), NEW e \in Nat, \A s \in S : s < e
  PROVE  /\ IsFiniteSet(S \cup {e}) /\ Cardinality(S \cup {e}) = Cardinality(S) + 1
         /\ Nth(S \cup {e}, Cardinality(S) + 1) = e
         /\ \A n \in 1..Cardinality(S) : Nth(S \cup {e}, n) = Nth(S, n)
<1>1. IsFiniteSet(S \cup {e}) /\ Cardinality(S \cup {e}) = Cardinality(S) + 1
  BY FS_AddElement
<1>0. \A s \in S \cup {e} : s \in Nat /\ s <= e
  OBVIOUS
<1>2. Upto(S \cup {e}, e) = S \cup {e}
  BY <1>0 DEF Upto
<1>3. Nth(S \cup {e}, Cardinality(S) + 1) = e
  <2>1. Nth(S \cup {e}, Cardinality(Upto(S \cup {e}, e))) = e
    BY <1>1, NthIs
  <2> QED
    BY <1>1, <1>2, <2>1
<1>4. ASSUME NEW n \in 1..Cardinality(S) PROVE Nth(S \cup {e}, n) = Nth(S, n)
  <2>1. Nth(S, n) \in S /\ Cardinality(Upto(S, Nth(S, n))) = n
    BY NthWorks
  <2>2. Upto(S \cup {e}, Nth(S, n)) = Upto(S, Nth(S, n))
    <3>1. Nth(S, n) \in Nat /\ Nth(S, n) < e
      BY <2>1
    <3> QED
      BY <3>1 DEF Upto
  <2>3. Nth(S \cup {e}, Cardinality(Upto(S \cup {e}, Nth(S, n)))) = Nth(S, n)
    BY <1>1, <2>1, NthIs, ZenonT(40)
  <2> QED
    BY <2>1, <2>2, <2>3
<1> QED
  BY <1>1, <1>3, <1>4

\* The n-th grows with n, and the set has no other numbers.
LEMMA NthOrders ==
  ASSUME NEW S \in SUBSET Nat, IsFiniteSet(S)
  PROVE  /\ \A i, j \in 1..Cardinality(S) : i < j => Nth(S, i) < Nth(S, j)
         /\ \A x \in S : \E n \in 1..Cardinality(S) : x = Nth(S, n)
<1>0. Cardinality(S) \in Nat
  BY FS_CardinalityType
<1>1. ASSUME NEW i \in 1..Cardinality(S), NEW j \in 1..Cardinality(S), i < j
      PROVE  Nth(S, i) < Nth(S, j)
  <2>1. /\ Nth(S, i) \in S /\ Cardinality(Upto(S, Nth(S, i))) = i
        /\ Nth(S, j) \in S /\ Cardinality(Upto(S, Nth(S, j))) = j
    BY NthWorks
  <2> DEFINE a == Nth(S, i)
             b == Nth(S, j)
  <2> HIDE DEF a, b
  <2>2. a \in S /\ b \in S /\ Cardinality(Upto(S, a)) = i /\ Cardinality(Upto(S, b)) = j
    BY <2>1 DEF a, b
  <2>3. a \in Nat /\ b \in Nat /\ a # b
    BY <1>1, <2>2
  <2>4. b < a => Cardinality(Upto(S, b)) < Cardinality(Upto(S, a))
    BY <2>2, UptoSmaller
  <2>5. a < b
    BY <1>1, <2>2, <2>3, <2>4
  <2> QED
    BY <2>5 DEF a, b
<1>2. ASSUME NEW x \in S PROVE \E n \in 1..Cardinality(S) : x = Nth(S, n)
  <2>1. Nth(S, Cardinality(Upto(S, x))) = x
    BY NthIs
  <2>2. IsFiniteSet(Upto(S, x)) /\ Cardinality(Upto(S, x)) <= Cardinality(S)
    BY FS_Subset DEF Upto
  <2>3. x \in Upto(S, x)
    BY DEF Upto
  <2>4. Cardinality(Upto(S, x)) \in Nat /\ Cardinality(Upto(S, x)) # 0
    BY <2>2, <2>3, FS_CardinalityType, FS_EmptySet
  <2>5. Cardinality(Upto(S, x)) \in 1..Cardinality(S)
    BY <1>0, <2>2, <2>4
  <2> QED
    BY <2>1, <2>5
<1> QED
  BY <1>1, <1>2

\* As many images as numbers.
LEMMA ImagesCount ==
  ASSUME NEW m \in Nat, NEW f, \A i, j \in 1..m : i # j => f[i] # f[j],
         NEW S, \A n \in 1..m : f[n] \in S, \A x \in S : \E n \in 1..m : x = f[n]
  PROVE  IsFiniteSet(S) /\ Cardinality(S) = m
<1> DEFINE b == [n \in 1..m |-> f[n]]
<1>1. b \in Bijection(1..m, S)
  <2>1. b \in [1..m -> S]
    OBVIOUS
  <2>2. \A i, j \in 1..m : b[i] = b[j] => i = j
    OBVIOUS
  <2>3. \A x \in S : \E n \in 1..m : b[n] = x
    OBVIOUS
  <2> HIDE DEF b
  <2> QED
    BY <2>1, <2>2, <2>3, Zenon DEF Bijection, Injection, IsInjective, Surjection
<1>2. IsFiniteSet(1..m) /\ Cardinality(1..m) = m
  BY FS_Interval
<1>3. ExistsBijection(1..m, S)
  BY <1>1, Zenon DEF ExistsBijection
<1> QED
  BY <1>2, <1>3, FS_Bijection

\* Numbers listed in their order.
Lists(f, m, S) ==
  /\ \A n \in 1..m : f[n] \in Nat /\ f[n] \in S
  /\ \A i, j \in 1..m : i < j => f[i] < f[j]
  /\ \A x \in S : \E n \in 1..m : x = f[n]

LEMMA Enumerated ==
  ASSUME NEW m \in Nat, NEW f, NEW S, Lists(f, m, S)
  PROVE  /\ S \in SUBSET Nat /\ IsFiniteSet(S) /\ Cardinality(S) = m
         /\ \A n \in 1..m : Nth(S, n) = f[n]
<1> USE DEF Lists
<1>1. \A i, j \in 1..m : i # j => f[i] # f[j]
  <2> SUFFICES ASSUME NEW i \in 1..m, NEW j \in 1..m, i # j PROVE f[i] # f[j]
    OBVIOUS
  <2>1. i < j \/ j < i
    OBVIOUS
  <2>2. f[i] \in Nat /\ f[j] \in Nat
    OBVIOUS
  <2> QED
    BY <2>1, <2>2
<1>2. S \in SUBSET Nat /\ IsFiniteSet(S) /\ Cardinality(S) = m
  BY <1>1, ImagesCount
<1>3. ASSUME NEW n \in 1..m PROVE Nth(S, n) = f[n]
  <2>1. /\ \A j \in 1..n : f[j] \in Upto(S, f[n])
        /\ \A x \in Upto(S, f[n]) : \E j \in 1..n : x = f[j]
    <3>1. ASSUME NEW j \in 1..m PROVE f[j] <= f[n] <=> j \in 1..n
      <4>1. f[j] \in Nat /\ f[n] \in Nat
        OBVIOUS
      <4>2. j < n \/ j = n \/ n < j
        OBVIOUS
      <4> QED
        BY <4>1, <4>2
    <3>2. \A j \in 1..n : j \in 1..m
      OBVIOUS
    <3> QED
      BY <3>1, <3>2 DEF Upto
  <2>2. Cardinality(Upto(S, f[n])) = n
    <3>1. n \in Nat /\ \A i, j \in 1..n : i # j => f[i] # f[j]
      BY <1>1
    <3> QED
      BY <2>1, <3>1, ImagesCount
  <2>3. f[n] \in S
    OBVIOUS
  <2>4. Nth(S, Cardinality(Upto(S, f[n]))) = f[n]
    BY <1>2, <2>3, NthIs
  <2> QED
    BY <2>2, <2>4
<1> QED
  BY <1>2, <1>3

\* What is picked does not change when it is moved.
Moved(t, T, s, S, d) ==
  /\ \A n \in S : n + d \in T /\ t[n + d] = s[n]
  /\ \A x \in T : \E n \in S : x = n + d

LEMMA ThoseMoved ==
  ASSUME NEW S \in SUBSET Nat, IsFiniteSet(S), NEW d \in Nat,
         NEW s, NEW t, NEW T, Moved(t, T, s, S, d)
  PROVE  Those(t, T) = Those(s, S)
<1> USE DEF Moved
<1> DEFINE m == Cardinality(S)
           f == [n \in 1..m |-> Nth(S, n) + d]
<1>1. m \in Nat
  BY FS_CardinalityType
<1>2. \A n \in 1..m : Nth(S, n) \in S /\ Nth(S, n) \in Nat
  BY NthWorks
<1> HIDE DEF m
<1>3. \A n \in 1..m : f[n] = Nth(S, n) + d /\ f[n] \in Nat
  <2>1. \A n \in 1..m : f[n] = Nth(S, n) + d
    OBVIOUS
  <2> HIDE DEF f
  <2> QED
    BY <1>2, <2>1
<1>4. \A j, k \in 1..m : j < k => f[j] < f[k]
  <2>1. \A j, k \in 1..m : j < k => Nth(S, j) < Nth(S, k)
    BY NthOrders DEF m
  <2>2. \A n \in 1..m : Nth(S, n) \in Nat
    BY <1>2
  <2> HIDE DEF f
  <2> QED
    BY <1>3, <2>1, <2>2
<1>5. (\A n \in 1..m : f[n] \in T) /\ (\A x \in T : \E n \in 1..m : x = f[n])
  <2>1. \A x \in S : \E n \in 1..m : x = Nth(S, n)
    BY NthOrders DEF m
  <2> HIDE DEF f
  <2>2. \A x \in T : \E n \in 1..m : x = f[n]
    BY <2>1, <1>3
  <2>3. \A n \in 1..m : f[n] \in T
    BY <1>2, <1>3
  <2> QED
    BY <2>2, <2>3
<1> HIDE DEF f
<1>6. Cardinality(T) = m /\ \A n \in 1..m : Nth(T, n) = f[n]
  <2>1. \A n \in 1..m : f[n] \in Nat
    BY <1>3
  <2>2. Lists(f, m, T)
    BY <2>1, <1>4, <1>5 DEF Lists
  <2> QED
    BY <1>1, <2>2, Enumerated
<1>7. \A n \in 1..m : t[Nth(T, n)] = s[Nth(S, n)]
  BY <1>2, <1>3, <1>6
<1> QED
  BY <1>6, <1>7 DEF Those, m

LEMMA ThoseAll ==
  ASSUME NEW m \in Nat, NEW s
  PROVE  Those(s, 1..m) = [n \in 1..m |-> s[n]]
<1> DEFINE f == [n \in 1..m |-> n]
<1>1. \A x \in 1..m : \E n \in 1..m : x = f[n]
  OBVIOUS
<1>2. \A n \in 1..m : f[n] = n
  OBVIOUS
<1> HIDE DEF f
<1>3. Cardinality(1..m) = m /\ \A n \in 1..m : Nth(1..m, n) = f[n]
  <2>1. \A n \in 1..m : f[n] \in Nat
    BY <1>2
  <2>2. \A j, k \in 1..m : j < k => f[j] < f[k]
    BY <1>2
  <2>3. Lists(f, m, 1..m)
    BY <1>1, <1>2, <2>1, <2>2 DEF Lists
  <2> QED
    BY <2>3, Enumerated
<1> QED
  BY <1>2, <1>3 DEF Those

------------------------------------------------------------------------------
(* Sequences that grow by one.                                               *)

LEMMA SeqGrows ==
  ASSUME NEW s, \E S : s \in Seq(S), NEW e
  PROVE  /\ \E S : Append(s, e) \in Seq(S)
         /\ Len(s) \in Nat /\ Len(Append(s, e)) = Len(s) + 1
         /\ Append(s, e)[Len(s) + 1] = e
         /\ \A n \in 1..Len(s) : Append(s, e)[n] = s[n]
<1>1. PICK S : s \in Seq(S)
  OBVIOUS
<1> DEFINE T == S \cup {e}
<1>2. s \in Seq(T) /\ e \in T
  BY <1>1, SeqMonotonic
<1> HIDE DEF T
<1>3. /\ Append(s, e) \in Seq(T) /\ Len(s) \in Nat
      /\ Len(Append(s, e)) = Len(s) + 1 /\ Append(s, e)[Len(s) + 1] = e
      /\ \A n \in 1..Len(s) : Append(s, e)[n] = s[n]
  BY <1>2, AppendProperties, LenProperties
<1> QED
  BY <1>3

LEMMA SeqIs ==
  ASSUME NEW n \in Nat, NEW f
  PROVE  /\ \E S : [k \in 1..n |-> f[k]] \in Seq(S)
         /\ Len([k \in 1..n |-> f[k]]) = n
<1> DEFINE S == { f[k] : k \in 1..n }
<1>1. [k \in 1..n |-> f[k]] \in [1..n -> S]
  OBVIOUS
<1>2. [k \in 1..n |-> f[k]] \in Seq(S)
  BY <1>1
<1>3. Len([k \in 1..n |-> f[k]]) = n
  OBVIOUS
<1> HIDE DEF S
<1> QED
  BY <1>2, <1>3, Zenon

LEMMA SeqAppended ==
  ASSUME NEW n \in Nat, NEW f, NEW g,
         NEW s, s = [k \in 1..n |-> f[k]], \A k \in 1..n : g[k] = f[k]
  PROVE  Append(s, g[n + 1]) = [k \in 1..(n + 1) |-> g[k]]
<1>1. \E S : s \in Seq(S)
  BY SeqIs
<1>2. Len(s) = n
  BY SeqIs
<1>3. /\ Len(Append(s, g[n + 1])) = n + 1 /\ Append(s, g[n + 1])[n + 1] = g[n + 1]
      /\ \A k \in 1..n : Append(s, g[n + 1])[k] = s[k]
  BY <1>1, <1>2, SeqGrows
<1>4. PICK S : Append(s, g[n + 1]) \in Seq(S)
  BY <1>1, SeqGrows
<1>5. Append(s, g[n + 1]) = [k \in 1..(n + 1) |-> Append(s, g[n + 1])[k]]
  BY <1>3, <1>4, LenProperties
<1>6. \A k \in 1..(n + 1) : Append(s, g[n + 1])[k] = g[k]
  <2> SUFFICES ASSUME NEW k \in 1..(n + 1) PROVE Append(s, g[n + 1])[k] = g[k]
    OBVIOUS
  <2>1. k = n + 1 \/ k \in 1..n
    OBVIOUS
  <2> QED
    BY <1>3, <2>1
<1> QED
  BY <1>5, <1>6

------------------------------------------------------------------------------
(* Sums.                                                                     *)

\* Addition of the first n of the numbers w.
Adds(f, n, w) == f = [k \in 0..n |-> IF k = 0 THEN 0 ELSE f[k - 1] + w[k]]

\* There is one such function for each n,
LEMMA AddsExists ==
  ASSUME NEW w, NEW n \in Nat
  PROVE  \E f : Adds(f, n, w)
<1> DEFINE N == { k \in Nat : ~\E f : Adds(f, k, w) }
<1>1. SUFFICES ASSUME N # {} PROVE FALSE
  OBVIOUS
<1>2. PICK k \in N : \A m \in N : k <= m
  <2>1. N \in SUBSET Nat
    OBVIOUS
  <2> QED
    BY <1>1, <2>1, LeastOf
<1>3. CASE k = 0
  <2>1. Adds([j \in 0..0 |-> 0], 0, w)
    BY DEF Adds
  <2> QED
    BY <1>2, <1>3, <2>1
<1>4. CASE k # 0
  <2>1. k - 1 \in Nat /\ k - 1 \notin N
    BY <1>2, <1>4
  <2>2. PICK f : Adds(f, k - 1, w)
    BY <2>1
  <2> DEFINE h == [j \in 0..k |-> IF j = k THEN f[k - 1] + w[k] ELSE f[j]]
  <2>3. ASSUME NEW j \in 0..k
        PROVE  h[j] = IF j = 0 THEN 0 ELSE h[j - 1] + w[j]
    <3>1. CASE j = k
      <4>1. j - 1 \in 0..k /\ j - 1 # k /\ j # 0
        BY <2>1, <3>1
      <4> QED
        BY <3>1, <4>1
    <3>2. CASE j # k
      <4>1. j \in 0..(k - 1) /\ (j # 0 => j - 1 \in 0..k /\ j - 1 # k)
        BY <2>1, <3>2
      <4>2. h[j] = f[j] /\ (j # 0 => h[j - 1] = f[j - 1])
        BY <3>2, <4>1
      <4>3. f[j] = IF j = 0 THEN 0 ELSE f[j - 1] + w[j]
        <5> HIDE DEF h
        <5> QED
          BY <2>2, <4>1 DEF Adds
      <4> HIDE DEF h
      <4> QED
        BY <4>2, <4>3
    <3> QED
      BY <3>1, <3>2
  <2>4. DOMAIN h = 0..k /\ h = [j \in 0..k |-> h[j]]
    OBVIOUS
  <2> HIDE DEF h
  <2>5. Adds(h, k, w)
    BY <2>3, <2>4 DEF Adds
  <2> QED
    BY <1>2, <2>5
<1> QED
  BY <1>3, <1>4

\* and the longer ones continue the shorter ones.
LEMMA AddsUnique ==
  ASSUME NEW w, NEW n \in Nat, NEW m \in Nat, NEW f, Adds(f, n, w), NEW h, Adds(h, m, w),
         NEW k \in Nat, k <= n, k <= m
  PROVE  f[k] = h[k]
<1> DEFINE N == { j \in 0..k : f[j] # h[j] }
<1>1. SUFFICES ASSUME N # {} PROVE FALSE
  OBVIOUS
<1>2. PICK j \in N : \A i \in N : j <= i
  <2>1. N \in SUBSET Nat
    OBVIOUS
  <2> QED
    BY <1>1, <2>1, LeastOf
<1>3. j \in 0..n /\ j \in 0..m /\ j \in Nat /\ j <= k
  BY <1>2
<1>4. /\ f[j] = IF j = 0 THEN 0 ELSE f[j - 1] + w[j]
      /\ h[j] = IF j = 0 THEN 0 ELSE h[j - 1] + w[j]
  <2> HIDE DEF N
  <2> QED
    BY <1>3 DEF Adds
<1>5. CASE j # 0
  <2>1. j - 1 \in 0..k /\ ~(j <= j - 1)
    BY <1>3, <1>5
  <2>2. f[j - 1] = h[j - 1]
    BY <1>2, <2>1
  <2> QED
    BY <1>2, <1>4, <1>5, <2>2
<1> QED
  BY <1>2, <1>4, <1>5

\* So the sum of n numbers is the sum of all but the last, and the last.
LEMMA SumIs ==
  ASSUME NEW w, NEW n \in Nat
  PROVE  SumTo(w, n) = IF n = 0 THEN 0 ELSE SumTo(w, n - 1) + w[n]
<1> DEFINE s(m) == CHOOSE f : Adds(f, m, w)
<1>1. ASSUME NEW m \in Nat PROVE Adds(s(m), m, w) /\ SumTo(w, m) = s(m)[m]
  <2>1. Adds(s(m), m, w)
    BY AddsExists
  <2>2. SumTo(w, m) = s(m)[m]
    BY DEF SumTo, Adds
  <2> QED
    BY <2>1, <2>2
<1> HIDE DEF s
<1>2. s(n)[n] = IF n = 0 THEN 0 ELSE s(n)[n - 1] + w[n]
  <2>1. Adds(s(n), n, w) /\ n \in 0..n
    BY <1>1
  <2> QED
    BY <2>1 DEF Adds
<1>3. CASE n # 0
  <2>1. n - 1 \in Nat /\ n - 1 <= n /\ n - 1 <= n - 1
    BY <1>3
  <2>2. s(n)[n - 1] = s(n - 1)[n - 1]
    BY <1>1, <2>1, AddsUnique
  <2> QED
    BY <1>1, <1>2, <1>3, <2>1, <2>2
<1> QED
  BY <1>1, <1>2, <1>3

\* A sum of natural numbers is one.
LEMMA SumIsNat ==
  ASSUME NEW w, NEW n \in Nat, \A k \in 1..n : w[k] \in Nat
  PROVE  SumTo(w, n) \in Nat
<1> DEFINE N == { k \in 0..n : SumTo(w, k) \notin Nat }
<1>1. SUFFICES ASSUME N # {} PROVE FALSE
  OBVIOUS
<1>2. PICK j \in N : \A i \in N : j <= i
  <2>1. N \in SUBSET Nat
    OBVIOUS
  <2> QED
    BY <1>1, <2>1, LeastOf
<1>3. j \in Nat /\ SumTo(w, j) = IF j = 0 THEN 0 ELSE SumTo(w, j - 1) + w[j]
  BY <1>2, SumIs
<1>4. CASE j # 0
  <2>1. j - 1 \in 0..n /\ ~(j <= j - 1) /\ j \in 1..n
    BY <1>2, <1>4
  <2>2. SumTo(w, j - 1) \in Nat
    BY <1>2, <2>1
  <2> QED
    BY <1>2, <1>3, <1>4, <2>1, <2>2
<1> QED
  BY <1>2, <1>3, <1>4

\* A sum depends on what is added alone.
LEMMA SumSame ==
  ASSUME NEW w, NEW v, NEW n \in Nat, \A k \in 1..n : w[k] = v[k]
  PROVE  SumTo(w, n) = SumTo(v, n)
<1> DEFINE N == { k \in 0..n : SumTo(w, k) # SumTo(v, k) }
<1>1. SUFFICES ASSUME N # {} PROVE FALSE
  OBVIOUS
<1>2. PICK j \in N : \A i \in N : j <= i
  <2>1. N \in SUBSET Nat
    OBVIOUS
  <2> QED
    BY <1>1, <2>1, LeastOf
<1>3. /\ j \in Nat
      /\ SumTo(w, j) = IF j = 0 THEN 0 ELSE SumTo(w, j - 1) + w[j]
      /\ SumTo(v, j) = IF j = 0 THEN 0 ELSE SumTo(v, j - 1) + v[j]
  BY <1>2, SumIs
<1>4. CASE j # 0
  <2>1. j - 1 \in 0..n /\ ~(j <= j - 1) /\ j \in 1..n
    BY <1>2, <1>4
  <2>2. SumTo(w, j - 1) = SumTo(v, j - 1)
    BY <1>2, <2>1
  <2> QED
    BY <1>2, <1>3, <1>4, <2>1, <2>2
<1> QED
  BY <1>2, <1>3, <1>4
==============================================================================
