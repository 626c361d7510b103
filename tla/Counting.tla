------------------------------ MODULE Counting -------------------------------
(***************************************************************************)
(* Sums, and subsequences named by their positions.  The n-th smallest of  *)
(* a set of numbers is determined by a count, so that what is picked from  *)
(* a sequence that grows can be followed from step to step.                *)
(***************************************************************************)
EXTENDS Integers, FiniteSets, Sequences

\* The n-th smallest of a set of numbers.
Nth(S, n) == CHOOSE j \in S : Cardinality({ m \in S : m <= j }) = n

\* Where a sequence has elements of some kind, and those elements in their order.
Where(s, Test(_)) == { n \in 1..Len(s) : Test(s[n]) }
Those(s, S) == [n \in 1..Cardinality(S) |-> s[Nth(S, n)]]

\* The sum of the first n of some numbers.
SumTo(w, n) ==
  LET sum[k \in 0..n] == IF k = 0 THEN 0 ELSE sum[k - 1] + w[k]
  IN  sum[n]
==============================================================================
