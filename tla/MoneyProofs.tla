---------------------------- MODULE MoneyProofs ----------------------------
(***************************************************************************)
(* The laws of Sum used by the proofs about money and seats: it is a       *)
(* natural number, it splits over disjoint sets of rows, grows with the    *)
(* rows, and one row contributes its amount.                               *)
(***************************************************************************)
EXTENDS Money, FiniteSetTheorems, TLAPS

\* A finite table of amounts holds finitely many rupiah.
LEMMA SumType ==
    ASSUME NEW f, IsFiniteSet(DOMAIN f), \A k \in DOMAIN f : f[k] \in Nat
    PROVE  IsFiniteSet(Rupiah(f)) /\ Sum(f) \in Nat
<1> DEFINE Piles == {{k} \X (1 .. f[k]) : k \in DOMAIN f}
           pile == [k \in DOMAIN f |-> {k} \X (1 .. f[k])]
<1>1. IsFiniteSet(Piles)
  <2>1. pile \in Surjection(DOMAIN f, Piles)
    BY DEF Surjection
  <2>2. QED
    BY <2>1, FS_Surjection
<1>2. ASSUME NEW P \in Piles PROVE IsFiniteSet(P)
  <2>1. PICK k \in DOMAIN f : P = {k} \X (1 .. f[k])
    BY <1>2
  <2> DEFINE n == f[k]
  <2>a. n \in Int /\ 1 \in Int
    OBVIOUS
  <2> HIDE DEF n
  <2>b. IsFiniteSet(1 .. n)
    BY <2>a, FS_Interval
  <2>2. IsFiniteSet({k}) /\ IsFiniteSet(1 .. f[k])
    BY <2>b, FS_Singleton DEF n
  <2>3. QED
    BY <2>1, <2>2, FS_Product
<1>3. IsFiniteSet(Rupiah(f))
  BY <1>1, <1>2, FS_UNION DEF Rupiah
<1>4. QED
  BY <1>3, FS_CardinalityType DEF Sum

\* Some of the rows of a table.
LEMMA SumOver ==
    ASSUME NEW f, NEW K, IsFiniteSet(K), \A k \in K : f[k] \in Nat
    PROVE  Sum([k \in K |-> f[k]]) \in Nat
<1>1. PICK g : g = [k \in K |-> f[k]]
  OBVIOUS
<1>2. IsFiniteSet(DOMAIN g) /\ \A k \in DOMAIN g : g[k] \in Nat
  BY <1>1
<1>3. Sum(g) \in Nat
  BY <1>2, SumType
<1> QED
  BY <1>1, <1>3

\* SUM over two disjoint sets of rows is the sum of the two SUMs.
LEMMA SumSplit ==
    ASSUME NEW f, NEW K, NEW M, IsFiniteSet(K), IsFiniteSet(M), K \cap M = {},
           \A k \in K \cup M : f[k] \in Nat
    PROVE  Sum([k \in K \cup M |-> f[k]]) =
              Sum([k \in K |-> f[k]]) + Sum([k \in M |-> f[k]])
<1> DEFINE both == [k \in K \cup M |-> f[k]]
           left == [k \in K |-> f[k]]
           right == [k \in M |-> f[k]]
<1>1. Rupiah(both) = Rupiah(left) \cup Rupiah(right)
  BY DEF Rupiah
<1>2. Rupiah(left) \cap Rupiah(right) = {}
  BY DEF Rupiah
<1>3. IsFiniteSet(Rupiah(left)) /\ Sum(left) \in Nat
  BY SumType
<1>4. IsFiniteSet(Rupiah(right)) /\ Sum(right) \in Nat
  BY SumType
<1> DEFINE L == Rupiah(left)  R == Rupiah(right)
<1>5. Cardinality(L \cup R) = Cardinality(L) + Cardinality(R) - 0
  <2>1. Cardinality(L \cap R) = 0
    BY <1>2, FS_EmptySet
  <2> HIDE DEF L, R
  <2>2. IsFiniteSet(L) /\ IsFiniteSet(R)
    BY <1>3, <1>4 DEF L, R
  <2>3. QED
    BY <2>1, <2>2, FS_Union
<1>6. /\ Sum(both) = Cardinality(L \cup R)
      /\ Sum(left) = Cardinality(L) /\ Sum(right) = Cardinality(R)
  BY <1>1 DEF Sum
<1>7. Sum(both) = Sum(left) + Sum(right)
  <2> HIDE DEF both, left, right
  <2>1. QED
    BY <1>3, <1>4, <1>5, <1>6
<1>8. QED
  BY <1>7

\* One row contributes its amount.
LEMMA SumOne ==
    ASSUME NEW k, NEW n \in Nat
    PROVE  Sum([j \in {k} |-> n]) = n
<1>1. Rupiah([j \in {k} |-> n]) = {k} \X (1 .. n)
  BY DEF Rupiah
<1>2. IsFiniteSet({k}) /\ Cardinality({k}) = 1
  BY FS_Singleton
<1>3. IsFiniteSet(1 .. n) /\ Cardinality(1 .. n) = n
  BY FS_Interval
<1>4. Cardinality({k} \X (1 .. n)) = 1 * n
  <2> DEFINE S == {k}  T == 1 .. n
  <2>1. IsFiniteSet(S) /\ IsFiniteSet(T)
    BY <1>2, <1>3
  <2>2. Cardinality(S \X T) = Cardinality(S) * Cardinality(T)
    <3> HIDE DEF S, T
    <3>1. QED
      BY <2>1, FS_Product
  <2>3. QED
    BY <2>2, <1>2, <1>3
<1>5. Sum([j \in {k} |-> n]) = Cardinality({k} \X (1 .. n))
  BY <1>1 DEF Sum
<1>6. QED
  BY <1>4, <1>5

\* One more row adds its amount.
LEMMA SumAdd ==
    ASSUME NEW f, NEW K, NEW k, IsFiniteSet(K), k \notin K, \A j \in K \cup {k} : f[j] \in Nat
    PROVE  /\ Sum([j \in K \cup {k} |-> f[j]]) = Sum([j \in K |-> f[j]]) + f[k]
           /\ Sum([j \in K |-> f[j]]) \in Nat
<1>1. IsFiniteSet({k}) /\ K \cap {k} = {} /\ f[k] \in Nat
  BY FS_Singleton
<1>2. Sum([j \in K \cup {k} |-> f[j]]) = Sum([j \in K |-> f[j]]) + Sum([j \in {k} |-> f[j]])
  BY <1>1, SumSplit
<1>3. Sum([j \in {k} |-> f[j]]) = f[k]
  <2>1. [j \in {k} |-> f[j]] = [j \in {k} |-> f[k]]
    OBVIOUS
  <2> QED
    BY <1>1, <2>1, SumOne
<1>4. Sum([j \in K |-> f[j]]) \in Nat
  BY SumOver
<1> QED
  BY <1>2, <1>3, <1>4

\* Fewer rows have no larger sum.
LEMMA SumSubset ==
    ASSUME NEW f, NEW K, NEW M \in SUBSET K, IsFiniteSet(K), \A k \in K : f[k] \in Nat
    PROVE  Sum([k \in M |-> f[k]]) <= Sum([k \in K |-> f[k]])
<1>1. IsFiniteSet(M) /\ IsFiniteSet(K \ M)
  BY FS_Subset
<1>2. M \cap (K \ M) = {} /\ M \cup (K \ M) = K
  OBVIOUS
<1>3. PICK R : R = K \ M
  OBVIOUS
<1>4. Sum([k \in M \cup R |-> f[k]]) = Sum([k \in M |-> f[k]]) + Sum([k \in R |-> f[k]])
  BY <1>1, <1>2, <1>3, SumSplit
<1>5. Sum([k \in M |-> f[k]]) \in Nat /\ Sum([k \in R |-> f[k]]) \in Nat
  BY <1>1, <1>3, SumOver
<1>6. PICK a \in Nat, b \in Nat : Sum([k \in M |-> f[k]]) = a /\ Sum([k \in R |-> f[k]]) = b
  BY <1>5
<1>7. Sum([k \in K |-> f[k]]) = a + b
  BY <1>2, <1>3, <1>4, <1>6
<1> QED
  BY <1>6, <1>7

\* SUM over no rows.
LEMMA SumNone ==
    ASSUME NEW f, DOMAIN f = {}
    PROVE  Sum(f) = 0
<1>1. Rupiah(f) = {}
  BY DEF Rupiah
<1>2. QED
  BY <1>1, FS_EmptySet DEF Sum
=============================================================================
