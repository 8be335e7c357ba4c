------------------------- MODULE OrderedArrayProofs -------------------------
(***************************************************************************)
(* Facts about sorted arrays, cited by the proofs about the components     *)
(* that keep one.                                                          *)
(***************************************************************************)
EXTENDS OrderedArray, FiniteSetTheorems, TLAPS

(***************************************************************************)
(* In a sorted array an insertion point proves the key absent.             *)
(***************************************************************************)
LEMMA MissingMeansAbsent ==
  ASSUME NEW n \in Nat, NEW a, \A j \in 0 .. n-1 : a[j] \in Int,
         NEW k \in Int, NEW i, MissingAt(a, n, k, i), StrictlySorted(a, n)
  PROVE  \A j \in 0 .. n-1 : a[j] # k
  <1> SUFFICES ASSUME NEW j \in 0 .. n-1 PROVE a[j] # k
    OBVIOUS
  <1>1. i \in 0 .. n
    BY DEF MissingAt
  <1>2. CASE j < i
    <2>1. i - 1 \in 0 .. n-1 /\ a[i-1] < k /\ a[i-1] \in Int
      BY <1>1, <1>2 DEF MissingAt
    <2>2. j = i - 1 \/ a[j] < a[i-1]
      BY <1>1, <1>2, <2>1 DEF StrictlySorted
    <2> QED BY <2>1, <2>2
  <1>3. CASE i <= j
    <2>1. i \in 0 .. n-1 /\ k < a[i] /\ a[i] \in Int
      BY <1>1, <1>3 DEF MissingAt
    <2>2. j = i \/ a[i] < a[j]
      BY <1>1, <1>3, <2>1 DEF StrictlySorted
    <2> QED BY <2>1, <2>2
  <1> QED BY <1>1, <1>2, <1>3

(***************************************************************************)
(* A larger member of a set has the higher rank.                           *)
(***************************************************************************)
LEMMA RankType ==
  ASSUME NEW S \in SUBSET Int, IsFiniteSet(S), NEW x \in S
  PROVE  Rank(S, x) \in 0 .. Cardinality(S) - 1
  <1> DEFINE T == {y \in S : y < x}
  <1>1. T \in SUBSET S /\ x \notin T
    OBVIOUS
  <1>2. IsFiniteSet(T) /\ Cardinality(T) <= Cardinality(S)
        /\ (Cardinality(S) = Cardinality(T) => S = T)
    BY <1>1, FS_Subset
  <1>3. Cardinality(T) \in Nat /\ Cardinality(S) \in Nat
    BY <1>2, FS_CardinalityType
  <1>4. Cardinality(T) # Cardinality(S)
    BY <1>1, <1>2
  <1>5. Cardinality(T) \in 0 .. Cardinality(S) - 1
    BY <1>2, <1>3, <1>4
  <1> QED BY <1>5 DEF Rank

LEMMA RankMonotone ==
  ASSUME NEW S \in SUBSET Int, IsFiniteSet(S), NEW x \in S, NEW y \in S, x < y
  PROVE  Rank(S, x) < Rank(S, y)
  <1> DEFINE A == {z \in S : z < x}
             B == {z \in S : z < y}
  <1>1. A \in SUBSET B /\ x \in B /\ x \notin A
    <2>1. ASSUME NEW z \in A PROVE z \in B
      <3>1. z \in Int /\ x \in Int /\ y \in Int /\ z < x
        OBVIOUS
      <3> QED BY <3>1
    <2>2. x \in B /\ x \notin A
      OBVIOUS
    <2> QED BY <2>1, <2>2
  <1>2. IsFiniteSet(B)
    BY FS_Subset
  <1>3. IsFiniteSet(A) /\ Cardinality(A) <= Cardinality(B)
        /\ (Cardinality(B) = Cardinality(A) => B = A)
    BY <1>1, <1>2, FS_Subset
  <1>4. Cardinality(A) \in Nat /\ Cardinality(B) \in Nat
    BY <1>2, <1>3, FS_CardinalityType
  <1>5. Cardinality(A) # Cardinality(B)
    BY <1>1, <1>3
  <1>6. Cardinality(A) < Cardinality(B)
    BY <1>3, <1>4, <1>5
  <1> QED BY <1>6 DEF Rank

(***************************************************************************)
(* Every rank below the cardinality is taken, so Nth is well defined.      *)
(***************************************************************************)
LEMMA NthMember ==
  ASSUME NEW S \in SUBSET Int, IsFiniteSet(S), NEW r \in 0 .. Cardinality(S) - 1
  PROVE  Nth(S, r) \in S /\ Rank(S, Nth(S, r)) = r
  <1> DEFINE T == 0 .. Cardinality(S) - 1
             f == [x \in S |-> Rank(S, x)]
  <1>1. Cardinality(S) \in Nat
    BY FS_CardinalityType
  <1>2. IsFiniteSet(T) /\ Cardinality(T) = Cardinality(S)
    BY <1>1, FS_Interval
  <1>3. f \in [S -> T]
    BY RankType
  <1>4. ASSUME NEW x \in S, NEW y \in S, f[x] = f[y] PROVE x = y
    <2>1. Rank(S, x) = Rank(S, y) /\ Rank(S, x) \in Int
      BY <1>4, RankType
    <2>2. ~(x < y) /\ ~(y < x)
      BY <2>1, RankMonotone
    <2>3. x \in Int /\ y \in Int
      OBVIOUS
    <2> QED BY <2>2, <2>3
  <1>5. f \in Injection(S, T)
    <2>1. IsInjective(f)
      BY <1>3, <1>4 DEF IsInjective
    <2> QED BY <1>3, <2>1 DEF Injection
  <1>6. f \in Surjection(S, T)
    BY <1>2, <1>5, FS_Injection
  <1>7. \E x \in S : Rank(S, x) = r
    BY <1>6 DEF Surjection
  <1> QED BY <1>7 DEF Nth

LEMMA NthMonotone ==
  ASSUME NEW S \in SUBSET Int, IsFiniteSet(S),
         NEW r \in 0 .. Cardinality(S) - 1, NEW q \in 0 .. Cardinality(S) - 1, r < q
  PROVE  Nth(S, r) < Nth(S, q)
  <1>1. /\ Nth(S, r) \in S /\ Rank(S, Nth(S, r)) = r
        /\ Nth(S, q) \in S /\ Rank(S, Nth(S, q)) = q
    BY NthMember
  <1>2. Cardinality(S) \in Nat
    BY FS_CardinalityType
  <1>3. r \in Int /\ q \in Int
    BY <1>2
  <1>4. Nth(S, r) # Nth(S, q)
    BY <1>1, <1>3
  <1>5. ~(Nth(S, q) < Nth(S, r))
    <2> SUFFICES ASSUME Nth(S, q) < Nth(S, r) PROVE FALSE
      OBVIOUS
    <2>1. Rank(S, Nth(S, q)) < Rank(S, Nth(S, r))
      BY <1>1, RankMonotone
    <2> QED BY <2>1, <1>1, <1>3
  <1>6. Nth(S, r) \in Int /\ Nth(S, q) \in Int
    BY <1>1
  <1> QED BY <1>4, <1>5, <1>6

LEMMA NthOfRank ==
  ASSUME NEW S \in SUBSET Int, IsFiniteSet(S), NEW x \in S
  PROVE  Nth(S, Rank(S, x)) = x
  <1>1. Rank(S, x) \in 0 .. Cardinality(S) - 1 /\ Rank(S, x) \in Int
    BY RankType
  <1> DEFINE y == Nth(S, Rank(S, x))
  <1>2. y \in S /\ Rank(S, y) = Rank(S, x)
    BY <1>1, NthMember
  <1> HIDE DEF y
  <1>3. ~(x < y) /\ ~(y < x)
    BY <1>1, <1>2, RankMonotone
  <1>4. x \in Int /\ y \in Int
    BY <1>2
  <1>5. x = y
    BY <1>3, <1>4
  <1> QED BY <1>5 DEF y

(* a finite set that is not empty has a first and a last member *)
LEMMA FirstAndLastMember ==
  ASSUME NEW S \in SUBSET Int, IsFiniteSet(S), S # {}
  PROVE  /\ \E x \in S : \A y \in S : x <= y
         /\ \E x \in S : \A y \in S : x >= y
  <1> DEFINE last == Cardinality(S) - 1
  <1>1. Cardinality(S) \in Nat /\ Cardinality(S) # 0
    BY FS_CardinalityType, FS_EmptySet
  <1>2. 0 \in 0 .. last /\ last \in 0 .. last
    BY <1>1
  <1>3. /\ Nth(S, 0) \in S /\ Rank(S, Nth(S, 0)) = 0
        /\ Nth(S, last) \in S /\ Rank(S, Nth(S, last)) = last
    BY <1>2, NthMember
  <1> HIDE DEF last
  <1>4. ASSUME NEW y \in S PROVE Nth(S, 0) <= y /\ Nth(S, last) >= y
    <2>1. Rank(S, y) \in 0 .. last
      BY RankType DEF last
    <2>2. last \in Int /\ Rank(S, y) \in Int /\ 0 <= Rank(S, y) /\ Rank(S, y) <= last
      BY <1>1, <2>1 DEF last
    <2>3. ~ (y < Nth(S, 0))
      <3>1. ~ (Rank(S, y) < Rank(S, Nth(S, 0)))
        BY <1>3, <2>2
      <3> QED BY <1>3, <3>1, RankMonotone
    <2>4. ~ (Nth(S, last) < y)
      <3>1. ~ (Rank(S, Nth(S, last)) < Rank(S, y))
        BY <1>3, <2>2
      <3> QED BY <1>3, <3>1, RankMonotone
    <2>5. y \in Int /\ Nth(S, 0) \in Int /\ Nth(S, last) \in Int
      BY <1>3
    <2> QED BY <2>3, <2>4, <2>5
  <1> QED BY <1>3, <1>4

(***************************************************************************)
(* A record inserted where the search missed keeps the keys in order.      *)
(***************************************************************************)
LEMMA InsertSorts ==
  ASSUME NEW m \in Nat, NEW n \in 0 .. m-1, NEW a \in [0 .. m-1 -> Int],
         NEW k \in Int, NEW idx, MissingAt(a, n, k, idx), StrictlySorted(a, n)
  PROVE  StrictlySorted(InsertAt(a, n, idx, k), n + 1)
  <1> DEFINE b == InsertAt(a, n, idx, k)
  <1>0. idx \in 0 .. n /\ n \in Nat /\ n < m
    BY DEF MissingAt
  <1>1. \A j \in 0 .. n : b[j] = (IF j = idx THEN k ELSE IF idx < j THEN a[j-1] ELSE a[j])
    BY <1>0 DEF InsertAt
  <1>2. \A j \in 0 .. n-1 : j < idx => a[j] < k
    <2> SUFFICES ASSUME NEW j \in 0 .. n-1, j < idx PROVE a[j] < k
      OBVIOUS
    <2>1. a[idx-1] < k /\ idx-1 \in 0 .. n-1 /\ a[idx-1] \in Int /\ a[j] \in Int
      BY <1>0 DEF MissingAt
    <2>2. j = idx-1 \/ a[j] < a[idx-1]
      BY <1>0, <2>1 DEF StrictlySorted
    <2> QED BY <2>1, <2>2
  <1>3. \A j \in 0 .. n-1 : idx <= j => k < a[j]
    <2> SUFFICES ASSUME NEW j \in 0 .. n-1, idx <= j PROVE k < a[j]
      OBVIOUS
    <2>1. k < a[idx] /\ idx \in 0 .. n-1 /\ a[idx] \in Int /\ a[j] \in Int
      BY <1>0 DEF MissingAt
    <2>2. j = idx \/ a[idx] < a[j]
      BY <1>0, <2>1 DEF StrictlySorted
    <2> QED BY <2>1, <2>2
  <1>4. ASSUME NEW i \in 0 .. n, NEW j \in 0 .. n, i < j PROVE b[i] < b[j]
    <2>1. CASE j < idx
      BY <1>0, <1>1, <1>4, <2>1 DEF StrictlySorted
    <2>2. CASE j = idx
      BY <1>0, <1>1, <1>2, <1>4, <2>2
    <2>3. CASE idx < j /\ i = idx
      BY <1>0, <1>1, <1>3, <1>4, <2>3
    <2>4. CASE idx < i
      <3>1. i-1 \in 0 .. n-1 /\ j-1 \in 0 .. n-1 /\ b[i] = a[i-1] /\ b[j] = a[j-1] /\ i-1 < j-1
        BY <1>0, <1>1, <1>4, <2>4
      <3> QED BY <3>1 DEF StrictlySorted
    <2>5. CASE i < idx /\ idx < j
      <3>1. i \in 0 .. n-1 /\ j-1 \in 0 .. n-1 /\ b[i] = a[i] /\ b[j] = a[j-1] /\ i < j-1
        BY <1>0, <1>1, <1>4, <2>5
      <3> QED BY <3>1 DEF StrictlySorted
    <2> QED BY <1>0, <1>4, <2>1, <2>2, <2>3, <2>4, <2>5
  <1>5. (n + 1) - 1 = n
    BY <1>0
  <1> QED BY <1>4, <1>5 DEF StrictlySorted

(***************************************************************************)
(* Closing the hole of a removed record keeps the keys in order.           *)
(***************************************************************************)
LEMMA DeleteSorts ==
  ASSUME NEW m \in Nat, NEW n \in 1 .. m, NEW a \in [0 .. m-1 -> Int],
         NEW idx \in 0 .. n-1, StrictlySorted(a, n)
  PROVE  StrictlySorted(DeleteAt(a, n, idx), n - 1)
  <1> DEFINE b == DeleteAt(a, n, idx)
  <1>1. \A j \in 0 .. n-2 : b[j] = IF idx <= j THEN a[j+1] ELSE a[j]
    BY DEF DeleteAt
  <1>2. ASSUME NEW i \in 0 .. n-2, NEW j \in 0 .. n-2, i < j PROVE b[i] < b[j]
    <2>1. CASE idx <= i
      <3>1. i+1 \in 0 .. n-1 /\ j+1 \in 0 .. n-1 /\ i+1 < j+1 /\ b[i] = a[i+1] /\ b[j] = a[j+1]
        BY <1>1, <1>2, <2>1
      <3> QED BY <3>1 DEF StrictlySorted
    <2>2. CASE i < idx /\ idx <= j
      <3>1. i \in 0 .. n-1 /\ j+1 \in 0 .. n-1 /\ i < j+1 /\ b[i] = a[i] /\ b[j] = a[j+1]
        BY <1>1, <1>2, <2>2
      <3> QED BY <3>1 DEF StrictlySorted
    <2>3. CASE j < idx
      <3>1. i \in 0 .. n-1 /\ j \in 0 .. n-1 /\ b[i] = a[i] /\ b[j] = a[j]
        BY <1>1, <1>2, <2>3
      <3> QED BY <1>2, <3>1 DEF StrictlySorted
    <2> QED BY <2>1, <2>2, <2>3
  <1>3. (n - 1) - 1 = n - 2
    OBVIOUS
  <1> QED BY <1>2, <1>3 DEF StrictlySorted

(***************************************************************************)
(* memmove() into the first free cell moves pointers around, it neither    *)
(* duplicates nor loses one.                                               *)
(***************************************************************************)
Distinct(a, m)     == \A i, j \in 0 .. m-1 : a[i] = a[j] => i = j
SameCells(a, b, n) == {a[i] : i \in 0 .. n-1} = {b[i] : i \in 0 .. n-1}
SameAbove(a, b, n, m) == \A j \in n .. m-1 : a[j] = b[j]

LEMMA InsertPermutes ==
  ASSUME NEW m \in Nat, NEW n \in 0 .. m-1, NEW idx \in 0 .. n,
         NEW a \in [0 .. m-1 -> 0 .. m-1], Distinct(a, m),
         NEW b, b = InsertAt(a, n, idx, a[n])
  PROVE  /\ b \in [0 .. m-1 -> 0 .. m-1]
         /\ Distinct(b, m)
         /\ SameCells(b, a, n + 1)
         /\ SameAbove(b, a, n + 1, m)
  <1> DEFINE g(j) == IF j = idx THEN n ELSE IF idx < j /\ j <= n THEN j-1 ELSE j
  <1>1. \A j \in 0 .. m-1 : g(j) \in 0 .. m-1 /\ b[j] = a[g(j)]
    BY DEF InsertAt
  <1>2. ASSUME NEW i \in 0 .. m-1, NEW j \in 0 .. m-1, g(i) = g(j) PROVE i = j
    <2>1. i \in Int /\ j \in Int /\ n \in Int /\ idx \in Int /\ idx <= n
      OBVIOUS
    <2>2. CASE i = idx
      BY <1>2, <2>1, <2>2
    <2>3. CASE idx < i /\ i <= n
      BY <1>2, <2>1, <2>3
    <2>4. CASE i < idx \/ n < i
      BY <1>2, <2>1, <2>4
    <2> QED BY <2>1, <2>2, <2>3, <2>4
  <1>3. b \in [0 .. m-1 -> 0 .. m-1]
    BY DEF InsertAt
  <1>4. SameAbove(b, a, n + 1, m)
    BY DEF InsertAt, SameAbove
  <1>5. \A i \in 0 .. n : g(i) \in 0 .. n /\ i \in 0 .. m-1
    OBVIOUS
  <1>6. \A i \in 0 .. n : \E j \in 0 .. n : g(j) = i
    <2> TAKE i \in 0 .. n
    <2>1. CASE i = n
      BY <2>1
    <2>2. CASE i < n /\ idx <= i
      <3>1. i + 1 \in 0 .. n /\ g(i + 1) = i
        BY <2>2
      <3> QED BY <3>1
    <2>3. CASE i < idx
      <3>1. g(i) = i
        BY <2>3
      <3> QED BY <3>1
    <2> QED BY <2>1, <2>2, <2>3
  <1> HIDE DEF g
  <1>7. Distinct(b, m)
    BY <1>1, <1>2 DEF Distinct
  <1>8. \A i \in 0 .. n : \E j \in 0 .. n : b[i] = a[j]
    BY <1>1, <1>5
  <1>9. \A i \in 0 .. n : \E j \in 0 .. n : a[i] = b[j]
    BY <1>1, <1>5, <1>6
  <1>10. SameCells(b, a, n + 1)
    <2>1. (n + 1) - 1 = n
      OBVIOUS
    <2>2. {b[i] : i \in 0 .. n} \subseteq {a[i] : i \in 0 .. n}
      BY <1>8
    <2>3. {a[i] : i \in 0 .. n} \subseteq {b[i] : i \in 0 .. n}
      BY <1>9
    <2>4. {b[i] : i \in 0 .. n} = {a[i] : i \in 0 .. n}
      BY <2>2, <2>3
    <2> QED BY <2>1, <2>4 DEF SameCells
  <1> QED BY <1>3, <1>4, <1>7, <1>10
=============================================================================
