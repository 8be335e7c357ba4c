-------------------------- MODULE TupleSpaceProofs --------------------------
(***************************************************************************)
(* Invariants of the tuple space, proved for pools of any size, any set of *)
(* keys and any timeouts, with and without assertions compiled in; and,    *)
(* with assertions, that the arrays implement the map of Greylisting.tla.  *)
(***************************************************************************)
EXTENDS TupleSpace, OrderedArrayProofs, TLAPS, SequenceTheorems

(***************************************************************************)
(* The shape of the arrays p and ts with n cells in use.                   *)
(***************************************************************************)
Permutes(ts) == \A i, j \in Slot : ts[i] = ts[j] => i = j

FlaggedPrefix(p, ts, n) ==
  \E m \in n .. PoolMax : \A j \in n .. PoolMax-1 : p[ts[j]].remove <=> j < m

Named(p, ts, n) == \A i \in 0 .. n-1 : p[ts[i]].key \in Key

Cells(p, ts, n) ==
  /\ p \in [Slot -> Record] /\ ts \in [Slot -> Slot] /\ n \in 0 .. PoolMax
  /\ Permutes(ts) /\ FlaggedPrefix(p, ts, n) /\ Named(p, ts, n)

InUse(ts, n)    == {ts[i] : i \in 0 .. n-1}
White(p, ts, n) == {s \in InUse(ts, n) : p[s].white}

LEMMA SlotFacts ==
  /\ PoolMax \in Nat /\ 0 \in Slot
  /\ IsFiniteSet(Slot) /\ Cardinality(Slot) = PoolMax
  /\ \A S \in SUBSET Slot : IsFiniteSet(S) /\ Cardinality(S) \in Nat
  <1>1. PoolMax \in Nat /\ 0 \in Slot
    BY PoolAssumption DEF Slot
  <1>2. IsFiniteSet(Slot) /\ Cardinality(Slot) = PoolMax
    BY <1>1, FS_Interval DEF Slot
  <1>3. \A S \in SUBSET Slot : IsFiniteSet(S) /\ Cardinality(S) \in Nat
    BY <1>2, FS_Subset, FS_CardinalityType
  <1> QED BY <1>1, <1>2, <1>3

LEMMA WhiteFinite ==
  ASSUME NEW p, NEW ts, NEW n, Cells(p, ts, n)
  PROVE  /\ InUse(ts, n) \in SUBSET Slot /\ White(p, ts, n) \in SUBSET Slot
         /\ IsFiniteSet(White(p, ts, n)) /\ Cardinality(White(p, ts, n)) \in Nat
  <1>1. \A i \in 0 .. n-1 : ts[i] \in Slot
    BY SlotFacts DEF Cells, Slot
  <1>2. InUse(ts, n) \in SUBSET Slot
    BY <1>1 DEF InUse
  <1>3. White(p, ts, n) \in SUBSET Slot
    BY <1>2 DEF White
  <1> QED BY <1>2, <1>3, SlotFacts

(***************************************************************************)
(* An array of pointers that starts over has no tuple in use; its flagged  *)
(* records come first because there are none.                              *)
(***************************************************************************)
LEMMA EmptyCells ==
  ASSUME NEW p \in [Slot -> Record], \A s \in Slot : ~p[s].remove
  PROVE  Cells(p, Identity, 0) /\ White(p, Identity, 0) = {}
  <1>1. Identity \in [Slot -> Slot] /\ Permutes(Identity)
    BY DEF Identity, Permutes
  <1>2. FlaggedPrefix(p, Identity, 0)
    <2>1. \A j \in 0 .. PoolMax-1 : ~p[Identity[j]].remove
      BY DEF Identity, Slot
    <2>2. 0 \in 0 .. PoolMax /\ \A j \in 0 .. PoolMax-1 : ~(j < 0)
      BY SlotFacts
    <2> QED BY <2>1, <2>2 DEF FlaggedPrefix
  <1>3. Named(p, Identity, 0) /\ InUse(Identity, 0) = {}
    BY DEF Named, InUse
  <1>4. 0 \in 0 .. PoolMax
    BY SlotFacts
  <1> QED BY <1>1, <1>2, <1>3, <1>4 DEF Cells, White

(***************************************************************************)
(* Rewriting a record in use without renaming it.                          *)
(***************************************************************************)
SameNames(q, p, ts) == \A j \in Slot : q[ts[j]].key = p[ts[j]].key

LEMMA UpdateCells ==
  ASSUME NEW p, NEW ts, NEW n, Cells(p, ts, n),
         NEW i \in 0 .. n-1, NEW r \in Record, r.key = p[ts[i]].key,
         NEW q, q = [p EXCEPT ![ts[i]] = r]
  PROVE  /\ Cells(q, ts, n)
         /\ White(q, ts, n) \subseteq White(p, ts, n) \cup {ts[i]}
         /\ ~r.white => White(q, ts, n) \subseteq White(p, ts, n)
         /\ SameNames(q, p, ts)
  <1>1. i \in Slot /\ n \in 0 .. PoolMax /\ PoolMax \in Nat
    BY SlotFacts DEF Cells, Slot
  <1>2. q \in [Slot -> Record]
    BY <1>1 DEF Cells
  <1>3. \A j \in Slot : q[ts[j]].key = p[ts[j]].key
    BY <1>1 DEF Cells
  <1>4. \A j \in n .. PoolMax-1 : q[ts[j]] = p[ts[j]]
    <2> TAKE j \in n .. PoolMax-1
    <2>1. j \in Slot /\ j # i
      BY <1>1 DEF Slot
    <2>2. ts[j] # ts[i] /\ ts[j] \in Slot
      BY <1>1, <2>1 DEF Cells, Permutes
    <2> QED BY <2>2 DEF Cells
  <1>5. FlaggedPrefix(q, ts, n)
    BY <1>4 DEF Cells, FlaggedPrefix
  <1>6. Named(q, ts, n)
    BY <1>1, <1>3 DEF Cells, Named, Slot
  <1>7. \A s \in Slot : q[s] = IF s = ts[i] THEN r ELSE p[s]
    BY DEF Cells
  <1>8. /\ White(q, ts, n) \subseteq White(p, ts, n) \cup {ts[i]}
        /\ ~r.white => White(q, ts, n) \subseteq White(p, ts, n)
    BY <1>7, WhiteFinite DEF White
  <1>9. Cells(q, ts, n)
    BY <1>2, <1>5, <1>6 DEF Cells
  <1> QED BY <1>3, <1>8, <1>9 DEF SameNames

(***************************************************************************)
(* tuple_add(): one more tuple in use, in the record that was first among  *)
(* the free ones.                                                          *)
(***************************************************************************)
LEMMA AddCells ==
  ASSUME NEW p, NEW ts, NEW n, Cells(p, ts, n), n < PoolMax,
         NEW idx \in 0 .. n, NEW r \in Record, r.key \in Key
  PROVE  LET q  == [p EXCEPT ![ts[n]] = r]
             us == InsertAt(ts, n, idx, ts[n])
         IN  /\ Cells(q, us, n + 1)
             /\ InUse(us, n + 1) = InUse(ts, n) \cup {ts[n]}
             /\ White(q, us, n + 1) \subseteq White(p, ts, n) \cup {ts[n]}
             /\ ~r.white => White(q, us, n + 1) \subseteq White(p, ts, n)
  <1> DEFINE q  == [p EXCEPT ![ts[n]] = r]
             us == InsertAt(ts, n, idx, ts[n])
  <1>1. n \in Nat /\ n \in 0 .. PoolMax-1 /\ n \in Slot /\ PoolMax \in Nat /\ n + 1 \in 0 .. PoolMax
    BY SlotFacts DEF Cells, Slot
  <1>2. q \in [Slot -> Record]
    BY <1>1 DEF Cells
  <1>3. /\ us \in [Slot -> Slot] /\ Permutes(us)
        /\ SameCells(us, ts, n + 1)
        /\ \A j \in n+1 .. PoolMax-1 : us[j] = ts[j]
    <2>1. ts \in [0 .. PoolMax-1 -> 0 .. PoolMax-1] /\ Distinct(ts, PoolMax)
      BY DEF Cells, Permutes, Distinct, Slot
    <2> HIDE DEF us
    <2>2. us = InsertAt(ts, n, idx, ts[n])
      BY DEF us
    <2>3. /\ us \in [0 .. PoolMax-1 -> 0 .. PoolMax-1]
          /\ Distinct(us, PoolMax) /\ SameCells(us, ts, n + 1)
          /\ SameAbove(us, ts, n + 1, PoolMax)
      BY <1>1, <2>1, <2>2, InsertPermutes
    <2> QED BY <2>3 DEF Permutes, Slot, Distinct, SameAbove
  <1> HIDE DEF us
  <1>4. InUse(us, n + 1) = InUse(ts, n) \cup {ts[n]}
    <2>1. (n + 1) - 1 = n /\ 0 .. n = (0 .. n-1) \cup {n}
      BY <1>1
    <2>2. InUse(us, n + 1) = {ts[i] : i \in 0 .. n}
      BY <1>3, <2>1 DEF InUse, SameCells
    <2> QED BY <2>1, <2>2 DEF InUse
  <1>5. \A s \in Slot : q[s] = IF s = ts[n] THEN r ELSE p[s]
    BY DEF Cells
  <1>6. \A j \in Slot : j # n => q[ts[j]] = p[ts[j]]
    BY <1>1, <1>5 DEF Cells, Permutes
  <1>7. FlaggedPrefix(q, us, n + 1)
    <2>1. PICK m \in n .. PoolMax : \A j \in n .. PoolMax-1 : p[ts[j]].remove <=> j < m
      BY DEF Cells, FlaggedPrefix
    <2>2. ASSUME NEW j \in n+1 .. PoolMax-1 PROVE q[us[j]] = p[ts[j]]
      <3>1. j \in Slot /\ j # n
        BY <1>1 DEF Slot
      <3> QED BY <1>3, <1>6, <3>1
    <2>3. \A j \in n+1 .. PoolMax-1 : q[us[j]].remove <=> j < m
      BY <1>1, <2>1, <2>2
    <2>4. CASE m = n
      <3>1. \A j \in n+1 .. PoolMax-1 : q[us[j]].remove <=> j < n+1
        BY <1>1, <2>3, <2>4
      <3> QED BY <1>1, <3>1 DEF FlaggedPrefix
    <2>5. CASE m > n
      <3>1. m \in n+1 .. PoolMax
        BY <1>1, <2>5
      <3> QED BY <2>3, <3>1 DEF FlaggedPrefix
    <2> QED BY <1>1, <2>4, <2>5
  <1>8. Named(q, us, n + 1)
    <2>1. \A s \in InUse(us, n + 1) : q[s].key \in Key
      <3>1. \A s \in InUse(ts, n) : s \in Slot /\ p[s].key \in Key
        BY WhiteFinite DEF Cells, Named, InUse
      <3>2. ts[n] \in Slot
        BY <1>1 DEF Cells
      <3> QED BY <1>4, <1>5, <3>1, <3>2
    <2>2. \A i \in 0 .. (n + 1) - 1 : us[i] \in InUse(us, n + 1)
      BY DEF InUse
    <2> QED BY <2>1, <2>2 DEF Named
  <1>9. /\ White(q, us, n + 1) \subseteq White(p, ts, n) \cup {ts[n]}
        /\ ~r.white => White(q, us, n + 1) \subseteq White(p, ts, n)
    <2>1. InUse(ts, n) \in SUBSET Slot /\ ts[n] \in Slot
      BY <1>1, WhiteFinite DEF Cells
    <2> QED BY <1>4, <1>5, <2>1 DEF White
  <1> HIDE DEF q, us
  <1>10. Cells(q, us, n + 1)
    BY <1>1, <1>2, <1>3, <1>7, <1>8 DEF Cells
  <1> QED BY <1>4, <1>9, <1>10 DEF q, us

(***************************************************************************)
(* tuple_expire(), first loop: flags may appear, nothing else changes, and *)
(* only records in use are touched.                                        *)
(***************************************************************************)
LEMMA MarkedFacts ==
  ASSUME Cells(pool, tuplespace, poolnum)
  PROVE  /\ Marked \in [Slot -> Record]
         /\ \A s \in Slot : /\ Marked[s].key = pool[s].key
                            /\ Marked[s].white = pool[s].white
                            /\ pool[s].remove => Marked[s].remove
                            /\ s \notin Live => Marked[s] = pool[s]
  <1>1. pool \in [Slot -> Record]
    BY DEF Cells
  <1>2. ASSUME NEW s \in Slot
        PROVE  /\ Marked[s] \in Record
               /\ Marked[s].key = pool[s].key
               /\ Marked[s].white = pool[s].white
               /\ pool[s].remove => Marked[s].remove
               /\ s \notin Live => Marked[s] = pool[s]
    <2>1. pool[s] \in Record
      BY <1>1
    <2>2. [pool[s] EXCEPT !.remove = TRUE] \in Record
      BY <2>1 DEF Record
    <2>3. Marked[s] = IF s \in Live /\ Stale(pool[s]) THEN [pool[s] EXCEPT !.remove = TRUE] ELSE pool[s]
      BY DEF Marked
    <2> QED BY <2>1, <2>2, <2>3 DEF Record
  <1>3. Marked \in [Slot -> Record]
    BY <1>2 DEF Marked
  <1> QED BY <1>2, <1>3

(***************************************************************************)
(* tuple_expire(), both loops.  The flagged records fill exactly the cells *)
(* between the kept tuples and the cell m behind the last flagged free     *)
(* record: m cells hold the kept and the flagged records before and after. *)
(***************************************************************************)
LEMMA CellCount ==
  ASSUME Cells(pool, tuplespace, poolnum),
         NEW m \in poolnum .. PoolMax,
         \A j \in poolnum .. PoolMax-1 : pool[tuplespace[j]].remove <=> j < m
  PROVE  /\ Kept \in SUBSET Used /\ IsFiniteSet(Kept) /\ IsFiniteSet(Freed)
         /\ Cardinality(Kept) \in 0 .. poolnum
         /\ Cardinality(Freed) \in Nat
         /\ Cardinality(Kept) + Cardinality(Freed) = m
         /\ \A j \in m .. PoolMax-1 : tuplespace[j] \notin Freed
  <1>1. /\ poolnum \in 0 .. PoolMax /\ PoolMax \in Nat /\ m \in Nat /\ m <= PoolMax /\ poolnum <= m
        /\ tuplespace \in [Slot -> Slot] /\ Permutes(tuplespace)
    BY SlotFacts DEF Cells
  <1>2. Kept \in SUBSET Used /\ IsFiniteSet(Used) /\ Cardinality(Used) = poolnum
    BY <1>1, FS_Interval DEF Kept, Used
  <1>3. IsFiniteSet(Kept) /\ Cardinality(Kept) \in 0 .. poolnum
    BY <1>1, <1>2, FS_Subset, FS_CardinalityType
  <1>4. IsFiniteSet(Freed) /\ Cardinality(Freed) \in Nat
    BY SlotFacts DEF Freed
  <1> DEFINE M == 0 .. m-1
             P == M \ Kept
             f == [i \in P |-> tuplespace[i]]
  <1>5. IsFiniteSet(M) /\ Cardinality(M) = m /\ Kept \in SUBSET M /\ M \in SUBSET Slot
    <2>1. IsFiniteSet(0 .. m-1) /\ Cardinality(0 .. m-1) = m
      <3>1. 0 \in Int /\ m-1 \in Int
        BY <1>1
      <3>2. IsFiniteSet(0 .. m-1) /\ Cardinality(0 .. m-1) = (IF 0 > m-1 THEN 0 ELSE (m-1) - 0 + 1)
        BY <3>1, FS_Interval
      <3> QED BY <1>1, <3>2
    <2>2. Used \subseteq M /\ M \in SUBSET Slot
      BY <1>1 DEF Used, Slot
    <2> QED BY <1>2, <2>1, <2>2
  <1>6. IsFiniteSet(P) /\ Cardinality(P) = m - Cardinality(Kept)
    <2> HIDE DEF M
    <2>1. M \cap Kept = Kept
      BY <1>5
    <2>2. IsFiniteSet(M \ Kept) /\ Cardinality(M \ Kept) = Cardinality(M) - Cardinality(M \cap Kept)
      BY <1>5, FS_Difference
    <2> QED BY <1>5, <2>1, <2>2
  <1>7. \A j \in poolnum .. PoolMax-1 : tuplespace[j] \in Slot /\ tuplespace[j] \notin Live
    <2> SUFFICES ASSUME NEW j \in poolnum .. PoolMax-1
                 PROVE  tuplespace[j] \in Slot /\ tuplespace[j] \notin Live
      OBVIOUS
    <2>1. j \in Slot /\ \A i \in Used : i \in Slot /\ i # j
      BY <1>1 DEF Slot, Used
    <2> QED BY <1>1, <2>1 DEF Permutes, Live
  <1>8. \A j \in poolnum .. PoolMax-1 : tuplespace[j] \in Freed <=> j < m
    BY <1>7, MarkedFacts DEF Freed
  <1>9. \A i \in Used : tuplespace[i] \in Freed <=> i \notin Kept
    BY <1>1 DEF Freed, Kept, Used, Slot
  <1>10. \A i \in P : tuplespace[i] \in Freed
    <2> SUFFICES ASSUME NEW i \in P PROVE tuplespace[i] \in Freed
      OBVIOUS
    <2>1. CASE i < poolnum
      BY <1>1, <1>9, <2>1 DEF Used
    <2>2. CASE i >= poolnum
      BY <1>1, <1>8, <2>2
    <2> QED BY <1>1, <2>1, <2>2
  <1>11. \A s \in Freed : \E i \in P : tuplespace[i] = s
    <2> SUFFICES ASSUME NEW s \in Freed PROVE \E i \in P : tuplespace[i] = s
      OBVIOUS
    <2>1. PICK i \in Slot : tuplespace[i] = s
      <3>1. tuplespace \in Injection(Slot, Slot)
        BY <1>1 DEF Injection, IsInjective, Permutes
      <3>2. tuplespace \in Surjection(Slot, Slot)
        BY <3>1, SlotFacts, FS_Injection
      <3>3. s \in Slot
        BY DEF Freed
      <3> QED BY <3>2, <3>3 DEF Surjection
    <2>2. i \in 0 .. PoolMax-1
      BY <1>1, <2>1 DEF Slot
    <2>3. CASE i < poolnum
      BY <1>1, <1>9, <2>1, <2>2, <2>3 DEF Used
    <2>4. CASE i >= poolnum
      <3>1. i < m
        BY <1>1, <1>8, <2>1, <2>2, <2>4
      <3>2. i \in P
        BY <1>1, <1>2, <2>2, <2>4, <3>1 DEF Used
      <3> QED BY <2>1, <3>2
    <2> QED BY <1>1, <2>2, <2>3, <2>4
  <1>12. Cardinality(Freed) = Cardinality(P)
    <2>1. P \in SUBSET Slot
      BY <1>5
    <2>2. f \in [P -> Freed] /\ \A s \in Freed : \E i \in P : f[i] = s
      BY <1>10, <1>11
    <2>3. \A i, j \in P : f[i] = f[j] => i = j
      BY <1>1, <2>1 DEF Permutes
    <2> HIDE DEF f, P
    <2>4. f \in Injection(P, Freed)
      <3>1. IsInjective(f)
        BY <2>2, <2>3 DEF IsInjective
      <3> QED BY <2>2, <3>1 DEF Injection
    <2>5. f \in Surjection(P, Freed)
      BY <2>2 DEF Surjection
    <2> QED BY <1>4, <2>4, <2>5, FS_Injection
  <1>13. \A j \in m .. PoolMax-1 : tuplespace[j] \notin Freed
    BY <1>1, <1>8
  <1>14. Cardinality(Kept) + Cardinality(Freed) = m
    BY <1>1, <1>3, <1>6, <1>12
  <1> QED BY <1>2, <1>3, <1>4, <1>13, <1>14

LEMMA SweepCells ==
  ASSUME Cells(pool, tuplespace, poolnum)
  PROVE  /\ Cardinality(Kept) \in 0 .. poolnum
         /\ Cells(Marked, Compacted, Cardinality(Kept))
         /\ InUse(Compacted, Cardinality(Kept)) = Live \ Freed
         /\ Cardinality(Kept) + Cardinality(Freed) \in poolnum .. PoolMax
         /\ StrictlySorted(KeyAt, poolnum)
              => StrictlySorted([i \in Slot |-> Marked[Compacted[i]].key], Cardinality(Kept))
  <1>1. PICK m \in poolnum .. PoolMax :
          \A j \in poolnum .. PoolMax-1 : pool[tuplespace[j]].remove <=> j < m
    BY DEF Cells, FlaggedPrefix
  <1> DEFINE nk == Cardinality(Kept)
             nf == Cardinality(Freed)
  <1>2. /\ Kept \in SUBSET Used /\ IsFiniteSet(Kept) /\ IsFiniteSet(Freed)
        /\ nk \in 0 .. poolnum /\ nf \in Nat /\ nk + nf = m
        /\ \A j \in m .. PoolMax-1 : tuplespace[j] \notin Freed
    BY <1>1, CellCount
  <1>3. /\ poolnum \in 0 .. PoolMax /\ PoolMax \in Nat /\ m \in Nat /\ m <= PoolMax /\ poolnum <= m
        /\ tuplespace \in [Slot -> Slot] /\ Permutes(tuplespace)
        /\ Kept \in SUBSET Int /\ Freed \in SUBSET Int /\ Freed \in SUBSET Slot
    BY <1>2, SlotFacts DEF Cells, Used, Freed, Slot
  <1>4. \A j \in Slot : Compacted[j] = IF j < nk THEN tuplespace[Nth(Kept, j)]
                                       ELSE IF j < m THEN Nth(Freed, j - nk)
                                       ELSE tuplespace[j]
    BY <1>2 DEF Compacted
  <1>5. \A j \in Slot : j < nk =>
          /\ Nth(Kept, j) \in Used /\ Nth(Kept, j) \in Kept /\ Nth(Kept, j) \in Slot
          /\ Compacted[j] = tuplespace[Nth(Kept, j)]
          /\ Compacted[j] \in Slot \ Freed /\ Compacted[j] \in Live
    <2> SUFFICES ASSUME NEW j \in Slot, j < nk
                 PROVE  /\ Nth(Kept, j) \in Used /\ Nth(Kept, j) \in Kept /\ Nth(Kept, j) \in Slot
                        /\ Compacted[j] = tuplespace[Nth(Kept, j)]
                        /\ Compacted[j] \in Slot \ Freed /\ Compacted[j] \in Live
      OBVIOUS
    <2>1. j \in 0 .. nk-1
      BY <1>2, <1>3 DEF Slot
    <2>2. Nth(Kept, j) \in Kept
      BY <1>2, <1>3, <2>1, NthMember
    <2>3. Nth(Kept, j) \in Used /\ Nth(Kept, j) \in Slot
      <3>1. Used \subseteq Slot
        BY <1>3 DEF Used, Slot
      <3> QED BY <1>2, <2>2, <3>1
    <2>4. Compacted[j] = tuplespace[Nth(Kept, j)]
      BY <1>4
    <2>5. tuplespace[Nth(Kept, j)] \in Live /\ tuplespace[Nth(Kept, j)] \in Slot
      BY <1>3, <2>3 DEF Live
    <2>6. tuplespace[Nth(Kept, j)] \notin Freed
      BY <2>2 DEF Kept, Freed
    <2> QED BY <2>2, <2>3, <2>4, <2>5, <2>6
  <1>6. \A j \in Slot : nk <= j /\ j < m =>
          /\ j - nk \in 0 .. nf-1 /\ Compacted[j] = Nth(Freed, j - nk)
          /\ Compacted[j] \in Freed
    <2> SUFFICES ASSUME NEW j \in Slot, nk <= j, j < m
                 PROVE  /\ j - nk \in 0 .. nf-1 /\ Compacted[j] = Nth(Freed, j - nk)
                        /\ Compacted[j] \in Freed
      OBVIOUS
    <2>1. j - nk \in 0 .. nf-1 /\ ~(j < nk)
      BY <1>2, <1>3 DEF Slot
    <2>2. Nth(Freed, j - nk) \in Freed
      BY <1>2, <1>3, <2>1, NthMember
    <2> QED BY <1>4, <2>1, <2>2
  <1>7. \A j \in Slot : m <= j => Compacted[j] = tuplespace[j] /\ Compacted[j] \in Slot \ Freed
    <2> SUFFICES ASSUME NEW j \in Slot, m <= j
                 PROVE  Compacted[j] = tuplespace[j] /\ Compacted[j] \in Slot \ Freed
      OBVIOUS
    <2>1. j \in m .. PoolMax-1 /\ ~(j < nk) /\ ~(j < m)
      BY <1>2, <1>3 DEF Slot
    <2> QED BY <1>2, <1>3, <1>4, <2>1
  <1>8. \A j \in Slot : j < nk \/ (nk <= j /\ j < m) \/ m <= j
    BY <1>2, <1>3 DEF Slot
  <1>9. Compacted \in [Slot -> Slot]
    <2>1. \A j \in Slot : Compacted[j] \in Slot
      BY <1>3, <1>5, <1>6, <1>7, <1>8
    <2> QED BY <2>1 DEF Compacted
  <1> HIDE DEF nk, nf
  <1>10. ASSUME NEW i \in Slot, NEW j \in Slot, Compacted[i] = Compacted[j], i < j
         PROVE  FALSE
    <2>0. i \in Int /\ j \in Int /\ nk \in Int /\ m \in Int
      BY <1>2, <1>3 DEF Slot
    <2>1. CASE j < nk
      <3>0. i < nk
        BY <1>10, <2>0, <2>1
      <3>1. Nth(Kept, i) = Nth(Kept, j)
        <4>1. Nth(Kept, i) \in Slot /\ Nth(Kept, j) \in Slot
              /\ tuplespace[Nth(Kept, i)] = tuplespace[Nth(Kept, j)]
          BY <1>5, <1>10, <2>1, <3>0
        <4> QED BY <1>3, <4>1 DEF Permutes
      <3>2. i \in 0 .. nk-1 /\ j \in 0 .. nk-1
        BY <1>3, <2>0, <2>1, <3>0 DEF Slot
      <3>3. Nth(Kept, i) < Nth(Kept, j) /\ Nth(Kept, j) \in Int
        BY <1>2, <1>3, <1>5, <1>10, <2>1, <3>2, NthMonotone DEF nk
      <3> QED BY <3>1, <3>3
    <2>2. CASE nk <= j /\ j < m
      <3>1. Compacted[j] \in Freed /\ nk <= i /\ i < m
        BY <1>5, <1>6, <1>10, <2>0, <2>2
      <3>2. Nth(Freed, i - nk) = Nth(Freed, j - nk) /\ i - nk \in 0 .. nf-1 /\ j - nk \in 0 .. nf-1
        BY <1>6, <1>10, <2>2, <3>1
      <3>3. i - nk < j - nk
        BY <1>10, <2>0
      <3>4. Nth(Freed, i - nk) < Nth(Freed, j - nk)
        BY <1>2, <1>3, <3>2, <3>3, NthMonotone DEF nf
      <3>5. Nth(Freed, j - nk) \in Int
        BY <1>3, <1>6, <2>2
      <3> QED BY <3>2, <3>4, <3>5
    <2>3. CASE m <= j
      <3>1. Compacted[j] = tuplespace[j] /\ Compacted[j] \notin Freed
        BY <1>7, <2>3
      <3>2. CASE i < nk
        <4>1. Nth(Kept, i) \in Used /\ Nth(Kept, i) \in Slot /\ tuplespace[Nth(Kept, i)] = tuplespace[j]
          BY <1>5, <1>10, <3>1, <3>2
        <4>2. Nth(Kept, i) = j
          BY <1>3, <4>1 DEF Permutes
        <4> QED BY <1>3, <2>0, <2>3, <4>1, <4>2 DEF Used
      <3>3. CASE m <= i
        BY <1>3, <1>7, <1>10, <2>0, <3>1, <3>3 DEF Permutes
      <3> QED BY <1>6, <1>8, <1>10, <3>1, <3>2, <3>3
    <2> QED BY <1>8, <2>1, <2>2, <2>3
  <1>11. Permutes(Compacted)
    <2> SUFFICES ASSUME NEW i \in Slot, NEW j \in Slot, Compacted[i] = Compacted[j] PROVE i = j
      BY DEF Permutes
    <2>1. i \in Int /\ j \in Int
      BY DEF Slot
    <2>2. ~(i < j) /\ ~(j < i)
      BY <1>10
    <2> QED BY <2>1, <2>2
  <1>12. FlaggedPrefix(Marked, Compacted, nk)
    <2>1. m \in nk .. PoolMax
      BY <1>2, <1>3
    <2>2. ASSUME NEW j \in nk .. PoolMax-1
          PROVE  Marked[Compacted[j]].remove <=> j < m
      <3>1. j \in Slot /\ j \in Int /\ nk <= j
        BY <1>2, <1>3 DEF Slot
      <3>2. Compacted[j] \in Slot
        BY <1>9, <3>1
      <3>3. Compacted[j] \in Freed <=> j < m
        BY <1>3, <1>6, <1>7, <3>1
      <3> QED BY <3>2, <3>3 DEF Freed
    <2> QED BY <2>1, <2>2 DEF FlaggedPrefix
  <1>13. Named(Marked, Compacted, nk)
    <2> SUFFICES ASSUME NEW i \in 0 .. nk-1 PROVE Marked[Compacted[i]].key \in Key
      BY DEF Named
    <2>1. i \in Slot /\ i < nk
      BY <1>2, <1>3 DEF Slot
    <2>2. Compacted[i] \in Slot /\ Compacted[i] = tuplespace[Nth(Kept, i)] /\ Nth(Kept, i) \in Used
      BY <1>5, <2>1
    <2>3. pool[Compacted[i]].key \in Key
      BY <2>2 DEF Cells, Named, Used
    <2> QED BY <2>2, <2>3, MarkedFacts
  <1>14. Cells(Marked, Compacted, nk)
    <2>1. nk \in 0 .. PoolMax
      BY <1>2, <1>3
    <2> QED BY <1>9, <1>11, <1>12, <1>13, <2>1, MarkedFacts DEF Cells
  <1>15. InUse(Compacted, nk) = Live \ Freed
    <2>1. ASSUME NEW i \in 0 .. nk-1 PROVE Compacted[i] \in Live \ Freed
      <3>1. i \in Slot /\ i < nk
        BY <1>2, <1>3 DEF Slot
      <3> QED BY <1>5, <3>1
    <2>2. ASSUME NEW s \in Live \ Freed PROVE \E i \in 0 .. nk-1 : Compacted[i] = s
      <3>1. PICK x \in Used : tuplespace[x] = s
        BY DEF Live
      <3>2. x \in Slot /\ s \in Slot
        BY <1>3, <3>1 DEF Used, Slot
      <3>3. x \in Kept
        BY <3>1, <3>2 DEF Kept, Freed
      <3>4. Rank(Kept, x) \in 0 .. nk-1
        BY <1>2, <1>3, <3>3, RankType DEF nk
      <3>5. Nth(Kept, Rank(Kept, x)) = x
        BY <1>2, <1>3, <3>3, NthOfRank
      <3>6. Rank(Kept, x) \in Slot /\ Rank(Kept, x) < nk
        BY <1>2, <1>3, <3>4 DEF Slot
      <3>7. Compacted[Rank(Kept, x)] = s
        BY <1>5, <3>1, <3>5, <3>6
      <3> QED BY <3>4, <3>7
    <2> QED BY <2>1, <2>2 DEF InUse
  <1>16. ASSUME StrictlySorted(KeyAt, poolnum)
         PROVE  StrictlySorted([i \in Slot |-> Marked[Compacted[i]].key], nk)
    <2> SUFFICES ASSUME NEW i \in 0 .. nk-1, NEW j \in 0 .. nk-1, i < j
                 PROVE  [x \in Slot |-> Marked[Compacted[x]].key][i]
                          < [x \in Slot |-> Marked[Compacted[x]].key][j]
      BY DEF StrictlySorted
    <2>1. i \in Slot /\ j \in Slot /\ i < nk /\ j < nk
      BY <1>2, <1>3 DEF Slot
    <2>2. Nth(Kept, i) < Nth(Kept, j)
      BY <1>2, <1>3, NthMonotone DEF nk
    <2>3. \A x \in {i, j} : /\ Nth(Kept, x) \in Used /\ Nth(Kept, x) \in Slot
                            /\ Marked[Compacted[x]].key = KeyAt[Nth(Kept, x)]
      BY <1>5, <2>1, MarkedFacts DEF KeyAt
    <2>4. KeyAt[Nth(Kept, i)] < KeyAt[Nth(Kept, j)]
      BY <1>16, <2>2, <2>3 DEF StrictlySorted, Used
    <2> QED BY <2>1, <2>3, <2>4
  <1> QED BY <1>2, <1>3, <1>14, <1>15, <1>16 DEF nk, nf
-----------------------------------------------------------------------------
(***************************************************************************)
(* The inductive invariant.  NoAlias needs FlaggedFirst (the second loop   *)
(* of tuple_expire() overwrites exactly the cells the flagged records had),*)
(* Sorted needs both, and the saved file needs every tuple in use named.   *)
(***************************************************************************)
FlagsOnlyWhenUp == status # "up" => \A s \in Slot : ~pool[s].remove

IInv ==
  /\ TypeOK
  /\ MarksBracket
  /\ Cells(pool, tuplespace, poolnum)
  /\ WhitelistedCovers
  /\ FlagsOnlyWhenUp
  /\ Debug => Sorted

LEMMA Viewed ==
  /\ Live = InUse(tuplespace, poolnum)
  /\ WhiteUsed = White(pool, tuplespace, poolnum)
  /\ Live' = InUse(tuplespace', poolnum')
  /\ WhiteUsed' = White(pool', tuplespace', poolnum')
  BY DEF Live, Used, InUse, WhiteUsed, White

LEMMA CountGrows ==
  ASSUME NEW A \in SUBSET Slot, NEW B \in SUBSET Slot, NEW x
  PROVE  /\ B \subseteq A => Cardinality(B) <= Cardinality(A)
         /\ B \subseteq A \cup {x} => Cardinality(B) <= Cardinality(A) + 1
  <1>1. IsFiniteSet(A) /\ Cardinality(A) \in Nat /\ IsFiniteSet(B) /\ Cardinality(B) \in Nat
    BY SlotFacts
  <1>2. B \subseteq A => Cardinality(B) <= Cardinality(A)
    BY <1>1, FS_Subset
  <1>3. ASSUME B \subseteq A \cup {x} PROVE Cardinality(B) <= Cardinality(A) + 1
    <2>0. /\ IsFiniteSet(A \cup {x})
          /\ Cardinality(A \cup {x}) = IF x \in A THEN Cardinality(A) ELSE Cardinality(A) + 1
      BY <1>1, FS_AddElement
    <2>1. IsFiniteSet(A \cup {x}) /\ Cardinality(A \cup {x}) <= Cardinality(A) + 1
      BY <1>1, <2>0
    <2>2. Cardinality(B) <= Cardinality(A \cup {x}) /\ Cardinality(A \cup {x}) \in Nat
      BY <1>3, <2>1, FS_Subset, FS_CardinalityType
    <2> QED BY <1>1, <2>1, <2>2
  <1> QED BY <1>2, <1>3

LEMMA FreshRecord ==
  ASSUME TypeOK, NEW k \in Key, NEW w \in BOOLEAN
  PROVE  /\ Fresh(k, w) \in Record /\ Fresh(k, w).key = k /\ Fresh(k, w).key \in Key
         /\ Fresh(k, w).white = w
  BY DEF TypeOK, Fresh, Record

(***************************************************************************)
(* What is saved is a file of keys, however much of it comes to be written.*)
(***************************************************************************)
LEMMA LinesOfFile ==
  ASSUME NEW S, NEW f \in FileOf(S)
  PROVE  f.lines \in Seq(S)
  BY DEF FileOf

LEMMA WholeFile ==
  ASSUME NEW S, NEW q \in Seq(S)
  PROVE  Whole(q) \in FileOf(S) /\ Whole(q).lines = q /\ Whole(q).whole
  BY DEF FileOf, Whole

LEMMA CutFile ==
  ASSUME NEW S, NEW q \in Seq(S), NEW f \in CutOff(q, S)
  PROVE  /\ f \in FileOf(S) /\ ~f.whole /\ f = [lines |-> f.lines, whole |-> FALSE]
         /\ \E n \in 0 .. Len(q) : \/ f.lines = SubSeq(q, 1, n)
                                  \/ \E l \in S : f.lines = Append(SubSeq(q, 1, n), l)
  <1>1. ASSUME NEW n \in 0 .. Len(q) PROVE SubSeq(q, 1, n) \in Seq(S)
    BY <1>1
  <1>2. CASE \E n \in 0 .. Len(q) : f = [lines |-> SubSeq(q, 1, n), whole |-> FALSE]
    BY <1>1, <1>2 DEF FileOf
  <1>3. CASE \E n \in 1 .. Len(q), l \in S :
               f = [lines |-> Append(SubSeq(q, 1, n-1), l), whole |-> FALSE]
    <2>1. PICK n \in 1 .. Len(q), l \in S :
                 f = [lines |-> Append(SubSeq(q, 1, n-1), l), whole |-> FALSE]
      BY <1>3
    <2>2. Len(q) \in Nat /\ n - 1 \in 0 .. Len(q)
      OBVIOUS
    <2>3. PICK m \in 0 .. Len(q) : m = n - 1
      BY <2>2
    <2>4. SubSeq(q, 1, m) \in Seq(S)
      BY <1>1
    <2>5. f = [lines |-> Append(SubSeq(q, 1, m), l), whole |-> FALSE]
      BY <2>1, <2>3
    <2>6. Append(SubSeq(q, 1, m), l) \in Seq(S)
      BY <2>4, AppendProperties
    <2>7. f \in FileOf(S) /\ ~f.whole
      BY <2>5, <2>6 DEF FileOf
    <2>8. f.lines = Append(SubSeq(q, 1, m), l)
      BY <2>5
    <2> QED BY <2>5, <2>7, <2>8
  <1> QED BY <1>2, <1>3 DEF CutOff

LEMMA BlankRecord ==
  Blank \in Record /\ ~Blank.remove
  BY TimeAssumption DEF Blank, Record, NoKey, Time

(***************************************************************************)
(* The saved file names keys only.                                         *)
(***************************************************************************)
LEMMA DumpType ==
  ASSUME Cells(pool, tuplespace, poolnum) PROVE Dump \in Seq(Key)
  <1> DEFINE W == {i \in Used : pool[tuplespace[i]].white /\ ~pool[tuplespace[i]].remove}
  <1>1. W \in SUBSET Int /\ W \in SUBSET Slot /\ W \in SUBSET Used
    BY SlotFacts DEF Used, Slot, Cells
  <1>2. IsFiniteSet(W) /\ Cardinality(W) \in Nat
    BY <1>1, SlotFacts
  <1> HIDE DEF W
  <1>3. ASSUME NEW n \in 1 .. Cardinality(W) PROVE KeyAt[Nth(W, n-1)] \in Key
    <2>1. n-1 \in 0 .. Cardinality(W) - 1
      BY <1>2
    <2>2. Nth(W, n-1) \in W
      BY <1>1, <1>2, <2>1, NthMember
    <2>3. Nth(W, n-1) \in Slot /\ Nth(W, n-1) \in 0 .. poolnum-1
      BY <1>1, <2>2 DEF Used
    <2> QED BY <2>3 DEF KeyAt, Cells, Named
  <1>4. [n \in 1 .. Cardinality(W) |-> KeyAt[Nth(W, n-1)]] \in Seq(Key)
    BY <1>2, <1>3
  <1>5. Dump = [n \in 1 .. Cardinality(W) |-> KeyAt[Nth(W, n-1)]]
    BY DEF Dump, W
  <1> QED BY <1>4, <1>5

(***************************************************************************)
(* A process that is gone has an empty tuple space.                        *)
(***************************************************************************)
Wiped == /\ pool' = [s \in Slot |-> Blank] /\ tuplespace' = Identity /\ poolnum' = 0
         /\ whitelisted' = 0 /\ low' = 0 /\ high' = 0

LEMMA WipedMemory ==
  ASSUME Wiped
  PROVE  /\ Cells(pool', tuplespace', poolnum') /\ WhitelistedCovers' /\ Sorted'
         /\ FlagsOnlyWhenUp' /\ MarksBracket'
         /\ pool' \in [Slot -> Record] /\ tuplespace' \in [Slot -> Slot]
  <1>1. pool' \in [Slot -> Record] /\ \A s \in Slot : ~pool'[s].remove
    BY BlankRecord DEF Wiped
  <1>2. Cells(pool', Identity, 0) /\ White(pool', Identity, 0) = {}
    BY <1>1, EmptyCells
  <1>3. Cells(pool', tuplespace', poolnum')
    BY <1>2 DEF Wiped
  <1>4. WhiteUsed' = {}
    BY <1>2, Viewed DEF Wiped
  <1>5. Cardinality({}) = 0
    BY FS_EmptySet
  <1>6. WhitelistedCovers'
    BY <1>4, <1>5 DEF WhitelistedCovers, Wiped
  <1>7. Sorted'
    BY DEF Sorted, StrictlySorted, Wiped
  <1>8. FlagsOnlyWhenUp' /\ MarksBracket'
    BY <1>1 DEF FlagsOnlyWhenUp, MarksBracket, Wiped
  <1>9. tuplespace' \in [Slot -> Slot]
    BY <1>3 DEF Cells
  <1> QED BY <1>1, <1>3, <1>6, <1>7, <1>8, <1>9

LEMMA EndStep ==
  ASSUME TypeOK, NEW why \in Ended, End(why)
  PROVE  IInv'
  <1>1. Wiped
    BY DEF End, Wiped
  <1>2. TypeOK'
    <2>1. 0 \in 0 .. PoolMax /\ <<>> \in Seq(Key) /\ 0 \in Int
      BY SlotFacts
    <2> QED BY <1>1, <2>1, WipedMemory DEF End, TypeOK
  <1> QED BY <1>1, <1>2, WipedMemory DEF IInv

LEMMA InitIInv == Init => IInv
  <1> SUFFICES ASSUME Init PROVE IInv
    OBVIOUS
  <1>1. pool \in [Slot -> Record] /\ \A s \in Slot : ~pool[s].remove
    BY BlankRecord DEF Init
  <1>2. Cells(pool, Identity, 0) /\ White(pool, Identity, 0) = {}
    BY <1>1, EmptyCells
  <1>3. Cells(pool, tuplespace, poolnum) /\ WhiteUsed = {}
    BY <1>2, Viewed DEF Init
  <1>4. WhitelistedCovers
    BY <1>3, FS_EmptySet DEF WhitelistedCovers, Init
  <1>5. Sorted /\ MarksBracket /\ FlagsOnlyWhenUp
    BY <1>1 DEF Sorted, StrictlySorted, Init, MarksBracket, FlagsOnlyWhenUp
  <1>6. TypeOK
    <2>0. PICK q \in Files : file = Whole(q) /\ todo = file.lines
      BY DEF Init
    <2>1. /\ 0 \in 0 .. PoolMax /\ 0 \in Time
          /\ file \in FileOf(Key) /\ todo \in Seq(Key)
      BY <2>0, SlotFacts, TimeAssumption, FilesAssumption, WholeFile DEF Time
    <2>2. tuplespace \in [Slot -> Slot]
      BY <1>3 DEF Cells
    <2> QED BY <1>1, <2>1, <2>2 DEF Init, TypeOK, Running
  <1> QED BY <1>3, <1>4, <1>5, <1>6 DEF IInv

-----------------------------------------------------------------------------
(***************************************************************************)
(* A tuple added where bisearch() says it belongs leaves the keys sorted.  *)
(***************************************************************************)
KeysOf(p, ts) == [i \in Slot |-> p[ts[i]].key]

LEMMA AddSorted ==
  ASSUME NEW p, NEW ts, NEW n, Cells(p, ts, n), n < PoolMax,
         NEW idx, NEW r \in Record, r.key \in Key,
         MissingAt(KeysOf(p, ts), n, r.key, idx), StrictlySorted(KeysOf(p, ts), n)
  PROVE  StrictlySorted(KeysOf([p EXCEPT ![ts[n]] = r], InsertAt(ts, n, idx, ts[n])), n + 1)
  <1> DEFINE q  == [p EXCEPT ![ts[n]] = r]
             us == InsertAt(ts, n, idx, ts[n])
             a  == KeysOf(p, ts)
             b  == InsertAt(a, n, idx, r.key)
             c  == KeysOf(q, us)
  <1>1. /\ n \in Nat /\ n \in 0 .. PoolMax-1 /\ n \in Slot /\ PoolMax \in Nat
        /\ Slot = 0 .. PoolMax-1 /\ p \in [Slot -> Record] /\ ts \in [Slot -> Slot]
        /\ Permutes(ts)
    BY SlotFacts DEF Cells, Slot
  <1>2. a \in [0 .. PoolMax-1 -> Int] /\ r.key \in Int
    <2>1. /\ \A k \in Key : k \in Int
          /\ NoKey \in Int
      BY KeyAssumption DEF NoKey
    <2>2. \A s \in Slot : p[s].key \in Key \cup {NoKey}
      BY <1>1 DEF Record
    <2>3. \A s \in Slot : p[s].key \in Int
      BY <2>1, <2>2
    <2>4. \A i \in 0 .. PoolMax-1 : p[ts[i]].key \in Int
      BY <1>1, <2>3
    <2> QED BY <1>1, <2>1, <2>4 DEF KeysOf
  <1>3. idx \in 0 .. n
    BY DEF MissingAt
  <1>4. StrictlySorted(b, n + 1)
    <2> HIDE DEF a
    <2>1. MissingAt(a, n, r.key, idx) /\ StrictlySorted(a, n)
      BY DEF a
    <2> QED BY <1>1, <1>2, <2>1, InsertSorts
  <1>5. ASSUME NEW j \in 0 .. n PROVE b[j] = c[j]
    <2>1. j \in Slot /\ j \in Int /\ idx \in Int
      BY <1>1, <1>3, <1>5 DEF Slot
    <2>2. us[j] = IF j = idx THEN ts[n] ELSE IF idx < j /\ j <= n THEN ts[j-1] ELSE ts[j]
      BY <1>1, <2>1 DEF InsertAt
    <2>3. b[j] = IF j = idx THEN r.key ELSE IF idx < j /\ j <= n THEN a[j-1] ELSE a[j]
      BY <2>1 DEF InsertAt, KeysOf
    <2>4. c[j] = q[us[j]].key
      BY <2>1 DEF KeysOf
    <2>5. q[ts[n]] = r
      BY <1>1
    <2>6. \A i \in Slot : i # n => q[ts[i]].key = a[i]
      BY <1>1 DEF Permutes, KeysOf
    <2> HIDE DEF q, us, a, b, c
    <2>7. CASE j = idx
      BY <2>2, <2>3, <2>4, <2>5, <2>7
    <2>8. CASE idx < j
      <3>1. j-1 \in Slot /\ j-1 # n /\ j <= n /\ j # idx
        BY <1>1, <1>3, <1>5, <2>1, <2>8
      <3> QED BY <2>2, <2>3, <2>4, <2>6, <2>8, <3>1
    <2>9. CASE j < idx
      <3>1. j # n /\ j # idx /\ ~(idx < j)
        BY <1>1, <1>3, <1>5, <2>1, <2>9
      <3> QED BY <2>1, <2>2, <2>3, <2>4, <2>6, <3>1
    <2> QED BY <2>1, <2>7, <2>8, <2>9
  <1> HIDE DEF b, c
  <1>6. StrictlySorted(c, n + 1)
    <2>1. (n + 1) - 1 = n
      BY <1>1
    <2> QED BY <1>4, <1>5, <2>1 DEF StrictlySorted
  <1> QED BY <1>6 DEF c

(***************************************************************************)
(* One AddTuple step from arrays that have the right shape.                *)
(***************************************************************************)
LEMMA AddStep ==
  ASSUME NEW p, NEW ts, NEW n, Cells(p, ts, n), n < PoolMax, high \in 0 .. PoolMax,
         NEW idx \in 0 .. n, NEW r \in Record, r.key \in Key,
         AddTuple(p, ts, n, idx, r)
  PROVE  /\ Cells(pool', tuplespace', poolnum') /\ poolnum' = n + 1
         /\ high' \in 0 .. PoolMax /\ n + 1 <= high'
         /\ Cardinality(WhiteUsed') <= Cardinality(White(p, ts, n)) + 1
         /\ ~r.white => Cardinality(WhiteUsed') <= Cardinality(White(p, ts, n))
         /\ MissingAt(KeysOf(p, ts), n, r.key, idx) /\ StrictlySorted(KeysOf(p, ts), n)
              => Sorted'
  <1>1. /\ pool' = [p EXCEPT ![ts[n]] = r]
        /\ tuplespace' = InsertAt(ts, n, idx, ts[n])
        /\ poolnum' = n + 1
        /\ high' = MaxOf(high, n + 1)
    BY DEF AddTuple
  <1>2. n \in Nat /\ PoolMax \in Nat /\ high \in Nat /\ n + 1 \in 0 .. PoolMax
    BY SlotFacts DEF Cells
  <1>3. high' \in 0 .. PoolMax /\ n + 1 <= high'
    BY <1>1, <1>2 DEF MaxOf
  <1>4. /\ Cells(pool', tuplespace', n + 1)
        /\ White(pool', tuplespace', n + 1) \subseteq White(p, ts, n) \cup {ts[n]}
        /\ ~r.white => White(pool', tuplespace', n + 1) \subseteq White(p, ts, n)
    BY <1>1, AddCells
  <1>5. /\ WhiteUsed' = White(pool', tuplespace', n + 1)
        /\ White(p, ts, n) \in SUBSET Slot
        /\ White(pool', tuplespace', n + 1) \in SUBSET Slot
    BY <1>1, <1>4, Viewed, WhiteFinite
  <1>6. /\ Cardinality(WhiteUsed') <= Cardinality(White(p, ts, n)) + 1
        /\ ~r.white => Cardinality(WhiteUsed') <= Cardinality(White(p, ts, n))
    BY <1>4, <1>5, CountGrows
  <1>7. ASSUME MissingAt(KeysOf(p, ts), n, r.key, idx), StrictlySorted(KeysOf(p, ts), n)
        PROVE  Sorted'
    <2>1. StrictlySorted(KeysOf(pool', tuplespace'), poolnum')
      BY <1>1, <1>7, AddSorted
    <2> QED BY <2>1 DEF Sorted, KeyAt, KeysOf
  <1> QED BY <1>1, <1>3, <1>4, <1>6, <1>7

(***************************************************************************)
(* Rewriting the record a lookup found.                                    *)
(***************************************************************************)
LEMMA RewriteStep ==
  ASSUME IInv, NEW k, NEW i \in Slot, FoundAt(KeyAt, poolnum, k, i),
         NEW r \in Record, r.key = pool[tuplespace[i]].key,
         pool' = [pool EXCEPT ![tuplespace[i]] = r],
         tuplespace' = tuplespace, poolnum' = poolnum
  PROVE  /\ Cells(pool', tuplespace', poolnum')
         /\ Debug => Sorted'
         /\ Cardinality(WhiteUsed) \in Nat /\ Cardinality(WhiteUsed') \in Nat
         /\ Cardinality(WhiteUsed') <= Cardinality(WhiteUsed) + 1
         /\ ~r.white \/ pool[tuplespace[i]].white
              => Cardinality(WhiteUsed') <= Cardinality(WhiteUsed)
  <1>1. i \in 0 .. poolnum-1 /\ Cells(pool, tuplespace, poolnum)
    BY DEF FoundAt, IInv
  <1>2. /\ Cells(pool', tuplespace, poolnum)
        /\ White(pool', tuplespace, poolnum)
             \subseteq White(pool, tuplespace, poolnum) \cup {tuplespace[i]}
        /\ ~r.white => White(pool', tuplespace, poolnum) \subseteq White(pool, tuplespace, poolnum)
        /\ SameNames(pool', pool, tuplespace)
    BY <1>1, UpdateCells
  <1>3. pool[tuplespace[i]].white => tuplespace[i] \in White(pool, tuplespace, poolnum)
    BY <1>1 DEF White, InUse
  <1>4. /\ WhiteUsed' \subseteq WhiteUsed \cup {tuplespace[i]}
        /\ ~r.white \/ pool[tuplespace[i]].white => WhiteUsed' \subseteq WhiteUsed
    BY <1>2, <1>3, Viewed
  <1>5. /\ WhiteUsed \in SUBSET Slot /\ WhiteUsed' \in SUBSET Slot
        /\ Cardinality(WhiteUsed) \in Nat /\ Cardinality(WhiteUsed') \in Nat
    BY <1>1, <1>2, WhiteFinite, Viewed
  <1>6. Debug => Sorted'
    <2>1. KeyAt' = KeyAt
      BY <1>2 DEF KeyAt, SameNames
    <2> QED BY <2>1 DEF IInv, Sorted
  <1> QED BY <1>2, <1>4, <1>5, <1>6, CountGrows

(***************************************************************************)
(* tuple_expire() leaves arrays of the right shape, and takes from         *)
(* g_whitelisted as many tuples as it frees.                               *)
(***************************************************************************)
LEMMA SweepStep ==
  ASSUME IInv
  PROVE  /\ Cardinality(Kept) \in 0 .. poolnum
         /\ Cells(Marked, Compacted, Cardinality(Kept))
         /\ Cardinality(WhiteExpired) \in Nat
         /\ whitelisted - Cardinality(WhiteExpired)
              >= Cardinality(White(Marked, Compacted, Cardinality(Kept)))
         /\ Cardinality(Kept) + Cardinality(Freed) \in poolnum .. PoolMax
         /\ Debug => StrictlySorted(KeysOf(Marked, Compacted), Cardinality(Kept))
  <1>1. Cells(pool, tuplespace, poolnum) /\ (Debug => StrictlySorted(KeyAt, poolnum))
    BY DEF IInv, Sorted
  <1>2. /\ Cardinality(Kept) \in 0 .. poolnum
        /\ Cells(Marked, Compacted, Cardinality(Kept))
        /\ InUse(Compacted, Cardinality(Kept)) = Live \ Freed
        /\ Cardinality(Kept) + Cardinality(Freed) \in poolnum .. PoolMax
        /\ Debug => StrictlySorted(KeysOf(Marked, Compacted), Cardinality(Kept))
    BY <1>1, SweepCells DEF KeysOf
  <1>3. /\ WhiteUsed \in SUBSET Slot /\ IsFiniteSet(WhiteUsed)
        /\ Live \in SUBSET Slot
    BY <1>1, WhiteFinite, Viewed
  <1>4. White(Marked, Compacted, Cardinality(Kept)) = WhiteUsed \ WhiteExpired
    <2>1. \A s \in Slot : Marked[s].white = pool[s].white
      BY <1>1, MarkedFacts
    <2> QED BY <1>2, <1>3, <2>1 DEF White, WhiteUsed, WhiteExpired
  <1>5. WhiteExpired \in SUBSET Slot /\ WhiteUsed \cap WhiteExpired = WhiteExpired
    BY <1>3 DEF WhiteExpired, WhiteUsed
  <1>6. /\ Cardinality(WhiteExpired) \in Nat /\ Cardinality(WhiteUsed) \in Nat
        /\ Cardinality(WhiteUsed \ WhiteExpired) = Cardinality(WhiteUsed) - Cardinality(WhiteExpired)
    <2>1. Cardinality(WhiteUsed \ WhiteExpired)
            = Cardinality(WhiteUsed) - Cardinality(WhiteUsed \cap WhiteExpired)
      BY <1>3, FS_Difference
    <2> QED BY <1>3, <1>5, <2>1, SlotFacts
  <1>7. whitelisted \in Int /\ whitelisted >= Cardinality(WhiteUsed)
    BY DEF IInv, TypeOK, WhitelistedCovers
  <1>8. whitelisted - Cardinality(WhiteExpired) >= Cardinality(WhiteUsed \ WhiteExpired)
    BY <1>6, <1>7
  <1> QED BY <1>2, <1>4, <1>6, <1>8

LEMMA CountType ==
  ASSUME NEW p, NEW ts, NEW n, Cells(p, ts, n)
  PROVE  Cardinality(White(p, ts, n)) \in Nat
  BY WhiteFinite

-----------------------------------------------------------------------------
(***************************************************************************)
(* The actions keep the invariant: loading.                                *)
(***************************************************************************)
LEMMA HeadAndTail ==
  ASSUME NEW S, NEW q \in Seq(S), q # <<>>
  PROVE  Head(q) \in S /\ Tail(q) \in Seq(S)
  OBVIOUS

LEMMA LoadKnownStep == IInv /\ LoadKnown => IInv'
  <1> SUFFICES ASSUME IInv, LoadKnown PROVE IInv'
    OBVIOUS
  <1>1. PICK i \in Slot :
          /\ FoundAt(KeyAt, poolnum, Line, i)
          /\ pool' = [pool EXCEPT ![tuplespace[i]] = [@ EXCEPT !.atime = now, !.white = TRUE]]
          /\ whitelisted' = IF pool[tuplespace[i]].white THEN whitelisted ELSE whitelisted + 1
    BY DEF LoadKnown
  <1>2. UNCHANGED <<tuplespace, poolnum, low, high, now, file, status, reply>> /\ todo' = Tail(todo)
    BY DEF LoadKnown, marks
  <1>3. TypeOK /\ status = "loading" /\ todo # <<>> /\ tuplespace[i] \in Slot
    BY <1>1 DEF IInv, TypeOK, LoadKnown
  <1> DEFINE r == [pool[tuplespace[i]] EXCEPT !.atime = now, !.white = TRUE]
  <1>4. r \in Record /\ r.key = pool[tuplespace[i]].key /\ r.white /\ r.remove = pool[tuplespace[i]].remove
    BY <1>3 DEF TypeOK, Record
  <1>5. pool' = [pool EXCEPT ![tuplespace[i]] = r]
    BY <1>1
  <1> HIDE DEF r
  <1>6. /\ Cells(pool', tuplespace', poolnum') /\ (Debug => Sorted')
        /\ Cardinality(WhiteUsed) \in Nat /\ Cardinality(WhiteUsed') \in Nat
        /\ Cardinality(WhiteUsed') <= Cardinality(WhiteUsed) + 1
        /\ pool[tuplespace[i]].white => Cardinality(WhiteUsed') <= Cardinality(WhiteUsed)
    BY <1>1, <1>2, <1>4, <1>5, RewriteStep
  <1>7. WhitelistedCovers'
    <2>1. whitelisted \in Int /\ whitelisted >= Cardinality(WhiteUsed)
      BY DEF IInv, TypeOK, WhitelistedCovers
    <2>2. CASE pool[tuplespace[i]].white
      BY <1>1, <1>6, <2>1, <2>2 DEF WhitelistedCovers
    <2>3. CASE ~pool[tuplespace[i]].white
      BY <1>1, <1>6, <2>1, <2>3 DEF WhitelistedCovers
    <2> QED BY <2>2, <2>3
  <1>8. TypeOK'
    <2>1. Tail(todo) \in Seq(Key)
      BY <1>3, HeadAndTail DEF TypeOK
    <2> QED BY <1>1, <1>2, <1>3, <1>6, <2>1 DEF TypeOK, Cells
  <1>9. FlagsOnlyWhenUp'
    <2>1. \A s \in Slot : ~pool[s].remove
      BY <1>3 DEF IInv, FlagsOnlyWhenUp
    <2>2. \A s \in Slot : pool'[s] = IF s = tuplespace[i] THEN r ELSE pool[s]
      BY <1>3, <1>5 DEF TypeOK
    <2>3. \A s \in Slot : ~pool'[s].remove
      BY <1>3, <1>4, <2>1, <2>2
    <2> QED BY <2>3 DEF FlagsOnlyWhenUp
  <1>10. MarksBracket'
    BY <1>2 DEF IInv, MarksBracket
  <1> QED BY <1>6, <1>7, <1>8, <1>9, <1>10 DEF IInv

(***************************************************************************)
(* A tuple is added while loading: no record is flagged, and stays so.     *)
(***************************************************************************)
LEMMA AddKeepsUnflagged ==
  ASSUME NEW p \in [Slot -> Record], NEW ts, NEW n, NEW idx, NEW r, ~r.remove,
         AddTuple(p, ts, n, idx, r), \A s \in Slot : ~p[s].remove
  PROVE  \A s \in Slot : ~pool'[s].remove
  BY DEF AddTuple

LEMMA LoadNewStep == IInv /\ LoadNew => IInv'
  <1> SUFFICES ASSUME IInv, LoadNew PROVE IInv'
    OBVIOUS
  <1>1. PICK i \in 0 .. poolnum :
          /\ MissingAt(KeyAt, poolnum, Line, i)
          /\ AddTuple(pool, tuplespace, poolnum, i, Fresh(Line, TRUE))
    BY DEF LoadNew
  <1>2. /\ TypeOK /\ status = "loading" /\ todo # <<>> /\ poolnum < PoolMax
        /\ UNCHANGED <<low, now, file, status, reply>> /\ todo' = Tail(todo)
        /\ whitelisted' = whitelisted + 1
    BY DEF IInv, LoadNew
  <1>3. Line \in Key /\ Tail(todo) \in Seq(Key)
    BY <1>2, HeadAndTail DEF TypeOK, Line
  <1>4. /\ Fresh(Line, TRUE) \in Record /\ Fresh(Line, TRUE).key = Line
        /\ Fresh(Line, TRUE).white /\ ~Fresh(Line, TRUE).remove
    BY <1>2, <1>3, FreshRecord DEF Fresh
  <1>5. /\ Cells(pool, tuplespace, poolnum) /\ high \in 0 .. PoolMax
        /\ KeyAt = KeysOf(pool, tuplespace)
    BY <1>2 DEF IInv, TypeOK, KeyAt, KeysOf
  <1>6. /\ Cells(pool', tuplespace', poolnum') /\ poolnum' = poolnum + 1
        /\ high' \in 0 .. PoolMax /\ poolnum + 1 <= high'
        /\ Cardinality(WhiteUsed') <= Cardinality(WhiteUsed) + 1
        /\ Debug => Sorted'
    BY <1>1, <1>2, <1>3, <1>4, <1>5, AddStep, Viewed DEF IInv, Sorted
  <1>7. Cardinality(WhiteUsed) \in Nat /\ Cardinality(WhiteUsed') \in Nat
    BY <1>5, <1>6, CountType, Viewed
  <1>8. WhitelistedCovers'
    BY <1>2, <1>6, <1>7 DEF IInv, TypeOK, WhitelistedCovers
  <1>9. TypeOK'
    BY <1>2, <1>3, <1>6 DEF TypeOK, Cells
  <1>10. FlagsOnlyWhenUp'
    <2>1. \A s \in Slot : ~pool[s].remove
      BY <1>2 DEF IInv, FlagsOnlyWhenUp
    <2>2. \A s \in Slot : ~pool'[s].remove
      BY <1>1, <1>2, <1>4, <2>1, AddKeepsUnflagged DEF TypeOK
    <2> QED BY <2>2 DEF FlagsOnlyWhenUp
  <1>11. MarksBracket'
    BY <1>2, <1>6 DEF IInv, TypeOK, MarksBracket
  <1> QED BY <1>6, <1>8, <1>9, <1>10, <1>11 DEF IInv

(***************************************************************************)
(* Starting over: the first tuple of an empty space.                       *)
(***************************************************************************)
LEMMA StartOverStep ==
  ASSUME IInv, \A s \in Slot : ~pool[s].remove, NEW r \in Record, r.key \in Key,
         AddTuple(pool, Identity, 0, 0, r)
  PROVE  /\ Cells(pool', tuplespace', poolnum') /\ poolnum' = 1
         /\ high' \in 0 .. PoolMax /\ 1 <= high'
         /\ Cardinality(WhiteUsed') \in Nat
         /\ Cardinality(WhiteUsed') <= IF r.white THEN 1 ELSE 0
         /\ Sorted'
  <1>1. /\ Cells(pool, Identity, 0) /\ White(pool, Identity, 0) = {}
        /\ 0 < PoolMax /\ high \in 0 .. PoolMax /\ 0 \in 0 .. 0
    BY EmptyCells, PoolAssumption DEF IInv, TypeOK
  <1>2. MissingAt(KeysOf(pool, Identity), 0, r.key, 0) /\ StrictlySorted(KeysOf(pool, Identity), 0)
    BY DEF MissingAt, StrictlySorted
  <1>3. /\ Cells(pool', tuplespace', poolnum') /\ poolnum' = 0 + 1
        /\ high' \in 0 .. PoolMax /\ 0 + 1 <= high'
        /\ Cardinality(WhiteUsed') <= Cardinality(White(pool, Identity, 0)) + 1
        /\ ~r.white => Cardinality(WhiteUsed') <= Cardinality(White(pool, Identity, 0))
        /\ Sorted'
    BY <1>1, <1>2, AddStep
  <1>4. Cardinality(White(pool, Identity, 0)) = 0
    BY <1>1, FS_EmptySet
  <1>5. Cardinality(WhiteUsed') \in Nat
    BY <1>3, CountType, Viewed
  <1> QED BY <1>3, <1>4, <1>5

LEMMA LoadFullStep == IInv /\ LoadFull => IInv'
  <1> SUFFICES ASSUME IInv, LoadFull PROVE IInv'
    OBVIOUS
  <1>1. CASE End("bad_index")
    BY <1>1, EndStep DEF IInv, Ended
  <1>2. CASE /\ AddTuple(pool, Identity, 0, 0, Fresh(Line, TRUE))
             /\ low' = 0 /\ whitelisted' = whitelisted + 1 /\ todo' = Tail(todo)
             /\ UNCHANGED <<now, file, status, reply>>
    <2>1. /\ TypeOK /\ status = "loading" /\ todo # <<>>
          /\ \A s \in Slot : ~pool[s].remove
      BY DEF IInv, FlagsOnlyWhenUp, LoadFull
    <2>2. Line \in Key /\ Tail(todo) \in Seq(Key)
      BY <2>1, HeadAndTail DEF TypeOK, Line
    <2>3. /\ Fresh(Line, TRUE) \in Record /\ Fresh(Line, TRUE).key \in Key
          /\ Fresh(Line, TRUE).white /\ ~Fresh(Line, TRUE).remove
      BY <2>1, <2>2, FreshRecord DEF Fresh
    <2>4. /\ Cells(pool', tuplespace', poolnum') /\ poolnum' = 1
          /\ high' \in 0 .. PoolMax /\ 1 <= high'
          /\ Cardinality(WhiteUsed') \in Nat /\ Cardinality(WhiteUsed') <= 1
          /\ Sorted'
      BY <1>2, <2>1, <2>3, StartOverStep
    <2>5. WhitelistedCovers'
      <3>1. whitelisted \in Int /\ whitelisted >= 0
        <4>1. Cardinality(WhiteUsed) \in Nat
          BY CountType, Viewed DEF IInv
        <4> QED BY <4>1 DEF IInv, TypeOK, WhitelistedCovers
      <3> QED BY <1>2, <2>4, <3>1 DEF WhitelistedCovers
    <2>6. TypeOK'
      BY <1>2, <2>1, <2>2, <2>4, SlotFacts DEF TypeOK, Cells
    <2>7. FlagsOnlyWhenUp'
      <3>1. \A s \in Slot : ~pool'[s].remove
        BY <1>2, <2>1, <2>3, AddKeepsUnflagged DEF TypeOK
      <3> QED BY <3>1 DEF FlagsOnlyWhenUp
    <2>8. MarksBracket'
      BY <1>2, <2>4 DEF MarksBracket
    <2> QED BY <2>4, <2>5, <2>6, <2>7, <2>8 DEF IInv
  <1> QED BY <1>1, <1>2 DEF LoadFull

LEMMA LoadDoneStep == IInv /\ LoadDone => IInv'
  <1> SUFFICES ASSUME IInv, LoadDone PROVE IInv'
    OBVIOUS
  <1>1. /\ low' = poolnum /\ high' = poolnum /\ status' = "up"
        /\ UNCHANGED <<pool, tuplespace, poolnum, whitelisted, now, file, todo, reply>>
    BY DEF LoadDone
  <1>2. TypeOK' /\ MarksBracket'
    BY <1>1 DEF IInv, TypeOK, MarksBracket, Running
  <1>3. Cells(pool', tuplespace', poolnum') /\ (Debug => Sorted') /\ WhitelistedCovers'
    BY <1>1 DEF IInv, Sorted, KeyAt, WhitelistedCovers, WhiteUsed, Live, Used
  <1>4. FlagsOnlyWhenUp'
    BY <1>1 DEF FlagsOnlyWhenUp
  <1> QED BY <1>2, <1>3, <1>4 DEF IInv

-----------------------------------------------------------------------------
(***************************************************************************)
(* The actions keep the invariant: requests, expiry and the rest.          *)
(***************************************************************************)
LEMMA RequestKnownStep ==
  ASSUME NEW k \in Key, NEW cmd \in Command
  PROVE  IInv /\ RequestKnown(k, cmd) => IInv'
  <1> SUFFICES ASSUME IInv, RequestKnown(k, cmd) PROVE IInv'
    OBVIOUS
  <1> DEFINE promote(s) == /\ ~pool[s].white
                           /\ cmd = "CMD_WHITELIST" \/ now - pool[s].ctime >= Embargo
  <1>1. PICK i \in Slot :
          /\ FoundAt(KeyAt, poolnum, k, i)
          /\ pool' = [pool EXCEPT ![tuplespace[i]] =
                        [pool[tuplespace[i]] EXCEPT
                           !.atime = now,
                           !.white = pool[tuplespace[i]].white \/ promote(tuplespace[i])]]
          /\ whitelisted' = IF promote(tuplespace[i]) THEN whitelisted + 1 ELSE whitelisted
          /\ reply' \in {"accept", "greylist"}
    BY DEF RequestKnown
  <1>2. UNCHANGED <<tuplespace, poolnum, low, high, now, file, todo, status>>
    BY DEF RequestKnown, marks
  <1>3. TypeOK /\ status = "up" /\ tuplespace[i] \in Slot
    BY <1>1 DEF IInv, TypeOK, RequestKnown
  <1> DEFINE old == pool[tuplespace[i]]
             r   == [old EXCEPT !.atime = now, !.white = old.white \/ promote(tuplespace[i])]
  <1>4. r \in Record /\ r.key = old.key /\ (r.white <=> old.white \/ promote(tuplespace[i]))
    <2>1. old \in Record /\ now \in Time
      BY <1>3 DEF TypeOK
    <2>2. (old.white \/ promote(tuplespace[i])) \in BOOLEAN
      OBVIOUS
    <2> HIDE DEF promote, old
    <2> QED BY <2>1, <2>2 DEF Record
  <1>5. pool' = [pool EXCEPT ![tuplespace[i]] = r]
    <2> HIDE DEF promote
    <2> QED BY <1>1, Zenon
  <1>6. promote(tuplespace[i]) => ~old.white
    OBVIOUS
  <1>7. whitelisted' = IF promote(tuplespace[i]) THEN whitelisted + 1 ELSE whitelisted
    BY <1>1
  <1> HIDE DEF r, promote
  <1>8. /\ Cells(pool', tuplespace', poolnum') /\ (Debug => Sorted')
        /\ Cardinality(WhiteUsed) \in Nat /\ Cardinality(WhiteUsed') \in Nat
        /\ Cardinality(WhiteUsed') <= Cardinality(WhiteUsed) + 1
        /\ ~r.white \/ old.white => Cardinality(WhiteUsed') <= Cardinality(WhiteUsed)
    BY <1>1, <1>2, <1>4, <1>5, RewriteStep
  <1>9. WhitelistedCovers'
    <2>1. whitelisted \in Int /\ whitelisted >= Cardinality(WhiteUsed)
      BY DEF IInv, TypeOK, WhitelistedCovers
    <2>2. CASE promote(tuplespace[i])
      BY <1>7, <1>8, <2>1, <2>2 DEF WhitelistedCovers
    <2>3. CASE ~promote(tuplespace[i])
      <3>1. ~r.white \/ old.white
        BY <1>4, <2>3
      <3> QED BY <1>7, <1>8, <2>1, <2>3, <3>1 DEF WhitelistedCovers
    <2> QED BY <2>2, <2>3
  <1>10. TypeOK'
    BY <1>1, <1>2, <1>3, <1>7, <1>8 DEF TypeOK, Cells
  <1>11. FlagsOnlyWhenUp' /\ MarksBracket'
    BY <1>2, <1>3 DEF IInv, FlagsOnlyWhenUp, MarksBracket
  <1> QED BY <1>8, <1>9, <1>10, <1>11 DEF IInv

(***************************************************************************)
(* The common tail: a record of either command covers its own tuple.       *)
(***************************************************************************)
LEMMA CountStep ==
  ASSUME TypeOK, NEW cmd \in Command, NEW n \in Int, CountAndReply(n, cmd),
         NEW c \in Nat, n >= c, NEW d \in Nat,
         d <= c + 1, ~(cmd = "CMD_WHITELIST") => d <= c
  PROVE  /\ whitelisted' \in Int /\ whitelisted' >= d
         /\ reply' \in {"none", "accept", "greylist"}
         /\ UNCHANGED <<now, file, todo, status>>
  <1>1. CASE cmd = "CMD_WHITELIST"
    BY <1>1 DEF CountAndReply
  <1>2. CASE cmd # "CMD_WHITELIST"
    BY <1>2 DEF CountAndReply
  <1> QED BY <1>1, <1>2

LEMMA RequestedRecord ==
  ASSUME TypeOK, NEW k \in Key, NEW cmd
  PROVE  LET r == Fresh(k, cmd = "CMD_WHITELIST")
         IN  /\ r \in Record /\ r.key = k /\ r.key \in Key
             /\ (r.white <=> cmd = "CMD_WHITELIST")
  <1>1. (cmd = "CMD_WHITELIST") \in BOOLEAN
    OBVIOUS
  <1> QED BY <1>1, FreshRecord

LEMMA RequestNewStep ==
  ASSUME NEW k \in Key, NEW cmd \in Command
  PROVE  IInv /\ RequestNew(k, cmd) => IInv'
  <1> SUFFICES ASSUME IInv, RequestNew(k, cmd) PROVE IInv'
    OBVIOUS
  <1> DEFINE r == Fresh(k, cmd = "CMD_WHITELIST")
  <1>1. PICK i \in 0 .. poolnum :
          MissingAt(KeyAt, poolnum, k, i) /\ AddTuple(pool, tuplespace, poolnum, i, r)
    BY DEF RequestNew
  <1>2. /\ TypeOK /\ status = "up" /\ poolnum < PoolMax /\ low' = low
        /\ CountAndReply(whitelisted, cmd)
    BY DEF IInv, RequestNew
  <1>3. /\ r \in Record /\ r.key = k /\ r.key \in Key /\ (r.white <=> cmd = "CMD_WHITELIST")
    BY <1>2, RequestedRecord
  <1> HIDE DEF r
  <1>4. /\ Cells(pool, tuplespace, poolnum) /\ high \in 0 .. PoolMax
        /\ KeyAt = KeysOf(pool, tuplespace)
    BY <1>2 DEF IInv, TypeOK, KeyAt, KeysOf
  <1>5. /\ Cells(pool', tuplespace', poolnum') /\ poolnum' = poolnum + 1
        /\ high' \in 0 .. PoolMax /\ poolnum + 1 <= high'
        /\ Cardinality(WhiteUsed') <= Cardinality(WhiteUsed) + 1
        /\ ~r.white => Cardinality(WhiteUsed') <= Cardinality(WhiteUsed)
        /\ Debug => Sorted'
    BY <1>1, <1>2, <1>3, <1>4, AddStep, Viewed DEF IInv, Sorted
  <1>6. /\ Cardinality(WhiteUsed) \in Nat /\ Cardinality(WhiteUsed') \in Nat
        /\ whitelisted \in Int /\ whitelisted >= Cardinality(WhiteUsed)
    BY <1>4, <1>5, CountType, Viewed DEF IInv, TypeOK, WhitelistedCovers
  <1>7. /\ whitelisted' \in Int /\ whitelisted' >= Cardinality(WhiteUsed')
        /\ reply' \in {"none", "accept", "greylist"}
        /\ UNCHANGED <<now, file, todo, status>>
    BY <1>2, <1>3, <1>5, <1>6, CountStep
  <1>8. TypeOK' /\ FlagsOnlyWhenUp'
    BY <1>2, <1>5, <1>7 DEF TypeOK, Cells, FlagsOnlyWhenUp
  <1>9. MarksBracket'
    BY <1>2, <1>5 DEF IInv, TypeOK, MarksBracket
  <1> QED BY <1>5, <1>7, <1>8, <1>9 DEF IInv, WhitelistedCovers

LEMMA RequestStartsOverStep ==
  ASSUME NEW k \in Key, NEW cmd \in Command
  PROVE  IInv /\ RequestStartsOver(k, cmd) => IInv'
  <1> SUFFICES ASSUME IInv, RequestStartsOver(k, cmd) PROVE IInv'
    OBVIOUS
  <1> DEFINE r == Fresh(k, cmd = "CMD_WHITELIST")
  <1>1. /\ TypeOK /\ status = "up" /\ Freed = {} /\ low' = 0
        /\ AddTuple(pool, Identity, 0, 0, r) /\ CountAndReply(whitelisted, cmd)
    BY DEF IInv, RequestStartsOver
  <1>2. /\ r \in Record /\ r.key = k /\ r.key \in Key /\ (r.white <=> cmd = "CMD_WHITELIST")
    BY <1>1, RequestedRecord
  <1> HIDE DEF r
  <1>3. \A s \in Slot : ~pool[s].remove
    BY <1>1, MarkedFacts DEF Freed, IInv
  <1>4. /\ Cells(pool', tuplespace', poolnum') /\ poolnum' = 1
        /\ high' \in 0 .. PoolMax /\ 1 <= high'
        /\ Cardinality(WhiteUsed') \in Nat
        /\ Cardinality(WhiteUsed') <= IF r.white THEN 1 ELSE 0
        /\ Sorted'
    BY <1>1, <1>2, <1>3, StartOverStep
  <1>5. whitelisted \in Int /\ whitelisted >= 0
    <2>1. Cardinality(WhiteUsed) \in Nat
      BY CountType, Viewed DEF IInv
    <2> QED BY <2>1 DEF IInv, TypeOK, WhitelistedCovers
  <1>6. /\ whitelisted' \in Int /\ whitelisted' >= Cardinality(WhiteUsed')
        /\ reply' \in {"none", "accept", "greylist"}
        /\ UNCHANGED <<now, file, todo, status>>
    <2>1. /\ 0 \in Nat /\ Cardinality(WhiteUsed') <= 0 + 1
          /\ ~(cmd = "CMD_WHITELIST") => Cardinality(WhiteUsed') <= 0
      BY <1>2, <1>4
    <2> QED BY <1>1, <1>4, <1>5, <2>1, CountStep
  <1>7. TypeOK' /\ FlagsOnlyWhenUp'
    BY <1>1, <1>4, <1>6, SlotFacts DEF TypeOK, Cells, FlagsOnlyWhenUp
  <1>8. MarksBracket'
    BY <1>1, <1>4 DEF MarksBracket
  <1> QED BY <1>4, <1>6, <1>7, <1>8 DEF IInv, WhitelistedCovers


(***************************************************************************)
(* With assertions the clean-up of a full pool never returns: every record *)
(* is kept or flagged, so the last one placed is in the last cell.         *)
(***************************************************************************)
LEMMA FullSweepFails ==
  ASSUME IInv, poolnum = PoolMax, Freed # {}
  PROVE  ~ExpireFits /\ Cardinality(Kept) < PoolMax
  <1>1. /\ Cardinality(Kept) \in 0 .. poolnum /\ PoolMax \in Nat
        /\ Cardinality(Kept) + Cardinality(Freed) \in poolnum .. PoolMax
    BY SweepStep, SlotFacts
  <1>2. Cardinality(Freed) \in Nat /\ Cardinality(Freed) # 0
    <2>1. Freed \in SUBSET Slot
      BY DEF Freed
    <2> QED BY <2>1, SlotFacts, FS_EmptySet
  <1> QED BY <1>1, <1>2 DEF ExpireFits

LEMMA RequestCleansHouseStep ==
  ASSUME NEW k \in Key, NEW cmd \in Command
  PROVE  IInv /\ RequestCleansHouse(k, cmd) => IInv'
  <1> SUFFICES ASSUME IInv, RequestCleansHouse(k, cmd) PROVE IInv'
    OBVIOUS
  <1> DEFINE n == Cardinality(Kept)
             r == Fresh(k, cmd = "CMD_WHITELIST")
  <1>1. /\ TypeOK /\ status = "up" /\ ~Debug /\ n < PoolMax
    BY FullSweepFails DEF IInv, RequestCleansHouse, ExpireOk
  <1>2. /\ n \in 0 .. poolnum /\ Cells(Marked, Compacted, n)
        /\ Cardinality(WhiteExpired) \in Nat
        /\ whitelisted - Cardinality(WhiteExpired) >= Cardinality(White(Marked, Compacted, n))
    BY SweepStep
  <1>3. /\ r \in Record /\ r.key = k /\ r.key \in Key /\ (r.white <=> cmd = "CMD_WHITELIST")
    BY <1>1, RequestedRecord
  <1>4. PICK idx \in Nat :
          \/ /\ idx <= n /\ AddTuple(Marked, Compacted, n, idx, r)
             /\ low' = MinOf(low, n)
             /\ CountAndReply(whitelisted - Cardinality(WhiteExpired), cmd)
          \/ End("bad_index")
    <2>1. PICK i \in 0 .. poolnum :
            LET idx == IF n = 0 THEN 0 ELSE i
            IN  \/ /\ idx <= n /\ AddTuple(Marked, Compacted, n, idx, r)
                   /\ low' = MinOf(low, n)
                   /\ CountAndReply(whitelisted - Cardinality(WhiteExpired), cmd)
                \/ idx > n /\ End("bad_index")
      BY DEF RequestCleansHouse
    <2>2. (IF n = 0 THEN 0 ELSE i) \in Nat
      BY <1>1 DEF TypeOK
    <2> QED BY <2>1, <2>2
  <1>5. CASE End("bad_index")
    BY <1>1, <1>5, EndStep DEF Ended
  <1>6. CASE /\ idx <= n /\ AddTuple(Marked, Compacted, n, idx, r)
             /\ low' = MinOf(low, n)
             /\ CountAndReply(whitelisted - Cardinality(WhiteExpired), cmd)
    <2> HIDE DEF n, r
    <2>1. n \in Nat /\ idx \in 0 .. n /\ high \in 0 .. PoolMax /\ low \in 0 .. PoolMax
      BY <1>1, <1>2, <1>6 DEF TypeOK
    <2>2. /\ Cells(pool', tuplespace', poolnum') /\ poolnum' = n + 1
          /\ high' \in 0 .. PoolMax /\ n + 1 <= high'
          /\ Cardinality(WhiteUsed') <= Cardinality(White(Marked, Compacted, n)) + 1
          /\ ~r.white => Cardinality(WhiteUsed') <= Cardinality(White(Marked, Compacted, n))
      BY <1>1, <1>2, <1>3, <1>6, <2>1, AddStep
    <2>3. /\ Cardinality(White(Marked, Compacted, n)) \in Nat
          /\ Cardinality(WhiteUsed') \in Nat
          /\ whitelisted - Cardinality(WhiteExpired) \in Int
      BY <1>1, <1>2, <2>2, CountType, Viewed DEF TypeOK
    <2>4. /\ whitelisted' \in Int /\ whitelisted' >= Cardinality(WhiteUsed')
          /\ reply' \in {"none", "accept", "greylist"}
          /\ UNCHANGED <<now, file, todo, status>>
      BY <1>1, <1>2, <1>3, <1>6, <2>2, <2>3, CountStep
    <2>5. low' \in 0 .. PoolMax /\ low' <= n
      BY <1>1, <1>6, <2>1, SlotFacts DEF MinOf
    <2>6. TypeOK' /\ FlagsOnlyWhenUp'
      BY <1>1, <2>2, <2>4, <2>5 DEF TypeOK, Cells, FlagsOnlyWhenUp
    <2>7. MarksBracket'
      BY <2>1, <2>2, <2>5, SlotFacts DEF MarksBracket
    <2> QED BY <1>1, <2>2, <2>4, <2>6, <2>7 DEF IInv, WhitelistedCovers
  <1> QED BY <1>4, <1>5, <1>6

LEMMA TupleRemoveStep ==
  ASSUME NEW k \in Key
  PROVE  IInv /\ TupleRemove(k) => IInv'
  <1> SUFFICES ASSUME IInv, TupleRemove(k) PROVE IInv'
    OBVIOUS
  <1>1. PICK i \in Slot :
          /\ FoundAt(KeyAt, poolnum, k, i)
          /\ pool' = [pool EXCEPT ![tuplespace[i]] = [@ EXCEPT !.remove = TRUE]]
    BY DEF TupleRemove
  <1>2. /\ UNCHANGED <<tuplespace, poolnum, whitelisted, low, high, now, file, todo, status>>
        /\ reply' = "none" /\ status = "up"
    BY DEF TupleRemove, marks
  <1>3. TypeOK /\ tuplespace[i] \in Slot
    BY <1>1 DEF IInv, TypeOK
  <1> DEFINE old == pool[tuplespace[i]]
             r   == [old EXCEPT !.remove = TRUE]
  <1>4. r \in Record /\ r.key = old.key /\ r.white = old.white
    BY <1>3 DEF TypeOK, Record
  <1>5. pool' = [pool EXCEPT ![tuplespace[i]] = r]
    BY <1>1
  <1> HIDE DEF r
  <1>6. /\ Cells(pool', tuplespace', poolnum') /\ (Debug => Sorted')
        /\ Cardinality(WhiteUsed) \in Nat /\ Cardinality(WhiteUsed') \in Nat
        /\ Cardinality(WhiteUsed') <= Cardinality(WhiteUsed)
    BY <1>1, <1>2, <1>4, <1>5, RewriteStep
  <1>7. WhitelistedCovers'
    BY <1>2, <1>6 DEF IInv, TypeOK, WhitelistedCovers
  <1>8. TypeOK' /\ FlagsOnlyWhenUp' /\ MarksBracket'
    BY <1>2, <1>3, <1>6 DEF IInv, TypeOK, Cells, FlagsOnlyWhenUp, MarksBracket
  <1> QED BY <1>6, <1>7, <1>8 DEF IInv

LEMMA ExpireStep == IInv /\ Expire => IInv'
  <1> SUFFICES ASSUME IInv, Expire PROVE IInv'
    OBVIOUS
  <1>1. CASE End("assert_expire")
    BY <1>1, EndStep DEF IInv, Ended
  <1>2. CASE /\ pool' = Marked /\ tuplespace' = Compacted /\ poolnum' = Cardinality(Kept)
             /\ whitelisted' = whitelisted - Cardinality(WhiteExpired)
             /\ low' = MinOf(low, Cardinality(Kept)) /\ high' = MaxOf(high, Cardinality(Kept))
             /\ reply' = "none" /\ UNCHANGED <<now, file, todo, status>>
    <2>1. /\ Cardinality(Kept) \in 0 .. poolnum
          /\ Cells(Marked, Compacted, Cardinality(Kept))
          /\ Cardinality(WhiteExpired) \in Nat
          /\ whitelisted - Cardinality(WhiteExpired)
               >= Cardinality(White(Marked, Compacted, Cardinality(Kept)))
          /\ Debug => StrictlySorted(KeysOf(Marked, Compacted), Cardinality(Kept))
      BY SweepStep
    <2>2. TypeOK /\ status = "up"
      BY DEF IInv, Expire
    <2>3. Cells(pool', tuplespace', poolnum')
      BY <1>2, <2>1
    <2>4. WhitelistedCovers'
      BY <1>2, <2>1, Viewed DEF WhitelistedCovers
    <2>5. Debug => Sorted'
      BY <1>2, <2>1 DEF Sorted, KeyAt, KeysOf
    <2>6. /\ low' \in 0 .. PoolMax /\ low' <= poolnum'
          /\ high' \in 0 .. PoolMax /\ poolnum' <= high'
      BY <1>2, <2>1, <2>2, SlotFacts DEF TypeOK, MinOf, MaxOf
    <2>7. TypeOK'
      BY <1>2, <2>1, <2>2, <2>3, <2>6 DEF TypeOK, Cells
    <2>8. MarksBracket' /\ FlagsOnlyWhenUp'
      BY <1>2, <2>2, <2>6 DEF MarksBracket, FlagsOnlyWhenUp
    <2> QED BY <2>3, <2>4, <2>5, <2>7, <2>8 DEF IInv
  <1> QED BY <1>1, <1>2 DEF Expire

LEMMA SaveStateStep == IInv /\ (SaveState \/ SaveCut) => IInv'
  <1> SUFFICES ASSUME IInv, SaveState \/ SaveCut PROVE IInv'
    OBVIOUS
  <1>1. /\ UNCHANGED <<pool, tuplespace, poolnum, whitelisted, low, high, now, todo, status>>
        /\ reply' = "none"
    BY DEF SaveState, SaveCut, memory
  <1>2. file' \in FileOf(Key)
    BY DumpType, WholeFile, CutFile DEF IInv, SaveState, SaveCut
  <1>3. TypeOK'
    BY <1>1, <1>2 DEF IInv, TypeOK
  <1> QED BY <1>1, <1>3 DEF IInv, MarksBracket, FlagsOnlyWhenUp, Sorted, KeyAt,
                            WhitelistedCovers, WhiteUsed, Live, Used

LEMMA TerminateStep == IInv /\ Terminate => IInv'
  <1> SUFFICES ASSUME IInv, Terminate PROVE IInv'
    OBVIOUS
  <1>1. /\ Wiped /\ todo' = <<>> /\ reply' = "none" /\ status' = "stopped"
        /\ (file' = file \/ file' = Whole(Dump)) /\ now' = now
    BY DEF Terminate, Wiped
  <1>2. file' \in FileOf(Key) /\ <<>> \in Seq(Key) /\ 0 \in 0 .. PoolMax
    BY <1>1, DumpType, WholeFile, SlotFacts DEF IInv, TypeOK
  <1>3. TypeOK'
    BY <1>1, <1>2, WipedMemory DEF IInv, TypeOK, Wiped, Ended
  <1> QED BY <1>1, <1>3, WipedMemory DEF IInv

LEMMA IdleStep == IInv /\ (Start \/ Tick \/ UNCHANGED vars) => IInv'
  <1> SUFFICES ASSUME IInv, Start \/ Tick \/ UNCHANGED vars PROVE IInv'
    OBVIOUS
  <1>1. /\ UNCHANGED <<pool, tuplespace, poolnum, whitelisted, low, high, file>>
        /\ status' # "up" => status # "up"
        /\ status' \in Running \cup Ended
        /\ todo' \in Seq(Key) /\ now' \in Time /\ reply' \in {"none", "accept", "greylist"}
    BY TimeAssumption, LinesOfFile DEF IInv, TypeOK, Start, Tick, vars, memory, Running, Ended, Time
  <1>2. TypeOK'
    BY <1>1 DEF IInv, TypeOK
  <1> QED BY <1>1, <1>2 DEF IInv, MarksBracket, FlagsOnlyWhenUp, Sorted, KeyAt,
                            WhitelistedCovers, WhiteUsed, Live, Used

LEMMA StepIInv == IInv /\ [Next]_vars => IInv'
  <1> SUFFICES ASSUME IInv, [Next]_vars PROVE IInv'
    OBVIOUS
  <1>1. CASE LoadKnown \/ LoadNew \/ LoadFull \/ LoadDone
    BY <1>1, LoadKnownStep, LoadNewStep, LoadFullStep, LoadDoneStep
  <1>2. ASSUME NEW k \in Key, NEW cmd \in Command,
               \/ RequestKnown(k, cmd) \/ RequestNew(k, cmd)
               \/ RequestStartsOver(k, cmd) \/ RequestCleansHouse(k, cmd)
        PROVE  IInv'
    BY <1>2, RequestKnownStep, RequestNewStep, RequestStartsOverStep, RequestCleansHouseStep
  <1>3. ASSUME NEW k \in Key, RequestAborts(k) PROVE IInv'
    BY <1>3, EndStep DEF RequestAborts, IInv, Ended
  <1>4. ASSUME NEW k \in Key, TupleRemove(k) PROVE IInv'
    BY <1>4, TupleRemoveStep
  <1>5. CASE Expire \/ SaveState \/ SaveCut \/ Terminate
    BY <1>5, ExpireStep, SaveStateStep, TerminateStep
  <1>6. CASE Crash
    BY <1>6, EndStep DEF Crash, IInv, Ended
  <1>7. CASE Start \/ Tick \/ UNCHANGED vars
    BY <1>7, IdleStep
  <1> QED BY <1>1, <1>2, <1>3, <1>4, <1>5, <1>6, <1>7 DEF Next

LEMMA Invariance == Spec => []IInv
  BY InitIInv, StepIInv, PTL DEF Spec
-----------------------------------------------------------------------------
(***************************************************************************)
(* The refinement.  m is the map of the tuples in the cells S of the pool  *)
(* p: it is determined by them, so two maps that represent the same cells  *)
(* are the same map.  With the keys sorted, MapOf() is such a map and has  *)
(* one entry for each tuple in use.                                        *)
(***************************************************************************)
Represents(m, p, S) ==
  /\ m = [k \in {p[s].key : s \in S} |-> m[k]]
  /\ \A s \in S : m[p[s].key] = AsTuple(p[s])

LEMMA SameMap ==
  ASSUME NEW m, NEW w, NEW p, NEW S, Represents(m, p, S), Represents(w, p, S)
  PROVE  m = w
  <1> DEFINE K == {p[s].key : s \in S}
  <1>1. \A k \in K : m[k] = w[k]
    BY DEF Represents
  <1>2. m = [k \in K |-> m[k]] /\ w = [k \in K |-> w[k]]
    BY DEF Represents
  <1> HIDE DEF K
  <1> QED BY <1>1, <1>2

LEMMA KeysDistinct ==
  ASSUME NEW p, NEW ts, NEW n, Cells(p, ts, n), StrictlySorted(KeysOf(p, ts), n)
  PROVE  /\ \A i, j \in 0 .. n-1 : p[ts[i]].key = p[ts[j]].key => i = j
         /\ \A i \in 0 .. n-1 : p[ts[i]].key \in Int /\ i \in Slot /\ KeysOf(p, ts)[i] = p[ts[i]].key
  <1>1. \A i \in 0 .. n-1 : i \in Slot
    BY SlotFacts DEF Cells, Slot
  <1>2. \A i \in 0 .. n-1 : KeysOf(p, ts)[i] = p[ts[i]].key /\ p[ts[i]].key \in Int
    <2>1. \A k \in Key : k \in Int
      BY KeyAssumption
    <2>2. \A i \in 0 .. n-1 : p[ts[i]].key \in Key
      BY DEF Cells, Named
    <2> QED BY <1>1, <2>1, <2>2 DEF KeysOf
  <1>3. ASSUME NEW i \in 0 .. n-1, NEW j \in 0 .. n-1, p[ts[i]].key = p[ts[j]].key
        PROVE  i = j
    <2>1. i \in Int /\ j \in Int
      OBVIOUS
    <2>2. ~(i < j) /\ ~(j < i)
      BY <1>2, <1>3 DEF StrictlySorted
    <2> QED BY <2>1, <2>2
  <1> QED BY <1>1, <1>2, <1>3

LEMMA MapRepresents ==
  ASSUME NEW p, NEW ts, NEW n, Cells(p, ts, n), StrictlySorted(KeysOf(p, ts), n)
  PROVE  Represents(MapOf(p, ts, n), p, InUse(ts, n))
  <1> DEFINE N == 0 .. n-1
             K == {p[ts[i]].key : i \in N}
             at(k) == CHOOSE i \in N : p[ts[i]].key = k
  <1>1. \A i, j \in N : p[ts[i]].key = p[ts[j]].key => i = j
    BY KeysDistinct
  <1>2. MapOf(p, ts, n) = [k \in K |-> AsTuple(p[ts[at(k)]])] /\ InUse(ts, n) = {ts[i] : i \in N}
    BY DEF MapOf, InUse
  <1> HIDE DEF N
  <1>3. K = {p[s].key : s \in InUse(ts, n)}
    BY <1>2
  <1>4. \A i \in N : at(p[ts[i]].key) = i
    BY <1>1
  <1>5. \A i \in N : p[ts[i]].key \in K
    OBVIOUS
  <1> HIDE DEF at, K
  <1>6. \A i \in N : MapOf(p, ts, n)[p[ts[i]].key] = AsTuple(p[ts[i]])
    BY <1>2, <1>4, <1>5
  <1>7. \A s \in InUse(ts, n) : MapOf(p, ts, n)[p[s].key] = AsTuple(p[s])
    BY <1>2, <1>6
  <1>8. MapOf(p, ts, n) = [k \in K |-> MapOf(p, ts, n)[k]]
    BY <1>2
  <1> QED BY <1>3, <1>7, <1>8 DEF Represents

LEMMA MapSize ==
  ASSUME NEW p, NEW ts, NEW n, Cells(p, ts, n), StrictlySorted(KeysOf(p, ts), n)
  PROVE  Cardinality(DOMAIN MapOf(p, ts, n)) = n
  <1> DEFINE N == 0 .. n-1
             K == {p[ts[i]].key : i \in N}
             f == [i \in N |-> p[ts[i]].key]
  <1>1. DOMAIN MapOf(p, ts, n) = K
    BY DEF MapOf
  <1>2. n \in Nat
    BY SlotFacts DEF Cells
  <1>3. IsFiniteSet(N) /\ Cardinality(N) = n
    <2>1. 0 \in Int /\ n-1 \in Int
      BY <1>2
    <2>2. IsFiniteSet(0 .. n-1) /\ Cardinality(0 .. n-1) = (IF 0 > n-1 THEN 0 ELSE (n-1) - 0 + 1)
      BY <2>1, FS_Interval
    <2> QED BY <1>2, <2>2
  <1>4. \A i, j \in N : f[i] = f[j] => i = j
    BY KeysDistinct
  <1>5. f \in [N -> K] /\ \A k \in K : \E i \in N : f[i] = k
    OBVIOUS
  <1> HIDE DEF N, K, f
  <1>6. f \in Surjection(N, K)
    BY <1>5 DEF Surjection
  <1>7. IsFiniteSet(K)
    BY <1>3, <1>6, FS_Surjection
  <1>8. f \in Injection(N, K)
    <2>1. IsInjective(f)
      BY <1>4, <1>5 DEF IsInjective
    <2> QED BY <1>5, <2>1 DEF Injection
  <1>9. Cardinality(N) = Cardinality(K)
    BY <1>3, <1>6, <1>8, FS_Surjection
  <1> QED BY <1>1, <1>3, <1>9

LEMMA UsedKeysDistinct ==
  ASSUME NEW p, NEW ts, NEW n, Cells(p, ts, n), StrictlySorted(KeysOf(p, ts), n)
  PROVE  \A s, t \in InUse(ts, n) : p[s].key = p[t].key => s = t
  BY KeysDistinct DEF InUse

(***************************************************************************)
(* The steps of the maps, as predicates: cell s of p rewritten, a pointer  *)
(* moved to cell idx, the entry of k replaced.                             *)
(***************************************************************************)
Rewrites(q, p, s, r) == q = [p EXCEPT ![s] = r]
Inserts(us, ts, n, idx) == us = InsertAt(ts, n, idx, ts[n])
Replaced(m, k, t) == [m EXCEPT ![k] = t]

(***************************************************************************)
(* A record rewritten under its own key replaces one entry of the map.     *)
(***************************************************************************)
LEMMA MapRewrite ==
  ASSUME NEW p, NEW ts, NEW n, Cells(p, ts, n), StrictlySorted(KeysOf(p, ts), n),
         NEW i \in 0 .. n-1, NEW r \in Record, r.key = p[ts[i]].key,
         NEW q, Rewrites(q, p, ts[i], r)
  PROVE  /\ MapOf(q, ts, n) = Replaced(MapOf(p, ts, n), r.key, AsTuple(r))
         /\ r.key \in DOMAIN MapOf(p, ts, n)
         /\ MapOf(p, ts, n)[r.key] = AsTuple(p[ts[i]])
  <1> DEFINE S == InUse(ts, n)
             K == {p[s].key : s \in S}
             m == MapOf(p, ts, n)
             w == [m EXCEPT ![r.key] = AsTuple(r)]
  <1>1. Represents(m, p, S)
    BY MapRepresents
  <1>2. Cells(q, ts, n) /\ SameNames(q, p, ts)
    BY UpdateCells DEF Rewrites
  <1>3. KeysOf(q, ts) = KeysOf(p, ts)
    BY <1>2 DEF SameNames, KeysOf
  <1>4. Represents(MapOf(q, ts, n), q, S)
    BY <1>2, <1>3, MapRepresents
  <1>5. ts[i] \in S /\ S \in SUBSET Slot /\ p \in [Slot -> Record]
    BY WhiteFinite DEF InUse, Cells
  <1>6. \A s \in S : q[s] = IF s = ts[i] THEN r ELSE p[s]
    BY <1>5 DEF Rewrites
  <1>7. \A s \in S : q[s].key = p[s].key
    BY <1>6
  <1>8. \A s \in S : p[s].key = r.key => s = ts[i]
    BY <1>5, UsedKeysDistinct
  <1>9. m = [k \in K |-> m[k]] /\ r.key \in K /\ m[r.key] = AsTuple(p[ts[i]])
    BY <1>1, <1>5 DEF Represents
  <1>10. K = {q[s].key : s \in S}
    BY <1>7
  <1> HIDE DEF m, S, K
  <1>11. w = [k \in K |-> IF k = r.key THEN AsTuple(r) ELSE m[k]]
    BY <1>9
  <1>12. \A s \in S : p[s].key \in K
    BY DEF K
  <1>13. \A s \in S : m[p[s].key] = AsTuple(p[s])
    BY <1>1 DEF Represents
  <1> HIDE DEF w
  <1>14. \A s \in S : w[q[s].key] = AsTuple(q[s])
    BY <1>6, <1>7, <1>8, <1>11, <1>12, <1>13
  <1>15. w = [k \in K |-> w[k]]
    BY <1>11
  <1>16. Represents(w, q, S)
    BY <1>10, <1>14, <1>15 DEF Represents
  <1>17. MapOf(q, ts, n) = w
    BY <1>4, <1>16, SameMap
  <1>18. r.key \in DOMAIN m
    BY <1>9
  <1> QED BY <1>9, <1>17, <1>18 DEF w, m, Replaced

(***************************************************************************)
(* A tuple added at a key that is missing is one more entry of the map.    *)
(***************************************************************************)
LEMMA MapAdd ==
  ASSUME NEW p, NEW ts, NEW n, Cells(p, ts, n), n < PoolMax,
         NEW idx, NEW r \in Record, r.key \in Key,
         MissingAt(KeysOf(p, ts), n, r.key, idx), StrictlySorted(KeysOf(p, ts), n),
         NEW q, Rewrites(q, p, ts[n], r),
         NEW us, Inserts(us, ts, n, idx), NEW c, c = n + 1
  PROVE  /\ MapOf(q, us, c) = Abstract!Put(MapOf(p, ts, n), r.key, AsTuple(r))
         /\ r.key \notin DOMAIN MapOf(p, ts, n)
  <1> DEFINE S  == InUse(ts, n)
             K  == {p[s].key : s \in S}
             m  == MapOf(p, ts, n)
             w  == Abstract!Put(m, r.key, AsTuple(r))
  <1>0. /\ idx \in 0 .. n
        /\ q = [p EXCEPT ![ts[n]] = r] /\ us = InsertAt(ts, n, idx, ts[n])
    BY DEF MissingAt, Rewrites, Inserts
  <1>1. Represents(m, p, S)
    BY MapRepresents
  <1>2. Cells(q, us, n + 1) /\ InUse(us, n + 1) = S \cup {ts[n]}
    BY <1>0, AddCells
  <1>3. StrictlySorted(KeysOf(q, us), n + 1)
    BY <1>0, AddSorted
  <1>4. Represents(MapOf(q, us, c), q, S \cup {ts[n]})
    BY <1>2, <1>3, MapRepresents
  <1>5. S \in SUBSET Slot /\ ts[n] \in Slot \ S /\ p \in [Slot -> Record]
    <2>1. n \in Slot /\ \A i \in 0 .. n-1 : i \in Slot /\ i # n
      BY SlotFacts DEF Cells, Slot
    <2>2. \A i \in 0 .. n-1 : ts[i] # ts[n]
      BY <2>1 DEF Cells, Permutes
    <2>3. ts[n] \notin S
      BY <2>2 DEF InUse
    <2> QED BY <2>1, <2>3, WhiteFinite DEF Cells
  <1>6. q[ts[n]] = r /\ \A s \in S : q[s] = p[s]
    BY <1>0, <1>5
  <1>7. r.key \notin K
    <2>1. \A i \in 0 .. n-1 : KeysOf(p, ts)[i] = p[ts[i]].key /\ p[ts[i]].key \in Int
      BY KeysDistinct
    <2>2. r.key \in Int /\ n \in Nat
      <3>1. \A k \in Key : k \in Int
        BY KeyAssumption
      <3> QED BY <3>1, SlotFacts DEF Cells
    <2>3. \A i \in 0 .. n-1 : p[ts[i]].key # r.key
      <3>1. \A i \in 0 .. n-1 : KeysOf(p, ts)[i] \in Int
        BY <2>1
      <3>2. \A i \in 0 .. n-1 : KeysOf(p, ts)[i] # r.key
        BY <2>2, <3>1, MissingMeansAbsent
      <3> QED BY <2>1, <3>2
    <2> QED BY <2>3 DEF InUse
  <1>8. m = [k \in K |-> m[k]] /\ \A s \in S : m[p[s].key] = AsTuple(p[s])
    BY <1>1 DEF Represents
  <1>9. K \cup {r.key} = {q[s].key : s \in S \cup {ts[n]}}
    BY <1>6
  <1>10. \A s \in S : p[s].key \in K
    OBVIOUS
  <1> HIDE DEF m, S, K
  <1>11. DOMAIN m = K
    BY <1>8
  <1>12. w = [k \in K \cup {r.key} |-> IF k = r.key THEN AsTuple(r) ELSE m[k]]
    BY <1>11 DEF Abstract!Put
  <1> HIDE DEF w
  <1>13. w[r.key] = AsTuple(r) /\ \A s \in S : w[p[s].key] = AsTuple(p[s])
    BY <1>7, <1>8, <1>10, <1>12
  <1>14. \A s \in S \cup {ts[n]} : w[q[s].key] = AsTuple(q[s])
    BY <1>6, <1>13
  <1>15. w = [k \in K \cup {r.key} |-> w[k]]
    BY <1>12
  <1>16. Represents(w, q, S \cup {ts[n]})
    BY <1>9, <1>14, <1>15 DEF Represents
  <1>17. MapOf(q, us, c) = w
    BY <1>4, <1>16, SameMap
  <1> QED BY <1>7, <1>11, <1>17 DEF w, m

(***************************************************************************)
(* Without cells in use the map is empty.                                  *)
(***************************************************************************)
LEMMA MapEmpty ==
  ASSUME NEW p, NEW ts
  PROVE  MapOf(p, ts, 0) = Abstract!NoTuple
  <1>1. {p[ts[i]].key : i \in 0 .. 0-1} = {}
    OBVIOUS
  <1> QED BY <1>1 DEF MapOf, Abstract!NoTuple

-----------------------------------------------------------------------------
(***************************************************************************)
(* The map of the current state.                                           *)
(***************************************************************************)
LEMMA LiveFacts ==
  ASSUME IInv, Debug
  PROVE  /\ Cells(pool, tuplespace, poolnum)
         /\ StrictlySorted(KeysOf(pool, tuplespace), poolnum)
         /\ KeyAt = KeysOf(pool, tuplespace)
         /\ Represents(Db, pool, Live) /\ Live \in SUBSET Slot
         /\ DOMAIN Db = {pool[s].key : s \in Live}
         /\ \A s, t \in Live : pool[s].key = pool[t].key => s = t
         /\ Cardinality(DOMAIN Db) = poolnum
  <1>1. Cells(pool, tuplespace, poolnum) /\ KeyAt = KeysOf(pool, tuplespace)
    BY DEF IInv, KeyAt, KeysOf
  <1>2. StrictlySorted(KeysOf(pool, tuplespace), poolnum)
    BY <1>1 DEF IInv, Sorted
  <1>3. Represents(Db, pool, Live)
    BY <1>1, <1>2, MapRepresents, Viewed DEF Db
  <1>4. DOMAIN Db = {pool[s].key : s \in Live}
    BY <1>3 DEF Represents
  <1>5. \A s, t \in Live : pool[s].key = pool[t].key => s = t
    BY <1>1, <1>2, UsedKeysDistinct, Viewed
  <1>6. Cardinality(DOMAIN Db) = poolnum
    BY <1>1, <1>2, MapSize DEF Db
  <1>7. Live \in SUBSET Slot
    BY <1>1, WhiteFinite, Viewed
  <1> QED BY <1>1, <1>2, <1>3, <1>4, <1>5, <1>6, <1>7

(***************************************************************************)
(* The sweep of the map keeps what tuple_expire() does not free.           *)
(***************************************************************************)
LEMMA AsTupleFacts ==
  ASSUME NEW r
  PROVE  /\ AsTuple(r).doomed = r.remove /\ AsTuple(r).white = r.white
         /\ AsTuple(r).atime = r.atime /\ AsTuple(r).ctime = r.ctime
         /\ Abstract!Stale(AsTuple(r)) = Stale(r)
  <1>1. /\ AsTuple(r).doomed = r.remove /\ AsTuple(r).white = r.white
        /\ AsTuple(r).atime = r.atime /\ AsTuple(r).ctime = r.ctime
    BY DEF AsTuple
  <1> QED BY <1>1 DEF Abstract!Stale, Stale

LEMMA SurvivorsRepresent ==
  ASSUME IInv, Debug
  PROVE  Represents(Abstract!Survivors, pool, Live \ Freed)
  <1> DEFINE D == {x \in DOMAIN Db : ~Db[x].doomed /\ ~Abstract!Stale(Db[x])}
             R == Live \ Freed
  <1>1. /\ \A s \in Live : Db[pool[s].key] = AsTuple(pool[s])
        /\ DOMAIN Db = {pool[s].key : s \in Live} /\ Live \in SUBSET Slot
        /\ \A s, t \in Live : pool[s].key = pool[t].key => s = t
    BY LiveFacts DEF Represents
  <1>2. \A s \in Live : s \in Freed <=> pool[s].remove \/ Stale(pool[s])
    <2> SUFFICES ASSUME NEW s \in Live PROVE s \in Freed <=> pool[s].remove \/ Stale(pool[s])
      OBVIOUS
    <2>1. s \in Slot /\ pool[s] \in Record
      BY <1>1 DEF IInv, TypeOK
    <2>2. [pool[s] EXCEPT !.remove = TRUE].remove
      BY <2>1 DEF Record
    <2>3. Marked[s].remove <=> pool[s].remove \/ Stale(pool[s])
      <3>1. CASE Stale(pool[s])
        <4>1. Marked[s] = [pool[s] EXCEPT !.remove = TRUE]
          BY <2>1, <3>1 DEF Marked
        <4> QED BY <2>2, <3>1, <4>1
      <3>2. CASE ~Stale(pool[s])
        <4>1. Marked[s] = pool[s]
          BY <2>1, <3>2 DEF Marked
        <4> QED BY <3>2, <4>1
      <3> QED BY <3>1, <3>2
    <2> QED BY <2>1, <2>3 DEF Freed
  <1>3. \A s \in Live : /\ Db[pool[s].key].doomed <=> pool[s].remove
                        /\ Abstract!Stale(Db[pool[s].key]) <=> Stale(pool[s])
    BY <1>1, AsTupleFacts
  <1>4. Abstract!Survivors = [k \in D |-> Db[k]]
    BY DEF Abstract!Survivors
  <1>5. D = {pool[s].key : s \in R}
    <2>1. \A s \in Live : pool[s].key \in D <=> s \in R
      BY <1>1, <1>2, <1>3
    <2>2. \A k \in D : \E s \in Live : pool[s].key = k
      BY <1>1
    <2> HIDE DEF D
    <2> QED BY <2>1, <2>2
  <1> HIDE DEF D
  <1>6. \A s \in R : Abstract!Survivors[pool[s].key] = AsTuple(pool[s])
    BY <1>1, <1>4, <1>5
  <1>7. Abstract!Survivors = [k \in D |-> Abstract!Survivors[k]]
    BY <1>4
  <1> QED BY <1>5, <1>6, <1>7 DEF Represents

LEMMA NoneFreed ==
  ASSUME IInv, Debug, Live \cap Freed = {}
  PROVE  Abstract!Survivors = Db
  <1>1. Live \ Freed = Live
    OBVIOUS
  <1>2. Represents(Abstract!Survivors, pool, Live)
    BY <1>1, SurvivorsRepresent
  <1> QED BY <1>2, LiveFacts, SameMap

(***************************************************************************)
(* tuple_expire() leaves the arrays of the surviving tuples.               *)
(***************************************************************************)
LEMMA MapSweep ==
  ASSUME IInv, Debug
  PROVE  MapOf(Marked, Compacted, Cardinality(Kept)) = Abstract!Survivors
  <1> DEFINE R == Live \ Freed
             m == MapOf(Marked, Compacted, Cardinality(Kept))
  <1>1. /\ Cells(Marked, Compacted, Cardinality(Kept))
        /\ StrictlySorted(KeysOf(Marked, Compacted), Cardinality(Kept))
    BY SweepStep
  <1>2. InUse(Compacted, Cardinality(Kept)) = R
    BY LiveFacts, SweepCells
  <1>3. Represents(m, Marked, R)
    BY <1>1, <1>2, MapRepresents
  <1>4. \A s \in R : Marked[s] = pool[s]
    BY LiveFacts DEF Freed, Marked, IInv, TypeOK, Record
  <1>5. {Marked[s].key : s \in R} = {pool[s].key : s \in R}
    BY <1>4
  <1>6. Represents(m, pool, R)
    BY <1>3, <1>4, <1>5 DEF Represents
  <1> QED BY <1>6, SurvivorsRepresent, SameMap

(***************************************************************************)
(* The room for one more tuple.                                            *)
(***************************************************************************)
LEMMA Room ==
  ASSUME IInv, Debug
  PROVE  /\ poolnum < PoolMax => Abstract!MadeRoom = Db
         /\ poolnum = PoolMax /\ Live \cap Freed = {} => Abstract!MadeRoom = Abstract!NoTuple
  <1>1. Abstract!Full <=> poolnum = PoolMax
    <2>1. Cardinality(DOMAIN Db) = poolnum
      BY LiveFacts
    <2>2. Abstract!Cardinality(DOMAIN Db) = Cardinality(DOMAIN Db)
      BY DEF Abstract!Cardinality, Cardinality
    <2> QED BY <2>1, <2>2 DEF Abstract!Full
  <1>2. poolnum < PoolMax => poolnum # PoolMax
    BY SlotFacts DEF IInv, TypeOK
  <1>3. Live \cap Freed = {} => Abstract!Survivors = Db
    BY NoneFreed
  <1> QED BY <1>1, <1>2, <1>3 DEF Abstract!MadeRoom

(***************************************************************************)
(* The steps of the code on the map: a tuple added, the space started      *)
(* over, a record rewritten.                                               *)
(***************************************************************************)
LEMMA AddRefines ==
  ASSUME IInv, Debug, poolnum < PoolMax, NEW idx, NEW r \in Record, r.key \in Key,
         MissingAt(KeyAt, poolnum, r.key, idx),
         AddTuple(pool, tuplespace, poolnum, idx, r)
  PROVE  /\ Db' = Abstract!Put(Abstract!MadeRoom, r.key, AsTuple(r))
         /\ r.key \notin DOMAIN Db
  <1>1. /\ Rewrites(pool', pool, tuplespace[poolnum], r)
        /\ Inserts(tuplespace', tuplespace, poolnum, idx)
        /\ poolnum' = poolnum + 1
    BY DEF AddTuple, Rewrites, Inserts
  <1>2. /\ MapOf(pool', tuplespace', poolnum') = Abstract!Put(Db, r.key, AsTuple(r))
        /\ r.key \notin DOMAIN Db
    <2>1. /\ Cells(pool, tuplespace, poolnum)
          /\ StrictlySorted(KeysOf(pool, tuplespace), poolnum)
          /\ MissingAt(KeysOf(pool, tuplespace), poolnum, r.key, idx)
      BY LiveFacts
    <2>2. /\ MapOf(pool', tuplespace', poolnum')
               = Abstract!Put(MapOf(pool, tuplespace, poolnum), r.key, AsTuple(r))
          /\ r.key \notin DOMAIN MapOf(pool, tuplespace, poolnum)
      BY <1>1, <2>1, MapAdd
    <2> QED BY <2>2 DEF Db
  <1>3. Db' = MapOf(pool', tuplespace', poolnum')
    BY DEF Db
  <1> QED BY <1>2, <1>3, Room

LEMMA StartOverRefines ==
  ASSUME IInv, Debug, poolnum = PoolMax, Freed = {} \/ Live \cap Freed = {},
         \A s \in Slot : ~pool[s].remove,
         NEW r \in Record, r.key \in Key,
         NEW idx, MissingAt(KeyAt, poolnum, r.key, idx),
         AddTuple(pool, Identity, 0, 0, r)
  PROVE  /\ Db' = Abstract!Put(Abstract!MadeRoom, r.key, AsTuple(r))
         /\ r.key \notin DOMAIN Db
  <1>1. /\ Rewrites(pool', pool, Identity[0], r)
        /\ Inserts(tuplespace', Identity, 0, 0)
        /\ poolnum' = 0 + 1
    BY DEF AddTuple, Rewrites, Inserts
  <1>2. Cells(pool, Identity, 0)
    BY EmptyCells DEF IInv, TypeOK
  <1>3. MissingAt(KeysOf(pool, Identity), 0, r.key, 0) /\ StrictlySorted(KeysOf(pool, Identity), 0)
    BY DEF MissingAt, StrictlySorted
  <1>4. MapOf(pool', tuplespace', poolnum') = Abstract!Put(MapOf(pool, Identity, 0), r.key, AsTuple(r))
    <2>1. 0 < PoolMax
      BY PoolAssumption
    <2> QED BY <1>1, <1>2, <1>3, <2>1, MapAdd
  <1>5. Db' = Abstract!Put(Abstract!NoTuple, r.key, AsTuple(r))
    BY <1>4, MapEmpty DEF Db
  <1>6. Abstract!MadeRoom = Abstract!NoTuple
    <2>1. Live \cap Freed = {}
      OBVIOUS
    <2> QED BY <2>1, Room
  <1>7. r.key \notin DOMAIN Db
    <2>1. \A i \in 0 .. poolnum-1 : KeyAt[i] = pool[tuplespace[i]].key /\ KeyAt[i] \in Int
      BY LiveFacts, KeysDistinct
    <2>2. r.key \in Int /\ poolnum \in Nat
      <3>1. \A k \in Key : k \in Int
        BY KeyAssumption
      <3> QED BY <3>1, SlotFacts DEF IInv, TypeOK
    <2>3. \A i \in 0 .. poolnum-1 : KeyAt[i] # r.key
      BY <2>1, <2>2, LiveFacts, MissingMeansAbsent
    <2> QED BY <2>1, <2>3, LiveFacts DEF Live, Used
  <1> QED BY <1>5, <1>6, <1>7

LEMMA RewriteRefines ==
  ASSUME IInv, Debug, NEW k, NEW i \in Slot, FoundAt(KeyAt, poolnum, k, i),
         NEW r \in Record, r.key = pool[tuplespace[i]].key,
         Rewrites(pool', pool, tuplespace[i], r),
         tuplespace' = tuplespace, poolnum' = poolnum
  PROVE  /\ Db' = Replaced(Db, k, AsTuple(r))
         /\ k \in DOMAIN Db /\ Db[k] = AsTuple(pool[tuplespace[i]]) /\ r.key = k
  <1>1. i \in 0 .. poolnum-1 /\ pool[tuplespace[i]].key = k
    BY DEF FoundAt, KeyAt
  <1>2. /\ MapOf(pool', tuplespace, poolnum) = Replaced(Db, k, AsTuple(r))
        /\ k \in DOMAIN Db /\ Db[k] = AsTuple(pool[tuplespace[i]])
    <2>1. Cells(pool, tuplespace, poolnum) /\ StrictlySorted(KeysOf(pool, tuplespace), poolnum)
      BY LiveFacts
    <2>2. /\ MapOf(pool', tuplespace, poolnum)
               = Replaced(MapOf(pool, tuplespace, poolnum), r.key, AsTuple(r))
          /\ r.key \in DOMAIN MapOf(pool, tuplespace, poolnum)
          /\ MapOf(pool, tuplespace, poolnum)[r.key] = AsTuple(pool[tuplespace[i]])
      <3>1. i \in 0 .. poolnum-1 /\ r \in Record /\ r.key = pool[tuplespace[i]].key
        BY <1>1
      <3> SUFFICES ASSUME NEW q, Rewrites(q, pool, tuplespace[i], r)
                   PROVE  /\ MapOf(q, tuplespace, poolnum)
                               = Replaced(MapOf(pool, tuplespace, poolnum), r.key, AsTuple(r))
                          /\ r.key \in DOMAIN MapOf(pool, tuplespace, poolnum)
                          /\ MapOf(pool, tuplespace, poolnum)[r.key] = AsTuple(pool[tuplespace[i]])
        OBVIOUS
      <3> QED BY <2>1, <3>1, MapRewrite
    <2> QED BY <1>1, <2>2 DEF Db
  <1>3. Db' = MapOf(pool', tuplespace, poolnum)
    BY DEF Db
  <1> QED BY <1>1, <1>2, <1>3
-----------------------------------------------------------------------------
(***************************************************************************)
(* The file as a set of keys.                                              *)
(***************************************************************************)
LEMMA ListedTail ==
  ASSUME NEW S, NEW q \in Seq(S), q # <<>>
  PROVE  /\ Head(q) \in Listed(q) /\ Listed(q) \subseteq S
         /\ Listed(Tail(q)) \in {Listed(q), Listed(q) \ {Head(q)}}
  <1>1. /\ Len(q) \in Nat /\ Len(q) >= 1 /\ Head(q) = q[1]
        /\ Len(Tail(q)) = Len(q) - 1
        /\ \A n \in 1 .. Len(q) - 1 : Tail(q)[n] = q[n+1]
        /\ \A n \in 1 .. Len(q) : q[n] \in S
    OBVIOUS
  <1>2. \A n \in 1 .. Len(q) : n # 1 => n - 1 \in 1 .. Len(q) - 1 /\ (n - 1) + 1 = n
    BY <1>1
  <1>3. \A n \in 1 .. Len(q) - 1 : n + 1 \in 1 .. Len(q)
    BY <1>1
  <1>4. Listed(q) = {Head(q)} \cup Listed(Tail(q))
    <2>1. ASSUME NEW x \in Listed(q) PROVE x = Head(q) \/ x \in Listed(Tail(q))
      <3>1. PICK n \in 1 .. Len(q) : x = q[n]
        BY DEF Listed
      <3>2. CASE n = 1
        BY <1>1, <3>1, <3>2
      <3>3. CASE n # 1
        <4>1. n - 1 \in 1 .. Len(Tail(q)) /\ x = Tail(q)[n - 1]
          BY <1>1, <1>2, <3>1, <3>3
        <4> QED BY <4>1 DEF Listed
      <3> QED BY <3>2, <3>3
    <2>2. ASSUME NEW x \in Listed(Tail(q)) PROVE x \in Listed(q)
      <3>1. PICK n \in 1 .. Len(q) - 1 : x = Tail(q)[n]
        BY <1>1 DEF Listed
      <3>2. x = q[n + 1] /\ n + 1 \in 1 .. Len(q)
        BY <1>1, <1>3, <3>1
      <3> QED BY <3>2 DEF Listed
    <2>3. Head(q) \in Listed(q)
      BY <1>1 DEF Listed
    <2> QED BY <2>1, <2>2, <2>3
  <1>5. Listed(q) \subseteq S
    BY <1>1 DEF Listed
  <1> QED BY <1>4, <1>5

LEMMA ListedEmpty == Listed(<<>>) = {}
  BY DEF Listed

LEMMA WorthyDumped ==
  ASSUME IInv, Debug
  PROVE  Listed(Dump) = Abstract!Worthy
  <1> DEFINE W == {i \in Used : pool[tuplespace[i]].white /\ ~pool[tuplespace[i]].remove}
  <1>1. W \in SUBSET Int /\ W \in SUBSET Slot /\ Used \in SUBSET Slot
    BY SlotFacts DEF Used, Slot, IInv, TypeOK
  <1>2. IsFiniteSet(W) /\ Cardinality(W) \in Nat
    BY <1>1, SlotFacts
  <1>3. Dump = [n \in 1 .. Cardinality(W) |-> KeyAt[Nth(W, n-1)]]
    BY DEF Dump
  <1>4. \A i \in Used : /\ KeyAt[i] = pool[tuplespace[i]].key /\ tuplespace[i] \in Live
                        /\ Db[KeyAt[i]] = AsTuple(pool[tuplespace[i]])
    BY <1>1, LiveFacts DEF KeyAt, Live, Represents
  <1>5. Abstract!Worthy = {KeyAt[i] : i \in W}
    <2>1. DOMAIN Db = {KeyAt[i] : i \in Used}
      BY <1>4, LiveFacts DEF Live
    <2>2. \A i \in Used : (Db[KeyAt[i]].white /\ ~Db[KeyAt[i]].doomed) <=> i \in W
      BY <1>4, AsTupleFacts
    <2>3. W \subseteq Used
      OBVIOUS
    <2> HIDE DEF W
    <2>4. ASSUME NEW k \in Abstract!Worthy PROVE \E i \in W : KeyAt[i] = k
      <3>1. k \in DOMAIN Db /\ Db[k].white /\ ~Db[k].doomed
        BY DEF Abstract!Worthy
      <3>2. PICK i \in Used : KeyAt[i] = k
        BY <2>1, <3>1
      <3> QED BY <2>2, <3>1, <3>2
    <2>5. ASSUME NEW i \in W PROVE KeyAt[i] \in Abstract!Worthy
      BY <2>1, <2>2, <2>3 DEF Abstract!Worthy
    <2> QED BY <2>4, <2>5
  <1> HIDE DEF W
  <1>6. Listed(Dump) = {KeyAt[Nth(W, n-1)] : n \in 1 .. Cardinality(W)}
    <2>1. Len(Dump) = Cardinality(W)
      BY <1>2, <1>3
    <2> QED BY <1>3, <2>1 DEF Listed
  <1>7. \A n \in 1 .. Cardinality(W) : Nth(W, n-1) \in W
    <2> SUFFICES ASSUME NEW n \in 1 .. Cardinality(W) PROVE Nth(W, n-1) \in W
      OBVIOUS
    <2>1. n-1 \in 0 .. Cardinality(W) - 1
      BY <1>2
    <2> QED BY <1>1, <1>2, <2>1, NthMember
  <1>8. \A i \in W : \E n \in 1 .. Cardinality(W) : Nth(W, n-1) = i
    <2> SUFFICES ASSUME NEW i \in W PROVE \E n \in 1 .. Cardinality(W) : Nth(W, n-1) = i
      OBVIOUS
    <2>1. Rank(W, i) \in 0 .. Cardinality(W) - 1 /\ Nth(W, Rank(W, i)) = i
      BY <1>1, <1>2, RankType, NthOfRank
    <2>2. Rank(W, i) + 1 \in 1 .. Cardinality(W) /\ (Rank(W, i) + 1) - 1 = Rank(W, i)
      BY <1>2, <2>1
    <2> QED BY <2>1, <2>2
  <1> QED BY <1>5, <1>6, <1>7, <1>8
-----------------------------------------------------------------------------
(***************************************************************************)
(* The simulation needs two more facts of the reachable states: a process  *)
(* that is gone holds no tuple, and while the whitelist is loaded every    *)
(* tuple carries the current time, so that a full pool has nothing stale   *)
(* and is given up.                                                        *)
(***************************************************************************)
NothingServed == status \in Ended => poolnum = 0
LoadedNow     == status = "loading" => \A s \in Live : pool[s].atime = now

RInv == IInv /\ NothingServed /\ LoadedNow

LEMMA StatusFacts ==
  /\ "loading" \notin Ended /\ "up" \notin Ended
  /\ Running \cap Ended = {} /\ "loading" \in Running /\ "up" \in Running
  /\ \A x \in Ended : x # "loading" /\ x # "up"
  BY DEF Running, Ended

LEMMA AddedNow ==
  ASSUME NEW p, NEW ts, NEW n, Cells(p, ts, n), n < PoolMax, NEW idx \in 0 .. n,
         NEW r \in Record, r.key \in Key, r.atime = now, AddTuple(p, ts, n, idx, r),
         \A s \in InUse(ts, n) : p[s].atime = now
  PROVE  \A s \in Live' : pool'[s].atime = now
  <1>1. /\ pool' = [p EXCEPT ![ts[n]] = r]
        /\ tuplespace' = InsertAt(ts, n, idx, ts[n]) /\ poolnum' = n + 1
    BY DEF AddTuple
  <1>2. InUse(tuplespace', n + 1) = InUse(ts, n) \cup {ts[n]}
    BY <1>1, AddCells
  <1>3. Live' = InUse(ts, n) \cup {ts[n]}
    BY <1>1, <1>2, Viewed
  <1>4. InUse(ts, n) \in SUBSET Slot /\ ts[n] \in Slot /\ p \in [Slot -> Record]
    <2>1. n \in Slot
      BY SlotFacts DEF Cells, Slot
    <2> QED BY <2>1, WhiteFinite DEF Cells
  <1>5. \A s \in Slot : pool'[s] = IF s = ts[n] THEN r ELSE p[s]
    BY <1>1, <1>4
  <1> QED BY <1>3, <1>4, <1>5

LEMMA InitRInv == Init => RInv
  <1> SUFFICES ASSUME Init PROVE RInv
    OBVIOUS
  <1>1. IInv /\ poolnum = 0
    BY InitIInv DEF Init
  <1>2. Live = {}
    BY <1>1 DEF Live, Used
  <1> QED BY <1>1, <1>2 DEF RInv, NothingServed, LoadedNow

LEMMA StepRInv == RInv /\ [Next]_vars => RInv'
  <1> SUFFICES ASSUME RInv, [Next]_vars PROVE RInv'
    OBVIOUS
  <1>1. IInv /\ IInv'
    BY StepIInv DEF RInv
  <1> SUFFICES NothingServed' /\ LoadedNow'
    BY <1>1 DEF RInv
  <1>2. ASSUME NEW why \in Ended, End(why) PROVE NothingServed' /\ LoadedNow'
    BY <1>2, StatusFacts DEF End, NothingServed, LoadedNow
  <1>3. ASSUME status' = "up" PROVE NothingServed' /\ LoadedNow'
    BY <1>3, StatusFacts DEF NothingServed, LoadedNow
  <1>4. CASE LoadKnown
    <2>1. PICK i \in Slot : 
            /\ FoundAt(KeyAt, poolnum, Line, i)
            /\ pool' = [pool EXCEPT ![tuplespace[i]] = [@ EXCEPT !.atime = now, !.white = TRUE]]
      BY <1>4 DEF LoadKnown
    <2>2. /\ status = "loading" /\ status' = status /\ now' = now
          /\ tuplespace' = tuplespace /\ poolnum' = poolnum
      BY <1>4 DEF LoadKnown
    <2>3. pool \in [Slot -> Record] /\ tuplespace[i] \in Slot
      BY <1>1 DEF IInv, TypeOK
    <2>4. Live' = Live /\ Live \in SUBSET Slot
      BY <1>1, <2>2, WhiteFinite, Viewed DEF IInv
    <2>5. \A s \in Live : pool'[s].atime = now
      <3>1. \A s \in Live : pool[s].atime = now
        BY <2>2 DEF RInv, LoadedNow
      <3>2. [pool[tuplespace[i]] EXCEPT !.atime = now, !.white = TRUE].atime = now
        BY <2>3 DEF Record
      <3>3. \A s \in Slot : s # tuplespace[i] => pool'[s] = pool[s]
        BY <2>1, <2>3
      <3>4. pool'[tuplespace[i]].atime = now
        BY <2>1, <2>3, <3>2
      <3> QED BY <2>4, <3>1, <3>3, <3>4
    <2> QED BY <2>2, <2>4, <2>5, StatusFacts DEF NothingServed, LoadedNow
  <1>5. CASE LoadNew
    <2>1. PICK i \in 0 .. poolnum : AddTuple(pool, tuplespace, poolnum, i, Fresh(Line, TRUE))
      BY <1>5 DEF LoadNew
    <2>2. /\ status = "loading" /\ status' = status /\ now' = now
          /\ todo # <<>> /\ poolnum < PoolMax
      BY <1>5 DEF LoadNew
    <2>3. /\ Fresh(Line, TRUE) \in Record /\ Fresh(Line, TRUE).key \in Key
          /\ Fresh(Line, TRUE).atime = now
      <3>1. Line \in Key
        BY <1>1, <2>2, HeadAndTail DEF IInv, TypeOK, Line
      <3> QED BY <1>1, <3>1, FreshRecord DEF IInv, Fresh
    <2>4. Cells(pool, tuplespace, poolnum) /\ \A s \in InUse(tuplespace, poolnum) : pool[s].atime = now
      BY <2>2, Viewed DEF RInv, IInv, LoadedNow
    <2>5. \A s \in Live' : pool'[s].atime = now
      BY <2>1, <2>2, <2>3, <2>4, AddedNow
    <2> QED BY <2>2, <2>5, StatusFacts DEF NothingServed, LoadedNow
  <1>6. CASE LoadFull
    <2>1. CASE End("bad_index")
      BY <1>2, <2>1 DEF Ended
    <2>2. CASE AddTuple(pool, Identity, 0, 0, Fresh(Line, TRUE)) /\ UNCHANGED <<now, file, status, reply>>
      <3>1. /\ status = "loading" /\ status' = status /\ now' = now
            /\ todo # <<>>
        BY <1>6, <2>2 DEF LoadFull
      <3>2. /\ Fresh(Line, TRUE) \in Record /\ Fresh(Line, TRUE).key \in Key
            /\ Fresh(Line, TRUE).atime = now
        <4>1. Line \in Key
          BY <1>1, <3>1, HeadAndTail DEF IInv, TypeOK, Line
        <4> QED BY <1>1, <4>1, FreshRecord DEF IInv, Fresh
      <3>3. Cells(pool, Identity, 0)
        BY <1>1, <3>1, EmptyCells DEF IInv, TypeOK, FlagsOnlyWhenUp
      <3>4. 0 < PoolMax /\ 0 \in 0 .. 0 /\ InUse(Identity, 0) = {}
        BY PoolAssumption DEF InUse
      <3>5. \A s \in Live' : pool'[s].atime = now
        BY <2>2, <3>2, <3>3, <3>4, AddedNow
      <3> QED BY <3>1, <3>5, StatusFacts DEF NothingServed, LoadedNow
    <2> QED BY <1>6, <2>1, <2>2 DEF LoadFull
  <1>7. CASE LoadDone
    BY <1>3, <1>7 DEF LoadDone
  <1>8. ASSUME NEW k \in Key, NEW cmd \in Command,
               \/ RequestKnown(k, cmd) \/ RequestNew(k, cmd)
               \/ RequestStartsOver(k, cmd) \/ RequestCleansHouse(k, cmd)
        PROVE  NothingServed' /\ LoadedNow'
    <2>1. status' = "up" \/ End("bad_index")
      BY <1>8 DEF RequestKnown, RequestNew, RequestStartsOver, RequestCleansHouse, CountAndReply
    <2> QED BY <1>2, <1>3, <2>1 DEF Ended
  <1>9. ASSUME NEW k \in Key, RequestAborts(k) PROVE NothingServed' /\ LoadedNow'
    BY <1>2, <1>9 DEF RequestAborts, Ended
  <1>10. ASSUME NEW k \in Key, TupleRemove(k) PROVE NothingServed' /\ LoadedNow'
    BY <1>3, <1>10 DEF TupleRemove
  <1>11. CASE Expire \/ SaveState \/ SaveCut \/ Tick
    <2>1. status' = "up" \/ End("assert_expire")
      BY <1>11 DEF Expire, SaveState, SaveCut, Tick
    <2> QED BY <1>2, <1>3, <2>1 DEF Ended
  <1>12. CASE Terminate
    BY <1>12, StatusFacts DEF Terminate, NothingServed, LoadedNow
  <1>13. CASE Crash
    BY <1>2, <1>13 DEF Crash, Ended
  <1>14. CASE Start
    <2>1. poolnum' = 0 /\ status' = "loading"
      BY <1>14 DEF Start, memory, RInv, NothingServed
    <2>2. Live' = {}
      BY <2>1 DEF Live, Used
    <2> QED BY <2>1, <2>2, StatusFacts DEF NothingServed, LoadedNow
  <1>15. CASE UNCHANGED vars
    BY <1>15 DEF vars, RInv, NothingServed, LoadedNow, Live, Used
  <1> QED BY <1>4, <1>5, <1>6, <1>7, <1>8, <1>9, <1>10, <1>11, <1>12, <1>13, <1>14, <1>15 DEF Next
-----------------------------------------------------------------------------
(***************************************************************************)
(* One step of the code is one step of Greylisting.tla, or none.           *)
(***************************************************************************)
Simulates == Abstract!Next \/ UNCHANGED Abstract!vars

LEMMA ServingFacts ==
  /\ status = "loading" => Serving = "loading"
  /\ status = "up" => Serving = "up"
  /\ status \in Ended => Serving = "down"
  /\ status' = "loading" => Serving' = "loading"
  /\ status' = "up" => Serving' = "up"
  /\ status' \in Ended => Serving' = "down"
  /\ status' = status => Serving' = Serving
  BY StatusFacts DEF Serving

LEMMA SameDb ==
  ASSUME pool' = pool, tuplespace' = tuplespace, poolnum' = poolnum
  PROVE  Db' = Db
  BY DEF Db

LEMMA EmptyDb ==
  ASSUME poolnum' = 0
  PROVE  Db' = Abstract!NoTuple
  <1>1. Db' = MapOf(pool', tuplespace', poolnum')
    BY DEF Db
  <1>2. MapOf(pool', tuplespace', 0) = Abstract!NoTuple
    BY MapEmpty
  <1> QED BY <1>1, <1>2

Touched(t, a, w) == [t EXCEPT !.atime = a, !.white = w]
Flagged(r)       == [r EXCEPT !.remove = TRUE]
Doomed(t)        == [t EXCEPT !.doomed = TRUE]

(***************************************************************************)
(* A record rewritten and seen as a tuple is the tuple rewritten.          *)
(***************************************************************************)
Fields == {"ctime", "atime", "white", "doomed"}

LEMMA SameFields ==
  ASSUME NEW u, NEW v, u = [f \in Fields |-> u[f]], v = [f \in Fields |-> v[f]],
         u.ctime = v.ctime, u.atime = v.atime, u.white = v.white, u.doomed = v.doomed
  PROVE  u = v
  <1>1. \A f \in Fields : u[f] = v[f]
    BY DEF Fields
  <1> HIDE DEF Fields
  <1> QED BY <1>1

LEMMA TupleFields ==
  ASSUME NEW r, NEW u, u = AsTuple(r)
  PROVE  /\ u = [f \in Fields |-> u[f]]
         /\ u.ctime = r.ctime /\ u.atime = r.atime /\ u.white = r.white /\ u.doomed = r.remove
  BY DEF AsTuple, Fields

LEMMA TouchedFields ==
  ASSUME NEW r, NEW a, NEW w, NEW u, u = Touched(AsTuple(r), a, w)
  PROVE  /\ u = [f \in Fields |-> u[f]]
         /\ u.ctime = r.ctime /\ u.atime = a /\ u.white = w /\ u.doomed = r.remove
  BY DEF Touched, AsTuple, Fields

LEMMA DoomedFields ==
  ASSUME NEW r, NEW u, u = Doomed(AsTuple(r))
  PROVE  /\ u = [f \in Fields |-> u[f]]
         /\ u.ctime = r.ctime /\ u.atime = r.atime /\ u.white = r.white /\ u.doomed = TRUE
  BY DEF Doomed, AsTuple, Fields

LEMMA RewrittenTuple ==
  ASSUME NEW r \in Record, NEW a, NEW w
  PROVE  /\ AsTuple(Touched(r, a, w)) = Touched(AsTuple(r), a, w)
         /\ AsTuple(Flagged(r)) = Doomed(AsTuple(r))
  <1>1. /\ Touched(r, a, w).ctime = r.ctime /\ Touched(r, a, w).atime = a
        /\ Touched(r, a, w).white = w /\ Touched(r, a, w).remove = r.remove
    BY DEF Touched, Record
  <1>2. /\ Flagged(r).ctime = r.ctime /\ Flagged(r).atime = r.atime
        /\ Flagged(r).white = r.white /\ Flagged(r).remove = TRUE
    BY DEF Flagged, Record
  <1>3. AsTuple(Touched(r, a, w)) = Touched(AsTuple(r), a, w)
    BY <1>1, TupleFields, TouchedFields, SameFields
  <1>4. AsTuple(Flagged(r)) = Doomed(AsTuple(r))
    <2>1. /\ AsTuple(Flagged(r)) = [f \in Fields |-> AsTuple(Flagged(r))[f]]
          /\ Doomed(AsTuple(r)) = [f \in Fields |-> Doomed(AsTuple(r))[f]]
      BY TupleFields, DoomedFields
    <2>2. /\ AsTuple(Flagged(r)).ctime = Doomed(AsTuple(r)).ctime
          /\ AsTuple(Flagged(r)).atime = Doomed(AsTuple(r)).atime
          /\ AsTuple(Flagged(r)).white = Doomed(AsTuple(r)).white
      BY <1>2, TupleFields, DoomedFields
    <2>3. AsTuple(Flagged(r)).doomed = Doomed(AsTuple(r)).doomed
      BY <1>2, TupleFields, DoomedFields
    <2> QED BY <2>1, <2>2, <2>3, SameFields
  <1> QED BY <1>3, <1>4

LEMMA FreshTuple ==
  ASSUME NEW k, NEW w
  PROVE  /\ AsTuple(Fresh(k, w)) = [ctime |-> now, atime |-> now, white |-> w, doomed |-> FALSE]
         /\ Fresh(k, w).key = k
  BY DEF AsTuple, Fresh

(***************************************************************************)
(* Every way a process ends is the abstract Stop.                          *)
(***************************************************************************)
LEMMA EndSimulates ==
  ASSUME status \in Running, NEW why \in Ended, End(why)
  PROVE  Simulates
  <1>1. /\ poolnum' = 0 /\ todo' = <<>> /\ reply' = "none" /\ status' = why
        /\ now' = now /\ file' = file
    BY DEF End
  <1>2. Db' = Abstract!NoTuple
    BY <1>1, EmptyDb
  <1>3. Listed(todo)' = {} /\ OnDisk' = OnDisk
    BY <1>1, ListedEmpty DEF Listed, OnDisk
  <1>4. Serving # "down" /\ Serving' = "down"
    BY <1>1, ServingFacts DEF Running
  <1>5. Abstract!Stop
    BY <1>1, <1>2, <1>3, <1>4 DEF Abstract!Stop
  <1> QED BY <1>5 DEF Simulates, Abstract!Next

(***************************************************************************)
(* Loading.                                                                *)
(***************************************************************************)
LEMMA LoadKnownSimulates ==
  ASSUME RInv, Debug, LoadKnown
  PROVE  Simulates
  <1>1. PICK i \in Slot :
          /\ FoundAt(KeyAt, poolnum, Line, i)
          /\ pool' = [pool EXCEPT ![tuplespace[i]] = [@ EXCEPT !.atime = now, !.white = TRUE]]
    BY DEF LoadKnown
  <1>2. /\ status = "loading" /\ todo # <<>> /\ todo' = Tail(todo)
        /\ UNCHANGED <<tuplespace, poolnum, now, file, status, reply>>
    BY DEF LoadKnown
  <1>3. IInv /\ pool[tuplespace[i]] \in Record /\ now \in Time /\ todo \in Seq(Key)
    BY <1>1 DEF RInv, IInv, TypeOK
  <1> DEFINE old == pool[tuplespace[i]]
             r   == Touched(old, now, TRUE)
  <1>4. r \in Record /\ r.key = old.key
    BY <1>3 DEF Record, Touched
  <1>5. Rewrites(pool', pool, tuplespace[i], r)
    BY <1>1 DEF Touched, Rewrites
  <1>6. AsTuple(r) = Touched(AsTuple(old), now, TRUE)
    BY <1>3, RewrittenTuple
  <1> HIDE DEF r
  <1>7. /\ Db' = Replaced(Db, Line, AsTuple(r))
        /\ Line \in DOMAIN Db /\ Db[Line] = AsTuple(old)
    BY <1>1, <1>2, <1>3, <1>4, <1>5, RewriteRefines
  <1>8. Db' = Replaced(Db, Line, Touched(Db[Line], now, TRUE))
    BY <1>6, <1>7
  <1>9. /\ Line \in Key /\ Line \in Listed(todo)
        /\ Listed(todo)' \in {Listed(todo), Listed(todo) \ {Line}}
    <2>1. Listed(todo)' = Listed(Tail(todo))
      BY <1>2 DEF Listed
    <2> QED BY <1>2, <1>3, <2>1, ListedTail DEF Line
  <1>10. Serving = "loading" /\ UNCHANGED <<now, OnDisk, Serving, reply>>
    BY <1>2, ServingFacts DEF Listed, OnDisk
  <1>11. Abstract!Load(Line)
    BY <1>7, <1>8, <1>9, <1>10 DEF Abstract!Load, Abstract!Has, Touched, Replaced
  <1> QED BY <1>9, <1>11 DEF Simulates, Abstract!Next

LEMMA LoadedLine ==
  ASSUME RInv, Debug, status = "loading", todo # <<>>, todo' = Tail(todo),
         UNCHANGED <<now, file, status, reply>>,
         Line \notin DOMAIN Db,
         Db' = Abstract!Put(Abstract!MadeRoom, Line, AsTuple(Fresh(Line, TRUE)))
  PROVE  Simulates
  <1>1. todo \in Seq(Key)
    BY DEF RInv, IInv, TypeOK
  <1>2. /\ Line \in Key /\ Line \in Listed(todo)
        /\ Listed(todo)' \in {Listed(todo), Listed(todo) \ {Line}}
    <2>1. Listed(todo)' = Listed(Tail(todo))
      BY DEF Listed
    <2> QED BY <1>1, <2>1, ListedTail DEF Line
  <1>3. Serving = "loading" /\ UNCHANGED <<now, OnDisk, Serving, reply>>
    BY ServingFacts DEF Listed, OnDisk
  <1>4. Abstract!Load(Line)
    BY <1>2, <1>3, FreshTuple DEF Abstract!Load, Abstract!Has
  <1> QED BY <1>2, <1>4 DEF Simulates, Abstract!Next

LEMMA LoadNewSimulates ==
  ASSUME RInv, Debug, LoadNew
  PROVE  Simulates
  <1>1. PICK i \in 0 .. poolnum :
          /\ MissingAt(KeyAt, poolnum, Line, i)
          /\ AddTuple(pool, tuplespace, poolnum, i, Fresh(Line, TRUE))
    BY DEF LoadNew
  <1>2. /\ status = "loading" /\ todo # <<>> /\ poolnum < PoolMax /\ todo' = Tail(todo)
        /\ UNCHANGED <<now, file, status, reply>>
    BY DEF LoadNew
  <1>3. IInv /\ TypeOK /\ Line \in Key
    BY <1>2, HeadAndTail DEF RInv, IInv, TypeOK, Line
  <1>4. Fresh(Line, TRUE) \in Record /\ Fresh(Line, TRUE).key = Line
    BY <1>3, FreshRecord
  <1>5. /\ Db' = Abstract!Put(Abstract!MadeRoom, Line, AsTuple(Fresh(Line, TRUE)))
        /\ Line \notin DOMAIN Db
    BY <1>1, <1>2, <1>3, <1>4, AddRefines
  <1> QED BY <1>2, <1>5, LoadedLine

LEMMA LoadFullSimulates ==
  ASSUME RInv, Debug, LoadFull
  PROVE  Simulates
  <1>1. CASE End("bad_index")
    BY <1>1, EndSimulates DEF LoadFull, Running, Ended
  <1>2. CASE /\ AddTuple(pool, Identity, 0, 0, Fresh(Line, TRUE))
             /\ todo' = Tail(todo) /\ UNCHANGED <<now, file, status, reply>>
    <2>1. PICK i : MissingAt(KeyAt, poolnum, Line, i)
      BY DEF LoadFull
    <2>2. status = "loading" /\ todo # <<>> /\ poolnum = PoolMax
      BY DEF LoadFull
    <2>3. IInv /\ TypeOK /\ Line \in Key
      BY <2>2, HeadAndTail DEF RInv, IInv, TypeOK, Line
    <2>4. \A s \in Slot : ~pool[s].remove
      BY <2>2, <2>3 DEF IInv, FlagsOnlyWhenUp
    <2>5. Live \cap Freed = {}
      <3>1. ASSUME NEW s \in Slot, s \in Live PROVE s \notin Freed
        <4>1. pool[s].atime = now /\ now \in Nat /\ now - now = 0
          BY <2>2, <2>3, <3>1, TimeAssumption DEF RInv, LoadedNow, TypeOK, Time
        <4>2. ~Stale(pool[s])
          BY <4>1, TimeAssumption DEF Stale
        <4>3. Marked[s] = pool[s]
          BY <4>2 DEF Marked
        <4> QED BY <2>4, <4>3 DEF Freed
      <3> QED BY <3>1 DEF Freed
    <2>6. Fresh(Line, TRUE) \in Record /\ Fresh(Line, TRUE).key = Line
      BY <2>3, FreshRecord
    <2>7. /\ Db' = Abstract!Put(Abstract!MadeRoom, Line, AsTuple(Fresh(Line, TRUE)))
          /\ Line \notin DOMAIN Db
      BY <1>2, <2>1, <2>2, <2>3, <2>4, <2>5, <2>6, StartOverRefines
    <2> QED BY <1>2, <2>2, <2>7, LoadedLine
  <1> QED BY <1>1, <1>2 DEF LoadFull

LEMMA LoadDoneSimulates ==
  ASSUME RInv, LoadDone
  PROVE  Simulates
  <1>1. /\ status = "loading" /\ todo = <<>> /\ status' = "up"
        /\ UNCHANGED <<pool, tuplespace, poolnum, now, file, todo, reply>>
    BY DEF LoadDone
  <1>2. Db' = Db /\ Listed(todo) = {} /\ UNCHANGED <<OnDisk, Listed(todo)>>
    BY <1>1, SameDb, ListedEmpty DEF Listed, OnDisk
  <1>3. Abstract!Ready
    BY <1>1, <1>2, ServingFacts DEF Abstract!Ready
  <1> QED BY <1>3 DEF Simulates, Abstract!Next

(***************************************************************************)
(* Requests, removal and expiry.                                           *)
(***************************************************************************)
LEMMA RequestKnownSimulates ==
  ASSUME RInv, Debug, NEW k \in Key, NEW cmd \in Command, RequestKnown(k, cmd)
  PROVE  Simulates
  <1> DEFINE promote(s) == /\ ~pool[s].white
                           /\ cmd = "CMD_WHITELIST" \/ now - pool[s].ctime >= Embargo
  <1>1. PICK i \in Slot :
          /\ FoundAt(KeyAt, poolnum, k, i)
          /\ pool' = [pool EXCEPT ![tuplespace[i]] =
                        [pool[tuplespace[i]] EXCEPT
                           !.atime = now,
                           !.white = pool[tuplespace[i]].white \/ promote(tuplespace[i])]]
          /\ reply' = IF pool[tuplespace[i]].white \/ promote(tuplespace[i]) THEN "accept" ELSE "greylist"
    BY DEF RequestKnown
  <1>2. /\ status = "up" /\ UNCHANGED <<tuplespace, poolnum, now, file, todo, status>>
    BY DEF RequestKnown
  <1>3. IInv /\ pool[tuplespace[i]] \in Record /\ now \in Time
    BY <1>1 DEF RInv, IInv, TypeOK
  <1> DEFINE old == pool[tuplespace[i]]
             w   == old.white \/ promote(tuplespace[i])
             r   == Touched(old, now, w)
  <1>4. w \in BOOLEAN
    OBVIOUS
  <1>5. Rewrites(pool', pool, tuplespace[i], r) /\ reply' = IF w THEN "accept" ELSE "greylist"
    <2> HIDE DEF promote
    <2> QED BY <1>1, Zenon DEF Touched, Rewrites
  <1>6. w = (old.white \/ cmd = "CMD_WHITELIST" \/ now - old.ctime >= Embargo)
    OBVIOUS
  <1> HIDE DEF w
  <1>7. r \in Record /\ r.key = old.key
    BY <1>3, <1>4 DEF Record, Touched
  <1>8. AsTuple(r) = Touched(AsTuple(old), now, w)
    BY <1>3, RewrittenTuple
  <1> HIDE DEF r, promote
  <1>9. /\ Db' = Replaced(Db, k, AsTuple(r))
        /\ k \in DOMAIN Db /\ Db[k] = AsTuple(old)
    BY <1>1, <1>2, <1>3, <1>5, <1>7, RewriteRefines
  <1>10. Abstract!Promoted(k, cmd) = w
    BY <1>6, <1>9, AsTupleFacts DEF Abstract!Promoted
  <1>11. Db' = Replaced(Db, k, Touched(Db[k], now, Abstract!Promoted(k, cmd)))
    BY <1>8, <1>9, <1>10
  <1>12. reply' = IF Abstract!Promoted(k, cmd) THEN "accept" ELSE "greylist"
    BY <1>5, <1>10
  <1>13. Serving = "up" /\ UNCHANGED <<now, OnDisk, Listed(todo), Serving>>
    BY <1>2, ServingFacts DEF Listed, OnDisk
  <1>14. Abstract!AskAgain(k, cmd)
    BY <1>9, <1>11, <1>12, <1>13 DEF Abstract!AskAgain, Abstract!Has, Touched, Replaced
  <1>15. cmd \in Abstract!Command
    BY DEF Abstract!Command, Command
  <1> QED BY <1>14, <1>15 DEF Simulates, Abstract!Next

LEMMA FirstRequest ==
  ASSUME NEW k \in Key, NEW cmd \in Command, status = "up",
         NEW n, CountAndReply(n, cmd), k \notin DOMAIN Db,
         Db' = Abstract!Put(Abstract!MadeRoom, k, AsTuple(Fresh(k, cmd = "CMD_WHITELIST")))
  PROVE  Simulates
  <1>1. /\ reply' = IF cmd = "CMD_WHITELIST" THEN "accept" ELSE "greylist"
        /\ UNCHANGED <<now, file, todo, status>>
    BY DEF CountAndReply
  <1>2. Serving = "up" /\ UNCHANGED <<now, OnDisk, Listed(todo), Serving>>
    BY <1>1, ServingFacts DEF Listed, OnDisk
  <1>3. Abstract!AskFirst(k, cmd)
    BY <1>1, <1>2, FreshTuple DEF Abstract!AskFirst, Abstract!Has
  <1>4. cmd \in Abstract!Command
    BY DEF Abstract!Command, Command
  <1> QED BY <1>3, <1>4 DEF Simulates, Abstract!Next

LEMMA RequestNewSimulates ==
  ASSUME RInv, Debug, NEW k \in Key, NEW cmd \in Command, RequestNew(k, cmd)
  PROVE  Simulates
  <1> DEFINE r == Fresh(k, cmd = "CMD_WHITELIST")
  <1>1. PICK i \in 0 .. poolnum :
          MissingAt(KeyAt, poolnum, k, i) /\ AddTuple(pool, tuplespace, poolnum, i, r)
    BY DEF RequestNew
  <1>2. /\ IInv /\ TypeOK /\ status = "up" /\ poolnum < PoolMax
        /\ CountAndReply(whitelisted, cmd)
    BY DEF RInv, IInv, RequestNew
  <1>3. r \in Record /\ r.key = k
    BY <1>2, RequestedRecord
  <1> HIDE DEF r
  <1>4. Db' = Abstract!Put(Abstract!MadeRoom, k, AsTuple(r)) /\ k \notin DOMAIN Db
    BY <1>1, <1>2, <1>3, AddRefines
  <1> QED BY <1>2, <1>4, FirstRequest DEF r

LEMMA StartsOverSimulates ==
  ASSUME RInv, Debug, NEW k \in Key, NEW cmd \in Command, RequestStartsOver(k, cmd)
  PROVE  Simulates
  <1> DEFINE r == Fresh(k, cmd = "CMD_WHITELIST")
  <1>1. PICK i \in 0 .. poolnum : MissingAt(KeyAt, poolnum, k, i)
    BY DEF RequestStartsOver
  <1>2. /\ IInv /\ TypeOK /\ status = "up" /\ poolnum = PoolMax /\ Freed = {}
        /\ AddTuple(pool, Identity, 0, 0, r) /\ CountAndReply(whitelisted, cmd)
    BY DEF RInv, IInv, RequestStartsOver
  <1>3. r \in Record /\ r.key = k
    BY <1>2, RequestedRecord
  <1>4. \A s \in Slot : ~pool[s].remove
    BY <1>2, MarkedFacts DEF Freed, IInv
  <1> HIDE DEF r
  <1>5. Db' = Abstract!Put(Abstract!MadeRoom, k, AsTuple(r)) /\ k \notin DOMAIN Db
    BY <1>1, <1>2, <1>3, <1>4, StartOverRefines
  <1> QED BY <1>2, <1>5, FirstRequest DEF r

LEMMA TupleRemoveSimulates ==
  ASSUME RInv, Debug, NEW k \in Key, TupleRemove(k)
  PROVE  Simulates
  <1>1. PICK i \in Slot :
          /\ FoundAt(KeyAt, poolnum, k, i)
          /\ pool' = [pool EXCEPT ![tuplespace[i]] = [@ EXCEPT !.remove = TRUE]]
    BY DEF TupleRemove
  <1>2. /\ status = "up" /\ reply' = "none"
        /\ UNCHANGED <<tuplespace, poolnum, now, file, todo, status>>
    BY DEF TupleRemove
  <1>3. IInv /\ pool[tuplespace[i]] \in Record
    BY <1>1 DEF RInv, IInv, TypeOK
  <1> DEFINE old == pool[tuplespace[i]]
             r   == Flagged(old)
  <1>4. r \in Record /\ r.key = old.key
    BY <1>3 DEF Record, Flagged
  <1>5. Rewrites(pool', pool, tuplespace[i], r)
    BY <1>1 DEF Flagged, Rewrites
  <1>6. AsTuple(r) = Doomed(AsTuple(old))
    BY <1>3, RewrittenTuple
  <1> HIDE DEF r
  <1>7. /\ Db' = Replaced(Db, k, AsTuple(r))
        /\ k \in DOMAIN Db /\ Db[k] = AsTuple(old)
    BY <1>1, <1>2, <1>3, <1>4, <1>5, RewriteRefines
  <1>8. Db' = Replaced(Db, k, Doomed(Db[k]))
    BY <1>6, <1>7
  <1>9. Serving = "up" /\ UNCHANGED <<now, OnDisk, Listed(todo), Serving>>
    BY <1>2, ServingFacts DEF Listed, OnDisk
  <1>10. Abstract!Remove(k)
    BY <1>2, <1>7, <1>8, <1>9 DEF Abstract!Remove, Abstract!Has, Doomed, Replaced
  <1> QED BY <1>10 DEF Simulates, Abstract!Next

LEMMA ExpireSimulates ==
  ASSUME RInv, Debug, Expire
  PROVE  Simulates
  <1>0. IInv /\ status = "up"
    BY DEF RInv, Expire
  <1>1. CASE End("assert_expire")
    BY <1>0, <1>1, EndSimulates DEF Running, Ended
  <1>2. CASE /\ pool' = Marked /\ tuplespace' = Compacted /\ poolnum' = Cardinality(Kept)
             /\ reply' = "none" /\ UNCHANGED <<now, file, todo, status>>
    <2>1. Db' = MapOf(Marked, Compacted, Cardinality(Kept))
      BY <1>2 DEF Db
    <2>2. Db' = Abstract!Survivors
      BY <1>0, <2>1, MapSweep
    <2>3. Serving = "up" /\ UNCHANGED <<now, OnDisk, Listed(todo), Serving>>
      BY <1>0, <1>2, ServingFacts DEF Listed, OnDisk
    <2>4. Abstract!Sweep
      BY <1>2, <2>2, <2>3 DEF Abstract!Sweep
    <2> QED BY <2>4 DEF Simulates, Abstract!Next
  <1> QED BY <1>1, <1>2 DEF Expire

(***************************************************************************)
(* Saving, ending in good order, starting and waiting.                     *)
(***************************************************************************)
LEMMA WholeOnDisk ==
  ASSUME IInv, Debug, file' = Whole(Dump)
  PROVE  OnDisk' = [keys |-> Abstract!Worthy, whole |-> TRUE]
  <1>1. file'.lines = Dump /\ file'.whole = TRUE
    BY DEF Whole
  <1>2. OnDisk' = [keys |-> Listed(Dump), whole |-> TRUE]
    BY <1>1 DEF OnDisk, Listed
  <1> QED BY <1>2, WorthyDumped

LEMMA CutListed ==
  ASSUME IInv, Debug, NEW f \in CutOff(Dump, Key)
  PROVE  /\ Listed(f.lines) \in SUBSET Key /\ f.whole = FALSE
         /\ \A j, k \in Listed(f.lines) \ Abstract!Worthy : j = k
  <1>1. Dump \in Seq(Key)
    BY DumpType DEF IInv
  <1>2. /\ f \in FileOf(Key) /\ f.whole = FALSE
        /\ \E n \in 0 .. Len(Dump) : \/ f.lines = SubSeq(Dump, 1, n)
                                   \/ \E l \in Key : f.lines = Append(SubSeq(Dump, 1, n), l)
    BY <1>1, CutFile
  <1>3. \A m \in 1 .. Len(Dump) : Dump[m] \in Abstract!Worthy
    BY WorthyDumped DEF Listed
  <1>4. PICK n \in 0 .. Len(Dump) : \/ f.lines = SubSeq(Dump, 1, n)
                                  \/ \E l \in Key : f.lines = Append(SubSeq(Dump, 1, n), l)
    BY <1>2
  <1> DEFINE q == SubSeq(Dump, 1, n)
  <1>5. Len(q) = n /\ q \in Seq(Key) /\ \A m \in 1 .. n : q[m] \in Abstract!Worthy
    BY <1>1, <1>3
  <1>6. f.lines \in Seq(Key)
    BY <1>2, LinesOfFile
  <1>7. Listed(f.lines) \in SUBSET Key
    BY <1>6 DEF Listed
  <1> HIDE DEF q
  <1>8. CASE f.lines = q
    BY <1>2, <1>5, <1>7, <1>8 DEF Listed
  <1>9. CASE \E l \in Key : f.lines = Append(q, l)
    <2>1. PICK l \in Key : f.lines = Append(q, l)
      BY <1>9
    <2>2. Len(f.lines) = n + 1 /\ f.lines[n+1] = l /\ \A m \in 1 .. n : f.lines[m] = q[m]
      BY <1>5, <2>1, AppendProperties
    <2>3. ASSUME NEW m \in 1 .. n + 1 PROVE f.lines[m] \in Abstract!Worthy \/ f.lines[m] = l
      <3>1. CASE m = n + 1
        BY <2>2, <3>1
      <3>2. CASE m # n + 1
        <4>1. m \in 1 .. n
          BY <3>2
        <4> QED BY <1>5, <2>2, <4>1
      <3> QED BY <3>1, <3>2
    <2>4. \A k \in Listed(f.lines) \ Abstract!Worthy : k = l
      BY <2>2, <2>3 DEF Listed
    <2> QED BY <1>2, <1>7, <2>4
  <1> QED BY <1>4, <1>8, <1>9 DEF q

LEMMA SavesSimulate ==
  ASSUME RInv, Debug, SaveState \/ SaveCut
  PROVE  Simulates
  <1>1. IInv /\ status = "up" /\ reply' = "none" /\ now' = now
    BY DEF RInv, SaveState, SaveCut
  <1>2. UNCHANGED <<pool, tuplespace, poolnum, todo, status>>
    BY DEF SaveState, SaveCut, memory
  <1>3. UNCHANGED <<Db, Listed(todo), Serving>> /\ Serving = "up"
    BY <1>1, <1>2, SameDb, ServingFacts DEF Listed
  <1>4. CASE SaveState
    <2>1. OnDisk' = [keys |-> Abstract!Worthy, whole |-> TRUE]
      BY <1>1, <1>4, WholeOnDisk DEF SaveState
    <2>2. Abstract!Save
      BY <1>1, <1>3, <2>1 DEF Abstract!Save
    <2> QED BY <2>2 DEF Simulates, Abstract!Next
  <1>5. CASE SaveCut
    <2>1. file' \in CutOff(Dump, Key)
      BY <1>5 DEF SaveCut
    <2>2. PICK f \in CutOff(Dump, Key) : f = file'
      BY <2>1
    <2>3. OnDisk' = [keys |-> Listed(f.lines), whole |-> FALSE]
      BY <1>1, <2>2, CutListed DEF OnDisk, Listed
    <2>4. Abstract!SaveCut
      BY <1>1, <1>3, <2>3, CutListed DEF Abstract!SaveCut
    <2> QED BY <2>4 DEF Simulates, Abstract!Next
  <1> QED BY <1>4, <1>5

LEMMA TerminateSimulates ==
  ASSUME RInv, Debug, Terminate
  PROVE  Simulates
  <1>1. /\ IInv /\ status = "up" /\ reply' = "none" /\ now' = now
        /\ file' = file \/ file' = Whole(Dump)
        /\ poolnum' = 0 /\ todo' = <<>> /\ status' = "stopped"
    BY DEF RInv, Terminate
  <1>2. OnDisk' = OnDisk \/ OnDisk' = [keys |-> Abstract!Worthy, whole |-> TRUE]
    BY <1>1, WholeOnDisk DEF OnDisk, Listed
  <1>3. Db' = Abstract!NoTuple /\ Listed(todo)' = {} /\ Serving = "up" /\ Serving' = "down"
    <2>1. Listed(todo)' = Listed(<<>>)
      BY <1>1 DEF Listed
    <2> QED BY <1>1, <2>1, EmptyDb, ListedEmpty, ServingFacts DEF Ended
  <1>4. Abstract!Stop
    BY <1>1, <1>2, <1>3 DEF Abstract!Stop
  <1> QED BY <1>4 DEF Simulates, Abstract!Next

LEMMA IdleSimulates ==
  ASSUME RInv, Start \/ Tick \/ UNCHANGED vars
  PROVE  Simulates
  <1>1. CASE Start
    <2>1. /\ status \in Ended /\ status' = "loading" /\ todo' = file.lines
          /\ UNCHANGED <<pool, tuplespace, poolnum, now, file, reply>>
      BY <1>1 DEF Start, memory
    <2>2. UNCHANGED <<Db, OnDisk>> /\ Listed(todo)' = OnDisk.keys
      BY <2>1, SameDb DEF Listed, OnDisk
    <2>3. Abstract!Restart
      BY <2>1, <2>2, ServingFacts DEF Abstract!Restart
    <2> QED BY <2>3 DEF Simulates, Abstract!Next
  <1>2. CASE Tick
    <2>1. /\ status = "up" /\ now < MaxTime /\ now' = now + 1
          /\ UNCHANGED <<pool, tuplespace, poolnum, file, todo, status, reply>>
      BY <1>2 DEF Tick, memory
    <2>2. UNCHANGED <<Db, OnDisk, Listed(todo), Serving>>
      BY <2>1, SameDb, ServingFacts DEF Listed, OnDisk
    <2>3. Abstract!Tick
      BY <2>1, <2>2, ServingFacts DEF Abstract!Tick
    <2> QED BY <2>3 DEF Simulates, Abstract!Next
  <1>3. CASE UNCHANGED vars
    <2>1. UNCHANGED <<pool, tuplespace, poolnum, now, file, todo, status, reply>>
      BY <1>3 DEF vars
    <2>2. UNCHANGED <<Db, OnDisk, Listed(todo), Serving>>
      BY <2>1, SameDb, ServingFacts DEF Listed, OnDisk
    <2> QED BY <2>1, <2>2 DEF Simulates, Abstract!vars
  <1> QED BY <1>1, <1>2, <1>3

LEMMA StepSimulates ==
  ASSUME Debug
  PROVE  RInv /\ [Next]_vars => [Abstract!Next]_(Abstract!vars)
  <1> SUFFICES ASSUME RInv, [Next]_vars PROVE Simulates
    BY DEF Simulates
  <1>0. IInv
    BY DEF RInv
  <1>1. CASE LoadKnown \/ LoadNew \/ LoadFull \/ LoadDone
    BY <1>1, LoadKnownSimulates, LoadNewSimulates, LoadFullSimulates, LoadDoneSimulates
  <1>2. ASSUME NEW k \in Key, NEW cmd \in Command,
               RequestKnown(k, cmd) \/ RequestNew(k, cmd) \/ RequestStartsOver(k, cmd)
        PROVE  Simulates
    BY <1>2, RequestKnownSimulates, RequestNewSimulates, StartsOverSimulates
  <1>3. ASSUME NEW k \in Key, NEW cmd \in Command, RequestCleansHouse(k, cmd)
        PROVE  Simulates
    BY <1>0, <1>3, FullSweepFails DEF RequestCleansHouse, ExpireOk
  <1>4. ASSUME NEW k \in Key, RequestAborts(k) \/ TupleRemove(k) PROVE Simulates
    <2>1. CASE RequestAborts(k)
      BY <2>1, EndSimulates DEF RequestAborts, Running, Ended
    <2>2. CASE TupleRemove(k)
      BY <2>2, TupleRemoveSimulates
    <2> QED BY <1>4, <2>1, <2>2
  <1>5. CASE Expire \/ SaveState \/ SaveCut \/ Terminate
    BY <1>5, ExpireSimulates, SavesSimulate, TerminateSimulates
  <1>6. CASE Crash
    BY <1>6, EndSimulates DEF Crash, Ended
  <1>7. CASE Start \/ Tick \/ UNCHANGED vars
    BY <1>7, IdleSimulates
  <1> QED BY <1>1, <1>2, <1>3, <1>4, <1>5, <1>6, <1>7 DEF Next

LEMMA InitSimulates == Init => Abstract!Init
  <1> SUFFICES ASSUME Init PROVE Abstract!Init
    OBVIOUS
  <1>1. /\ now = 0 /\ status = "loading" /\ reply = "none" /\ poolnum = 0
        /\ todo = file.lines
    BY DEF Init
  <1>2. Db = Abstract!NoTuple
    BY <1>1, MapEmpty DEF Db
  <1>3. file.lines \in Seq(Key) /\ file.whole = TRUE
    <2>1. PICK q \in Files : file = Whole(q)
      BY DEF Init
    <2> QED BY <2>1, FilesAssumption, WholeFile DEF Whole
  <1>4. Listed(file.lines) \in SUBSET Key
    BY <1>3 DEF Listed
  <1>5. /\ OnDisk \in [keys : SUBSET Key, whole : {TRUE}]
        /\ Listed(todo) = OnDisk.keys /\ Serving = "loading"
    BY <1>1, <1>3, <1>4, ServingFacts DEF OnDisk
  <1> QED BY <1>1, <1>2, <1>5 DEF Abstract!Init
-----------------------------------------------------------------------------
(***************************************************************************)
(* What FlagsStick asks, on the map: an entry that stays keeps its flags.  *)
(* It is shown of the abstract steps and carried back by the simulation.   *)
(***************************************************************************)
Sticky(d, e) == \A k \in DOMAIN d \cap DOMAIN e : /\ d[k].white => e[k].white
                                                  /\ d[k].doomed => e[k].doomed

DoomedIn(p, ts, n) == {s \in InUse(ts, n) : p[s].remove}

ShowsFlags(m, p, ts, n) ==
  /\ {p[s].key : s \in InUse(ts, n)} = DOMAIN m
  /\ {p[s].key : s \in White(p, ts, n)} = {k \in DOMAIN m : m[k].white}
  /\ {p[s].key : s \in DoomedIn(p, ts, n)} = {k \in DOMAIN m : m[k].doomed}

LEMMA FlagsOfMap ==
  ASSUME NEW p, NEW ts, NEW n, Cells(p, ts, n), StrictlySorted(KeysOf(p, ts), n)
  PROVE  ShowsFlags(MapOf(p, ts, n), p, ts, n)
  <1> DEFINE S == InUse(ts, n)
             K == {p[s].key : s \in S}
             m == MapOf(p, ts, n)
  <1>0. Represents(m, p, S)
    BY MapRepresents
  <1>1. /\ m = [k \in K |-> m[k]]
        /\ \A s \in S : m[p[s].key] = AsTuple(p[s])
    BY <1>0 DEF Represents
  <1> HIDE DEF m
  <1>2. DOMAIN m = K
    BY <1>1
  <1>3. \A s \in S : m[p[s].key].white = p[s].white /\ m[p[s].key].doomed = p[s].remove
    BY <1>1, AsTupleFacts
  <1> HIDE DEF S
  <1>4. /\ {p[s].key : s \in {x \in S : p[x].white}} = {k \in K : m[k].white}
        /\ {p[s].key : s \in {x \in S : p[x].remove}} = {k \in K : m[k].doomed}
    BY <1>3
  <1>5. ShowsFlags(m, p, ts, n)
    BY <1>2, <1>4 DEF S, White, DoomedIn, ShowsFlags
  <1> QED BY <1>5 DEF m

LEMMA MadeRoomKeeps ==
  ASSUME NEW x \in DOMAIN Abstract!MadeRoom
  PROVE  x \in DOMAIN Db /\ Abstract!MadeRoom[x] = Db[x]
  <1>1. CASE Abstract!MadeRoom = Db
    BY <1>1
  <1>2. CASE Abstract!MadeRoom = Abstract!NoTuple
    BY <1>2 DEF Abstract!NoTuple
  <1>3. CASE Abstract!MadeRoom = Abstract!Survivors
    BY <1>3 DEF Abstract!Survivors
  <1> QED BY <1>1, <1>2, <1>3 DEF Abstract!MadeRoom

LEMMA PutSticks ==
  ASSUME NEW k, k \notin DOMAIN Db, NEW t, Db' = Abstract!Put(Abstract!MadeRoom, k, t)
  PROVE  Sticky(Db, Db')
  <1>1. \A x \in DOMAIN Db \cap DOMAIN Db' : Db'[x] = Db[x]
    BY MadeRoomKeeps DEF Abstract!Put
  <1> QED BY <1>1 DEF Sticky

LEMMA AbstractSticks ==
  ASSUME RInv, Debug, Simulates
  PROVE  Sticky(Db, Db')
  <1>1. ASSUME NEW x \in DOMAIN Db PROVE Db[x] = [f \in Fields |-> Db[x][f]]
    <2>1. PICK s \in Live : pool[s].key = x
      BY LiveFacts DEF RInv
    <2>2. Db[x] = AsTuple(pool[s])
      BY <2>1, LiveFacts DEF RInv, Represents
    <2> QED BY <2>2, TupleFields
  <1>2. ASSUME NEW k \in DOMAIN Db, NEW a, NEW w, Db[k].white => w, Db' = Replaced(Db, k, Touched(Db[k], a, w))
        PROVE  Sticky(Db, Db')
    <2>1. Touched(Db[k], a, w).white = w /\ Touched(Db[k], a, w).doomed = Db[k].doomed
      BY <1>1 DEF Touched, Fields
    <2>2. \A x \in DOMAIN Db : Db'[x] = IF x = k THEN Touched(Db[k], a, w) ELSE Db[x]
      BY <1>2 DEF Replaced
    <2> QED BY <1>2, <2>1, <2>2 DEF Sticky
  <1>3. ASSUME NEW k \in DOMAIN Db, Db' = Replaced(Db, k, Doomed(Db[k]))
        PROVE  Sticky(Db, Db')
    <2>1. Doomed(Db[k]).white = Db[k].white /\ Doomed(Db[k]).doomed
      BY <1>1 DEF Doomed, Fields
    <2>2. \A x \in DOMAIN Db : Db'[x] = IF x = k THEN Doomed(Db[k]) ELSE Db[x]
      BY <1>3 DEF Replaced
    <2> QED BY <2>1, <2>2 DEF Sticky
  <1>4. ASSUME Db' = Db PROVE Sticky(Db, Db')
    BY <1>4 DEF Sticky
  <1>5. ASSUME NEW k \in Key, Abstract!Load(k) PROVE Sticky(Db, Db')
    <2>1. CASE k \in DOMAIN Db
      <3>1. Db' = Replaced(Db, k, Touched(Db[k], now, TRUE))
        BY <1>5, <2>1 DEF Abstract!Load, Abstract!Has, Replaced, Touched
      <3> QED BY <1>2, <2>1, <3>1
    <2>2. CASE k \notin DOMAIN Db
      BY <1>5, <2>2, PutSticks DEF Abstract!Load, Abstract!Has
    <2> QED BY <2>1, <2>2
  <1>6. ASSUME NEW k \in Key, NEW cmd, Abstract!AskAgain(k, cmd) PROVE Sticky(Db, Db')
    <2>1. k \in DOMAIN Db /\ (Db[k].white => Abstract!Promoted(k, cmd))
      BY <1>6 DEF Abstract!AskAgain, Abstract!Has, Abstract!Promoted
    <2>2. Db' = Replaced(Db, k, Touched(Db[k], now, Abstract!Promoted(k, cmd)))
      BY <1>6 DEF Abstract!AskAgain, Replaced, Touched
    <2> QED BY <1>2, <2>1, <2>2
  <1>7. ASSUME NEW k \in Key, NEW cmd, Abstract!AskFirst(k, cmd) PROVE Sticky(Db, Db')
    BY <1>7, PutSticks DEF Abstract!AskFirst, Abstract!Has
  <1>8. ASSUME NEW k \in Key, Abstract!Remove(k) PROVE Sticky(Db, Db')
    <2>1. k \in DOMAIN Db /\ Db' = Replaced(Db, k, Doomed(Db[k]))
      BY <1>8 DEF Abstract!Remove, Abstract!Has, Replaced, Doomed
    <2> QED BY <1>3, <2>1
  <1>9. CASE Abstract!Sweep
    <2>1. \A x \in DOMAIN Db' : Db'[x] = Db[x]
      BY <1>9 DEF Abstract!Sweep, Abstract!Survivors
    <2> QED BY <2>1 DEF Sticky
  <1>10. CASE Abstract!Stop
    <2>1. DOMAIN Db' = {}
      BY <1>10 DEF Abstract!Stop, Abstract!NoTuple
    <2> QED BY <2>1 DEF Sticky
  <1>11. CASE Abstract!Ready \/ Abstract!Save \/ Abstract!SaveCut \/ Abstract!Restart \/ Abstract!Tick \/ UNCHANGED Abstract!vars
    BY <1>4, <1>11 DEF Abstract!Ready, Abstract!Save, Abstract!SaveCut, Abstract!Restart,
                     Abstract!Tick, Abstract!vars
  <1> QED BY <1>5, <1>6, <1>7, <1>8, <1>9, <1>10, <1>11 DEF Simulates, Abstract!Next

LEMMA StepSticks ==
  ASSUME Debug, RInv, [Next]_vars
  PROVE  FlagsStick
  <1>1. Simulates
    BY StepSimulates DEF Simulates
  <1>2. Sticky(Db, Db')
    BY <1>1, AbstractSticks
  <1>3. RInv'
    BY StepRInv
  <1>4. /\ Cells(pool, tuplespace, poolnum) /\ StrictlySorted(KeysOf(pool, tuplespace), poolnum)
        /\ Cells(pool', tuplespace', poolnum') /\ StrictlySorted(KeysOf(pool', tuplespace'), poolnum')
    BY <1>3 DEF RInv, IInv, Sorted, KeyAt, KeysOf
  <1>5. /\ UsedKeys = DOMAIN Db /\ UsedKeys' = DOMAIN Db'
        /\ WhiteKeys = {k \in DOMAIN Db : Db[k].white}
        /\ WhiteKeys' = {k \in DOMAIN Db' : Db'[k].white}
        /\ DoomedKeys = {k \in DOMAIN Db : Db[k].doomed}
        /\ DoomedKeys' = {k \in DOMAIN Db' : Db'[k].doomed}
    <2>1. /\ UsedKeys = {pool[s].key : s \in InUse(tuplespace, poolnum)}
          /\ WhiteKeys = {pool[s].key : s \in White(pool, tuplespace, poolnum)}
          /\ DoomedKeys = {pool[s].key : s \in DoomedIn(pool, tuplespace, poolnum)}
      BY DEF UsedKeys, WhiteKeys, DoomedKeys, WhiteUsed, Live, Used, InUse, White, DoomedIn
    <2>2. /\ UsedKeys' = {pool'[s].key : s \in InUse(tuplespace', poolnum')}
          /\ WhiteKeys' = {pool'[s].key : s \in White(pool', tuplespace', poolnum')}
          /\ DoomedKeys' = {pool'[s].key : s \in DoomedIn(pool', tuplespace', poolnum')}
      BY DEF UsedKeys, WhiteKeys, DoomedKeys, WhiteUsed, Live, Used, InUse, White, DoomedIn
    <2>3. Db = MapOf(pool, tuplespace, poolnum) /\ Db' = MapOf(pool', tuplespace', poolnum')
      BY DEF Db
    <2>4. /\ UsedKeys = DOMAIN Db
          /\ WhiteKeys = {k \in DOMAIN Db : Db[k].white}
          /\ DoomedKeys = {k \in DOMAIN Db : Db[k].doomed}
      <3>1. ShowsFlags(Db, pool, tuplespace, poolnum)
        BY <1>4, <2>3, FlagsOfMap
      <3> QED BY <2>1, <3>1 DEF ShowsFlags
    <2>5. /\ UsedKeys' = DOMAIN Db'
          /\ WhiteKeys' = {k \in DOMAIN Db' : Db'[k].white}
          /\ DoomedKeys' = {k \in DOMAIN Db' : Db'[k].doomed}
      <3>1. ShowsFlags(Db', pool', tuplespace', poolnum')
        BY <1>4, <2>3, FlagsOfMap
      <3> QED BY <2>2, <3>1 DEF ShowsFlags
    <2> QED BY <2>4, <2>5
  <1> QED BY <1>2, <1>5 DEF FlagsStick, Sticky
-----------------------------------------------------------------------------
(***************************************************************************)
(* The tuple space never reaches a state its types exclude: no pointer     *)
(* leaves the pool and the count of tuples never exceeds its size, however *)
(* requests, expiries, crashes and restarts follow each other.             *)
(***************************************************************************)
THEOREM TypeCorrect == Spec => []TypeOK
  <1>1. IInv => TypeOK
    BY DEF IInv
  <1> QED BY <1>1, Invariance, PTL

(***************************************************************************)
(* No record of the pool is ever reached from two cells of the array, also *)
(* when assertions are compiled out and the array is no longer sorted.     *)
(***************************************************************************)
THEOREM NeverAliased == Spec => []NoAlias
  <1>1. IInv => NoAlias
    BY DEF IInv, Cells, Permutes, NoAlias
  <1> QED BY <1>1, Invariance, PTL

(***************************************************************************)
(* The records an earlier expiry left flagged are always the first free    *)
(* ones: what makes the second loop of tuple_expire() a permutation.       *)
(***************************************************************************)
THEOREM FlaggedAlwaysFirst == Spec => []FlaggedFirst
  <1>1. IInv => FlaggedFirst
    BY DEF IInv, Cells, FlaggedPrefix, FlaggedFirst
  <1> QED BY <1>1, Invariance, PTL

(***************************************************************************)
(* With assertions compiled in, the array stays in strict key order: the   *)
(* stale index tuple_expire() leaves behind is never used, because the     *)
(* assertion of line 219 ends the process first.                           *)
(***************************************************************************)
THEOREM AlwaysSorted == ASSUME Debug PROVE Spec => []Sorted
  <1>1. IInv => Sorted
    BY DEF IInv
  <1> QED BY <1>1, Invariance, PTL

(***************************************************************************)
(* The subtraction of expired whitelist entries never wraps the counter.   *)
(***************************************************************************)
THEOREM CounterCovers == Spec => []WhitelistedCovers
  <1>1. IInv => WhitelistedCovers
    BY DEF IInv
  <1> QED BY <1>1, Invariance, PTL

(***************************************************************************)
(* The low and high marks bracket the number of tuples.                    *)
(***************************************************************************)
THEOREM MarksHold == Spec => []MarksBracket
  <1>1. IInv => MarksBracket
    BY DEF IInv
  <1> QED BY <1>1, Invariance, PTL

(***************************************************************************)
(* With assertions compiled in, the arrays implement the bounded map of    *)
(* Greylisting.tla: each handler, each line of the whitelist and each way  *)
(* the process may end is one step of the map.  What is shown of the map   *)
(* (nobody gets in early, persistence is rewarded) is so of the code.      *)
(***************************************************************************)
THEOREM Refinement == ASSUME Debug PROVE Spec => ImplementsGreylisting
  <1>1. Init => RInv
    BY InitRInv
  <1>2. RInv /\ [Next]_vars => RInv'
    BY StepRInv
  <1>3. Init => Abstract!Init
    BY InitSimulates
  <1>4. RInv /\ [Next]_vars => [Abstract!Next]_(Abstract!vars)
    BY StepSimulates
  <1> QED BY <1>1, <1>2, <1>3, <1>4, PTL DEF Spec, ImplementsGreylisting, Abstract!Spec

(***************************************************************************)
(* A tuple keeps its whitelisting and its flag for removal for as long as  *)
(* it is in use, whatever is added, moved or expired around it.            *)
(***************************************************************************)
THEOREM FlagsAlwaysStick == ASSUME Debug PROVE Spec => FlagsStickWhileUsed
  <1>1. Init => RInv
    BY InitRInv
  <1>2. RInv /\ [Next]_vars => RInv'
    BY StepRInv
  <1>3. RInv /\ [Next]_vars => [FlagsStick]_vars
    BY StepSticks
  <1> QED BY <1>1, <1>2, <1>3, PTL DEF Spec, FlagsStickWhileUsed
-----------------------------------------------------------------------------
(***************************************************************************)
(* When the assertion of tuple_expire() can fail.  A record is flagged by  *)
(* an expiry in one of the cells that were in use, and starting over is    *)
(* for a pool without flags; so no flagged record lies beyond the high     *)
(* mark, and kept and flagged records fill the pool only if it was full.   *)
(***************************************************************************)
FlagsBelow(p, ts, h) == \A j \in Slot : p[ts[j]].remove => j < h

FlaggedBelowHigh == FlagsBelow(pool, tuplespace, high)

LEMMA AddKeepsBelow ==
  ASSUME NEW p, NEW ts, NEW n \in 0 .. PoolMax - 1, Cells(p, ts, n), high \in 0 .. PoolMax,
         NEW idx \in 0 .. n, NEW r, AddTuple(p, ts, n, idx, r), FlagsBelow(p, ts, high)
  PROVE  FlaggedBelowHigh'
  <1>1. /\ pool' = [p EXCEPT ![ts[n]] = r]
        /\ tuplespace' = InsertAt(ts, n, idx, ts[n])
        /\ high' = MaxOf(high, n + 1)
    BY DEF AddTuple
  <1>2. /\ n \in Nat /\ n \in Slot /\ high \in Int /\ high <= high' /\ n < high' /\ high' \in Int
        /\ ts \in [Slot -> Slot] /\ p \in [Slot -> Record] /\ Permutes(ts)
    <2>1. PoolMax \in Nat /\ n \in Nat /\ high \in Int
      BY SlotFacts
    <2>2. n \in Slot
      BY <2>1 DEF Slot
    <2>3. high <= high' /\ n < high' /\ high' \in Int
      BY <1>1, <2>1 DEF MaxOf
    <2> QED BY <2>1, <2>2, <2>3 DEF Cells
  <1> SUFFICES ASSUME NEW j \in Slot, pool'[tuplespace'[j]].remove PROVE j < high'
    BY DEF FlaggedBelowHigh, FlagsBelow
  <1>3. CASE j <= n
    BY <1>2, <1>3 DEF Slot
  <1>4. CASE n < j
    <2>1. j # idx /\ ~(j <= n)
      BY <1>2, <1>4 DEF Slot
    <2>2. tuplespace'[j] = ts[j]
      BY <1>1, <1>2, <2>1 DEF InsertAt
    <2>3. ts[j] # ts[n]
      BY <1>2, <1>4 DEF Permutes, Slot
    <2>4. p[ts[j]].remove
      BY <1>1, <1>2, <2>2, <2>3
    <2>5. j < high
      BY <2>4 DEF FlagsBelow
    <2> QED BY <1>2, <2>5 DEF Slot
  <1> QED BY <1>2, <1>3, <1>4 DEF Slot

LEMMA SweepStaysBelow ==
  ASSUME IInv, FlaggedBelowHigh
  PROVE  /\ Cardinality(Kept) \in Nat /\ Cardinality(Freed) \in Nat
         /\ Cardinality(Kept) + Cardinality(Freed) <= high
         /\ FlagsBelow(Marked, Compacted, high)
  <1>1. /\ Cells(pool, tuplespace, poolnum) /\ poolnum <= high
        /\ poolnum \in Nat /\ high \in 0 .. PoolMax /\ PoolMax \in Nat
    BY SlotFacts DEF IInv, TypeOK, MarksBracket
  <1>2. PICK m \in poolnum .. PoolMax :
          \A j \in poolnum .. PoolMax-1 : pool[tuplespace[j]].remove <=> j < m
    BY <1>1 DEF Cells, FlaggedPrefix
  <1>3. /\ Cardinality(Kept) \in Nat /\ Cardinality(Freed) \in Nat
        /\ Cardinality(Kept) + Cardinality(Freed) = m
        /\ \A j \in m .. PoolMax-1 : tuplespace[j] \notin Freed
    BY <1>1, <1>2, CellCount
  <1>4. m <= high
    <2>1. CASE m = poolnum
      BY <1>1, <2>1
    <2>2. CASE m # poolnum
      <3>1. m - 1 \in poolnum .. PoolMax-1 /\ m - 1 \in Slot /\ m - 1 < m
        BY <1>1, <2>2 DEF Slot
      <3>2. pool[tuplespace[m - 1]].remove
        BY <1>2, <3>1
      <3>3. m - 1 < high
        BY <3>1, <3>2 DEF FlaggedBelowHigh, FlagsBelow
      <3> QED BY <1>1, <3>3
    <2> QED BY <2>1, <2>2
  <1>5. ASSUME NEW j \in Slot, Marked[Compacted[j]].remove PROVE j < high
    <2> SUFFICES ASSUME ~(j < high) PROVE FALSE
      OBVIOUS
    <2>1. j \in m .. PoolMax-1 /\ ~(j < m) /\ ~(j < Cardinality(Kept))
      BY <1>1, <1>3, <1>4 DEF Slot
    <2>2. Compacted[j] = tuplespace[j] /\ tuplespace[j] \in Slot
      BY <1>1, <1>3, <2>1 DEF Compacted, Cells
    <2>3. tuplespace[j] \notin Freed
      BY <1>3, <2>1
    <2> QED BY <1>5, <2>2, <2>3 DEF Freed
  <1> QED BY <1>1, <1>3, <1>4, <1>5 DEF FlagsBelow

LEMMA NoFlagsBelow ==
  ASSUME tuplespace' \in [Slot -> Slot], \A s \in Slot : ~pool'[s].remove
  PROVE  FlaggedBelowHigh'
  BY DEF FlaggedBelowHigh, FlagsBelow

(* rewriting a record in use: the cell is below the high mark *)
LEMMA RewriteBelow ==
  ASSUME IInv, FlaggedBelowHigh, NEW k, NEW i \in Slot, FoundAt(KeyAt, poolnum, k, i),
         NEW r, pool' = [pool EXCEPT ![tuplespace[i]] = r], UNCHANGED <<tuplespace, high>>
  PROVE  FlaggedBelowHigh'
  <1>1. /\ i \in 0 .. poolnum-1 /\ poolnum <= high /\ poolnum \in Int /\ high \in Int
        /\ pool \in [Slot -> Record] /\ tuplespace \in [Slot -> Slot] /\ Permutes(tuplespace)
    BY DEF FoundAt, IInv, MarksBracket, TypeOK, Cells
  <1> SUFFICES ASSUME NEW j \in Slot, pool'[tuplespace[j]].remove PROVE j < high
    BY DEF FlaggedBelowHigh, FlagsBelow
  <1>2. CASE j = i
    BY <1>1, <1>2
  <1>3. CASE j # i
    <2>1. tuplespace[j] # tuplespace[i]
      BY <1>1, <1>3 DEF Permutes
    <2>2. pool[tuplespace[j]].remove
      BY <1>1, <2>1
    <2> QED BY <2>2 DEF FlaggedBelowHigh, FlagsBelow
  <1> QED BY <1>2, <1>3

LEMMA StartsOverBelow ==
  ASSUME IInv, NEW k \in Key, NEW cmd \in Command, RequestStartsOver(k, cmd), IInv'
  PROVE  FlaggedBelowHigh'
  <1>1. /\ Freed = {} /\ Cells(pool, tuplespace, poolnum) /\ pool \in [Slot -> Record]
        /\ AddTuple(pool, Identity, 0, 0, Fresh(k, cmd = "CMD_WHITELIST"))
    BY DEF RequestStartsOver, IInv, TypeOK
  <1>2. \A s \in Slot : ~pool[s].remove
    BY <1>1, MarkedFacts DEF Freed
  <1>3. \A s \in Slot : ~pool'[s].remove
    <2>1. ~Fresh(k, cmd = "CMD_WHITELIST").remove
      BY DEF Fresh
    <2> QED BY <1>1, <1>2, <2>1, AddKeepsUnflagged
  <1> QED BY <1>3, NoFlagsBelow DEF IInv, TypeOK

LEMMA StepBelow ==
  ASSUME IInv, FlaggedBelowHigh, [Next]_vars
  PROVE  FlaggedBelowHigh'
  <1>0. IInv'
    BY StepIInv
  <1>1. CASE status' # "up" \/ LoadDone
    <2>1. \A s \in Slot : ~pool'[s].remove
      <3>1. CASE status' # "up"
        BY <1>0, <3>1 DEF IInv, FlagsOnlyWhenUp
      <3>2. CASE LoadDone
        BY <3>2 DEF LoadDone, IInv, FlagsOnlyWhenUp
      <3> QED BY <1>1, <3>1, <3>2
    <2> QED BY <1>0, <2>1, NoFlagsBelow DEF IInv, TypeOK
  <1>2. ASSUME NEW k \in Key, NEW cmd \in Command, RequestKnown(k, cmd)
        PROVE  FlaggedBelowHigh'
    <2>1. PICK i \in Slot :
            /\ FoundAt(KeyAt, poolnum, k, i)
            /\ \E r : pool' = [pool EXCEPT ![tuplespace[i]] = r]
      BY <1>2 DEF RequestKnown
    <2> QED BY <1>2, <2>1, RewriteBelow DEF RequestKnown, marks
  <1>3. ASSUME NEW k \in Key, TupleRemove(k) PROVE FlaggedBelowHigh'
    <2>1. PICK i \in Slot :
            /\ FoundAt(KeyAt, poolnum, k, i)
            /\ \E r : pool' = [pool EXCEPT ![tuplespace[i]] = r]
      BY <1>3 DEF TupleRemove
    <2> QED BY <1>3, <2>1, RewriteBelow DEF TupleRemove, marks
  <1>4. ASSUME NEW k \in Key, NEW cmd \in Command, RequestNew(k, cmd)
        PROVE  FlaggedBelowHigh'
    <2>1. PICK i \in 0 .. poolnum :
            AddTuple(pool, tuplespace, poolnum, i, Fresh(k, cmd = "CMD_WHITELIST"))
      BY <1>4 DEF RequestNew
    <2>2. /\ Cells(pool, tuplespace, poolnum) /\ poolnum \in 0 .. PoolMax - 1
          /\ high \in 0 .. PoolMax
      BY <1>4, SlotFacts DEF RequestNew, IInv, TypeOK
    <2> QED BY <2>1, <2>2, AddKeepsBelow DEF FlaggedBelowHigh
  <1>5. ASSUME NEW k \in Key, NEW cmd \in Command, RequestStartsOver(k, cmd)
        PROVE  FlaggedBelowHigh'
    BY <1>0, <1>5, StartsOverBelow
  <1>6. ASSUME NEW k \in Key, NEW cmd \in Command, RequestCleansHouse(k, cmd), status' = "up"
        PROVE  FlaggedBelowHigh'
    <2> DEFINE n == Cardinality(Kept)
    <2>1. PICK idx : /\ idx \in 0 .. n
                     /\ AddTuple(Marked, Compacted, n, idx, Fresh(k, cmd = "CMD_WHITELIST"))
      <3>1. PICK i \in 0 .. poolnum :
              LET idx == IF n = 0 THEN 0 ELSE i
              IN  \/ /\ idx <= n
                     /\ AddTuple(Marked, Compacted, n, idx, Fresh(k, cmd = "CMD_WHITELIST"))
                  \/ End("bad_index")
        BY <1>6 DEF RequestCleansHouse
      <3>2. (IF n = 0 THEN 0 ELSE i) \in Nat /\ n \in Nat
        BY SweepStep DEF IInv, TypeOK
      <3>3. ~End("bad_index")
        BY <1>6 DEF End
      <3> HIDE DEF n
      <3> QED BY <3>1, <3>2, <3>3
    <2>2. n \in 0 .. PoolMax - 1 /\ Cells(Marked, Compacted, n) /\ high \in 0 .. PoolMax
      <3>1. n \in 0 .. poolnum /\ n < PoolMax /\ poolnum = PoolMax
        BY <1>6, SweepStep, FullSweepFails DEF RequestCleansHouse
      <3>2. n \in 0 .. PoolMax - 1
        BY <3>1, SlotFacts
      <3> QED BY <3>2, SweepStep DEF IInv, TypeOK
    <2>3. FlagsBelow(Marked, Compacted, high)
      BY SweepStaysBelow
    <2> HIDE DEF n
    <2> QED BY <2>1, <2>2, <2>3, AddKeepsBelow
  <1>7. CASE Expire /\ status' = "up"
    <2>1. pool' = Marked /\ tuplespace' = Compacted /\ high' = MaxOf(high, Cardinality(Kept))
      BY <1>7 DEF Expire, End
    <2>2. /\ Cardinality(Kept) \in Nat /\ Cardinality(Freed) \in Nat
          /\ Cardinality(Kept) + Cardinality(Freed) <= high
          /\ FlagsBelow(Marked, Compacted, high) /\ high \in Int
      BY SweepStaysBelow DEF IInv, TypeOK
    <2>3. high' = high
      BY <2>1, <2>2 DEF MaxOf
    <2> QED BY <2>1, <2>2, <2>3 DEF FlaggedBelowHigh, FlagsBelow
  <1>8. CASE SaveState \/ SaveCut \/ Tick \/ UNCHANGED vars
    <2>1. UNCHANGED <<pool, tuplespace, high>>
      BY <1>8 DEF SaveState, SaveCut, Tick, vars, memory
    <2> QED BY <2>1 DEF FlaggedBelowHigh, FlagsBelow
  <1>9. ASSUME LoadKnown \/ LoadNew \/ LoadFull \/ Terminate \/ Crash \/ Start
               \/ \E k \in Key : RequestAborts(k)
        PROVE  status' # "up"
    BY <1>9 DEF LoadKnown, LoadNew, LoadFull, Terminate, Crash, Start, RequestAborts, End
  <1> QED BY <1>1, <1>2, <1>3, <1>4, <1>5, <1>6, <1>7, <1>8, <1>9 DEF Next

LEMMA FailsLate ==
  ASSUME IInv, FlaggedBelowHigh, [Next]_vars
  PROVE  FailsWhenFull
  <1> SUFFICES ASSUME status # "assert_expire", status' = "assert_expire" PROVE high = PoolMax
    BY DEF FailsWhenFull
  <1>1. ~ExpireOk
    <2>1. ASSUME LoadKnown \/ LoadNew \/ LoadFull \/ LoadDone PROVE FALSE
      BY <2>1 DEF LoadKnown, LoadNew, LoadFull, LoadDone, End
    <2>2. ASSUME NEW k \in Key, NEW cmd \in Command,
                 \/ RequestKnown(k, cmd) \/ RequestNew(k, cmd)
                 \/ RequestStartsOver(k, cmd) \/ RequestCleansHouse(k, cmd)
          PROVE  FALSE
      BY <2>2 DEF RequestKnown, RequestNew, RequestStartsOver, RequestCleansHouse, CountAndReply, End
    <2>3. ASSUME NEW k \in Key, RequestAborts(k) \/ TupleRemove(k) PROVE ~ExpireOk
      BY <2>3 DEF RequestAborts, TupleRemove
    <2>4. ASSUME Expire PROVE ~ExpireOk
      BY <2>4 DEF Expire
    <2>5. ASSUME SaveState \/ SaveCut \/ Terminate \/ Crash \/ Start \/ Tick \/ UNCHANGED vars PROVE FALSE
      BY <2>5 DEF SaveState, SaveCut, Terminate, Crash, Start, Tick, End, vars
    <2> QED BY <2>1, <2>2, <2>3, <2>4, <2>5 DEF Next
  <1>2. ~(Cardinality(Kept) + Cardinality(Freed) < PoolMax)
    BY <1>1 DEF ExpireOk, ExpireFits
  <1>3. /\ Cardinality(Kept) \in Nat /\ Cardinality(Freed) \in Nat
        /\ Cardinality(Kept) + Cardinality(Freed) <= high
        /\ high \in 0 .. PoolMax /\ PoolMax \in Nat
    BY SweepStaysBelow, SlotFacts DEF IInv, TypeOK
  <1> QED BY <1>2, <1>3

LEMMA InitBelow == Init => FlaggedBelowHigh
  BY DEF Init, FlaggedBelowHigh, FlagsBelow, Blank, Identity

(***************************************************************************)
(* The assertion of line 219, which the legal case of a full pool fails,   *)
(* fails in no other: only a process whose pool has been full is ended by  *)
(* tuple_expire().                                                         *)
(***************************************************************************)
THEOREM AssertionNeedsFullPool == Spec => FailsOnlyWhenFull
  <1>1. IInv /\ FlaggedBelowHigh /\ [Next]_vars => FlaggedBelowHigh'
    BY StepBelow
  <1>2. IInv /\ FlaggedBelowHigh /\ [Next]_vars => [FailsWhenFull]_vars
    BY FailsLate
  <1> QED BY <1>1, <1>2, InitBelow, Invariance, PTL DEF Spec, FailsOnlyWhenFull
=============================================================================
