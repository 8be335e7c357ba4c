---------------------------- MODULE OrderedArray ----------------------------
(***************************************************************************)
(* The vocabulary shared by every sorted array of the greylist daemon: the *)
(* tuple space (server/tuple.c) and the four rule lists                    *)
(* (server/emaildomain.c).  Both keep a C array whose first n cells are    *)
(* used, look a key up with bisearch() and open a hole with memmove().     *)
(* Arrays are functions on 0..m-1, as in C; keys are numbers, ordered the  *)
(* way the comparison callback orders the records.                         *)
(***************************************************************************)
EXTENDS Integers, FiniteSets

(***************************************************************************)
(* What bisearch() reports: the cell that holds the key, or the cell where *)
(* it would have to be inserted.  BiSearch.tla shows the code meets it,    *)
(* for any array, sorted or not.                                           *)
(***************************************************************************)
FoundAt(a, n, k, i) == /\ i \in 0 .. n-1
                       /\ a[i] = k

MissingAt(a, n, k, i) == /\ i \in 0 .. n
                         /\ i > 0 => a[i-1] < k
                         /\ i < n => k < a[i]

StrictlySorted(a, n) == \A i, j \in 0 .. n-1 : i < j => a[i] < a[j]

(* a mistake: memmove() is told to move one cell less *)
InsertAtMovesOneLess(a, n, idx, x) ==
  [j \in DOMAIN a |-> IF j = idx THEN x
                      ELSE IF idx < j /\ j < n THEN a[j-1]
                      ELSE a[j]]

(***************************************************************************)
(* memmove(&a[idx+1],&a[idx],(n-idx)*size); a[idx] = x                     *)
(***************************************************************************)
InsertAt(a, n, idx, x) ==
  [j \in DOMAIN a |-> IF j = idx THEN x
                      ELSE IF idx < j /\ j <= n THEN a[j-1]
                      ELSE a[j]]

(* a mistake: memmove() is told to move one cell too few *)
DeleteAtMovesOneLess(a, n, idx) ==
  [j \in DOMAIN a |-> IF idx <= j /\ j < n-2 THEN a[j+1] ELSE a[j]]

(***************************************************************************)
(* memmove(&a[idx],&a[idx+1],(n-idx-1)*size): the last used cell keeps its *)
(* old contents.                                                           *)
(***************************************************************************)
DeleteAt(a, n, idx) ==
  [j \in DOMAIN a |-> IF idx <= j /\ j < n-1 THEN a[j+1] ELSE a[j]]

(***************************************************************************)
(* The members of a finite set of numbers in increasing order, from 0: a   *)
(* loop that walks an array and keeps some cells keeps them in this order. *)
(***************************************************************************)
Rank(S, x) == Cardinality({y \in S : y < x})
Nth(S, r)  == CHOOSE x \in S : Rank(S, x) = r
=============================================================================
