------------------------------ MODULE BiSearch ------------------------------
(***************************************************************************)
(* bisearch() of common/bisearch.c, one step per turn of its loop.  The    *)
(* array, its used length and the key are whatever the caller passes: the  *)
(* state does not assume that the array is sorted, because after some      *)
(* calls (see TupleSpace) it need not be.                                  *)
(***************************************************************************)
EXTENDS OrderedArray

CONSTANTS MaxLen,      \* the longest array of the model
          Key          \* the keys, in the order of the comparison callback

ASSUME MaxLenAssumption == MaxLen \in Nat
ASSUME KeyAssumption    == Key \subseteq Int

VARIABLES base, nelem, key,   \* the arguments
          first, len,          \* the window still to be searched
          pc,                  \* "loop", then "found" or "missing"
          result               \* its field idx

args == <<base, nelem, key>>
searchVars == <<base, nelem, key, first, len, pc, result>>

SearchInit ==
  /\ nelem \in 0 .. MaxLen
  /\ base \in [0 .. MaxLen-1 -> Key]
  /\ key \in Key
  /\ first = 0
  /\ len = nelem
  /\ pc = "loop"
  /\ result = 0

half   == len \div 2
middle == first + half

GoRight ==
  /\ pc = "loop" /\ len > 0
  /\ key > base[middle]
  /\ first' = middle + 1
  /\ len' = len - half - 1
  /\ UNCHANGED <<args, pc, result>>

(* a mistake: the larger half is kept, and a window of one cell never closes *)
GoLeftKeepsLarger ==
  /\ pc = "loop" /\ len > 0
  /\ key < base[middle]
  /\ len' = len - half
  /\ UNCHANGED <<args, first, pc, result>>

GoLeft ==
  /\ pc = "loop" /\ len > 0
  /\ key < base[middle]
  /\ len' = half
  /\ UNCHANGED <<args, first, pc, result>>

(* a mistake: the window's first cell is reported *)
HitAtFirst ==
  /\ pc = "loop" /\ len > 0
  /\ key = base[middle]
  /\ pc' = "found"
  /\ result' = first
  /\ UNCHANGED <<args, first, len>>

Hit ==
  /\ pc = "loop" /\ len > 0
  /\ key = base[middle]
  /\ pc' = "found"
  /\ result' = middle
  /\ UNCHANGED <<args, first, len>>

Miss ==
  /\ pc = "loop" /\ len = 0
  /\ pc' = "missing"
  /\ result' = first
  /\ UNCHANGED <<args, first, len>>

SearchNext == GoRight \/ GoLeft \/ Hit \/ Miss

SearchSpec     == SearchInit /\ [][SearchNext]_searchVars
FairSearchSpec == SearchSpec /\ WF_searchVars(SearchNext)

-----------------------------------------------------------------------------
SearchTypeOK ==
  /\ nelem \in 0 .. MaxLen
  /\ base \in [0 .. MaxLen-1 -> Key]
  /\ key \in Key
  /\ first \in 0 .. nelem
  /\ len \in 0 .. nelem - first
  /\ pc \in {"loop", "found", "missing"}
  /\ result \in 0 .. nelem

(***************************************************************************)
(* The window is closed in by smaller keys on its left and by larger ones  *)
(* on its right: the loop invariant behind the two properties below.       *)
(***************************************************************************)
WindowBounds ==
  /\ first > 0 => base[first-1] < key
  /\ first + len < nelem => key < base[first+len]

(***************************************************************************)
(* What every caller relies on, for every array: a result with a datum     *)
(* names a cell holding the key, and a result without one names a cell     *)
(* between a smaller and a larger neighbour, where the caller will insert. *)
(***************************************************************************)
MeetsContract ==
  /\ pc = "found"   => FoundAt(base, nelem, key, result)
  /\ pc = "missing" => MissingAt(base, nelem, key, result)

(***************************************************************************)
(* On a sorted array the search is exact: it misses only keys that are     *)
(* not there.  This is the lookup that decides between "seen before" and   *)
(* "never seen" for a tuple, and between a rule and the default of a list. *)
(***************************************************************************)
ExactWhenSorted ==
  StrictlySorted(base, nelem) /\ pc = "missing"
    => \A i \in 0 .. nelem-1 : base[i] # key

(***************************************************************************)
(* The loop ends, for every array.                                        *)
(***************************************************************************)
Terminates == <>(pc # "loop")
=============================================================================
