---------------------------- MODULE PrefixRules ----------------------------
(***************************************************************************)
(* What the IP list of gld promises the operator: a table of rules, each   *)
(* for a range of addresses given by its leading bits, where the longest   *)
(* range that holds an address decides.  The range of all addresses always *)
(* has a rule.  A restart brings back the rules of the last save and       *)
(* counts their hits from zero; if the save was cut off, it brings back    *)
(* some of them, each as it was, and none that was not saved.              *)
(***************************************************************************)
EXTENDS Integers, Sequences

CONSTANTS
  Bits,        \* the length of an address
  Verdicts     \* the commands a rule may carry

NONE   == "none"

VARIABLES
  rules,       \* the command of each range, or NONE
  hits,        \* how many addresses each range has decided
  saved,       \* the rules the next start will find
  whole,       \* were all of them written
  serving      \* FALSE until the file has been read, and after a stop

rvars == <<rules, hits, saved, whole, serving>>

Address == [1..Bits -> {0, 1}]
Range   == UNION {[1..n -> {0, 1}] : n \in 0..Bits}
All     == <<>>

Holds(r, a) == Len(r) <= Len(a) /\ SubSeq(a, 1, Len(r)) = r

(* the range whose rule decides about the address a *)
Deciding(table, r, a) ==
  /\ table[r] # NONE /\ Holds(r, a)
  /\ \A q \in Range : table[q] # NONE /\ Holds(q, a) => Len(q) <= Len(r)

NoRules == [r \in Range |-> IF r = All THEN "greylist" ELSE NONE]
NoHits  == [r \in Range |-> 0]

(* what may be read back of a table that was not written to its end *)
Remains(table) == {[r \in Range |-> IF r \in kept THEN table[r] ELSE NoRules[r]] :
                     kept \in SUBSET {r \in Range : table[r] # NoRules[r]}}

Init ==
  /\ saved \in [Range -> Verdicts \cup {NONE}] /\ saved[All] # NONE /\ whole = TRUE
  /\ rules = saved /\ hits = NoHits /\ serving = FALSE

Ask(a) ==
  /\ serving
  /\ \E r \in Range : /\ hits' = [hits EXCEPT ![r] = @ + 1]
                      /\ Deciding(rules, r, a)
  /\ UNCHANGED <<rules, saved, whole, serving>>

Add(r, v) ==
  /\ serving
  /\ rules' = [rules EXCEPT ![r] = v]
  /\ UNCHANGED <<hits, saved, whole, serving>>

(* The rule for all addresses cannot be removed. *)
Remove(r) ==
  /\ serving /\ r # All
  /\ rules' = [rules EXCEPT ![r] = NONE]
  /\ UNCHANGED <<hits, saved, whole, serving>>

Save ==
  /\ serving /\ whole' = TRUE
  /\ saved' = rules
  /\ UNCHANGED <<rules, hits, serving>>

SaveCut ==
  /\ serving /\ whole' = FALSE
  /\ saved' \in Remains(rules)
  /\ UNCHANGED <<rules, hits, serving>>

(* A stop may save first; the rules that were not saved are lost with it. *)
Stop ==
  /\ serving
  /\ serving' = FALSE
  /\ \/ UNCHANGED <<saved, whole>>
     \/ saved' = rules /\ whole' = TRUE
  /\ rules' = saved' /\ hits' = NoHits

Restart ==
  /\ ~serving
  /\ serving' = TRUE
  /\ UNCHANGED <<rules, hits, saved, whole>>

Next ==
  \/ \E a \in Address : Ask(a)
  \/ \E r \in Range : Remove(r) \/ \E v \in Verdicts : Add(r, v)
  \/ Save \/ SaveCut \/ Stop \/ Restart

Spec == Init /\ [][Next]_rvars
=============================================================================
