------------------------------ MODULE RuleMap ------------------------------
(***************************************************************************)
(* What one of the four rule lists of gld (to, to-domain, from,            *)
(* from-domain) promises the operator: at most one rule per text, and a    *)
(* default rule for the texts without one; each counts the requests it     *)
(* decided since it was last set.  A restart brings back what was saved.   *)
(* A rule that came with a word gld does not know is not saved.  If the    *)
(* save was cut off, a restart brings back some of the rules, each as it   *)
(* was, and no default; the line that was torn may read as the rule of     *)
(* one other text.                                                         *)
(***************************************************************************)
EXTENDS Naturals

CONSTANTS
  Text,        \* the addresses or domains rules are about
  Verdicts,    \* the commands the operator may give a rule
  Words,       \* the commands a rule may carry
  OldCounts    \* do the counts survive a restart

NONE    == "none"
UNKNOWN == "unknown"   \* a word that is no command

VARIABLES
  rules,       \* the rule of each text, or NoRule
  default,     \* the rule of the texts that have none
  saved,       \* the rules and the default the next start will find
  whole,       \* were all of them written
  serving      \* FALSE until the file has been read, and after a stop

rvars == <<rules, default, saved, whole, serving>>

Rule     == [cmd : Words, count : Nat]
NoRule   == [cmd |-> NONE, count |-> 0]
New(v)   == [cmd |-> v, count |-> 0]
Hit(r)   == [r EXCEPT !.count = @ + 1]
Table    == [rules : [Text -> Rule \cup {NoRule}], default : Rule]
Recalled(r) == IF OldCounts THEN r ELSE [r EXCEPT !.count = 0]

Recall(t) == /\ rules' = [k \in Text |-> Recalled(t.rules[k])]
             /\ default' = Recalled(t.default)

(* what a save makes of the rules *)
Lasting(r) == IF r.cmd = UNKNOWN THEN NoRule ELSE r
Snapshot == [rules   |-> [k \in Text |-> Lasting(rules[k])],
             default |-> IF default.cmd = UNKNOWN THEN New("greylist") ELSE default]

(* and what may be read back if it was cut off *)
Strange(t, s) == {k \in Text : t.rules[k] \notin {s.rules[k], NoRule}}
Remains ==
  LET s == Snapshot IN
  {t \in Table : t # s => /\ t.default = New("greylist")
                          /\ \A j, k \in Strange(t, s) : j = k
                          /\ \A k \in Strange(t, s) :
                               t.rules[k] \in {s.rules[j] : j \in Text} \cup {default}}

Init ==
  /\ saved \in Table /\ whole = TRUE
  /\ rules = [k \in Text |-> Recalled(saved.rules[k])]
  /\ default = Recalled(saved.default)
  /\ serving = FALSE

(* exactly one rule counts the request *)
Ask(k) ==
  /\ serving
  /\ \/ rules[k] # NoRule /\ rules' = [rules EXCEPT ![k] = Hit(@)] /\ UNCHANGED default
     \/ rules[k] = NoRule /\ default' = Hit(default) /\ UNCHANGED rules
  /\ UNCHANGED <<saved, whole, serving>>

Set(k, v) == /\ serving
             /\ rules' = [rules EXCEPT ![k] = New(v)]
             /\ UNCHANGED <<default, saved, whole, serving>>

SetDefault(v) == /\ serving
                 /\ default' = New(v)
                 /\ UNCHANGED <<rules, saved, whole, serving>>

Remove(k) == /\ serving
             /\ rules' = [rules EXCEPT ![k] = NoRule]
             /\ UNCHANGED <<default, saved, whole, serving>>

Save == /\ serving /\ whole' = TRUE
        /\ saved' = Snapshot
        /\ UNCHANGED <<rules, default, serving>>

SaveCut == /\ serving /\ whole' = FALSE
           /\ UNCHANGED <<rules, default, serving>>
           /\ saved' \in Remains

(* A stop may save first; what was not saved is lost with it. *)
Stop ==
  /\ serving /\ serving' = FALSE
  /\ \/ UNCHANGED <<saved, whole>>
     \/ saved' = Snapshot /\ whole' = TRUE
  /\ Recall(saved')

Restart == ~serving /\ serving' = TRUE /\ UNCHANGED <<rules, default, saved, whole>>

Next ==
  \/ Save \/ SaveCut \/ Stop \/ Restart
  \/ \E k \in Text : Ask(k) \/ Remove(k) \/ \E v \in Verdicts : Set(k, v)
  \/ \E v \in Verdicts : SetDefault(v)

Spec == Init /\ [][Next]_rvars
=============================================================================
