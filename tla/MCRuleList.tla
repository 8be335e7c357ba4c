----------------------------- MODULE MCRuleList -----------------------------
EXTENDS RuleList

R(k, v) == [kind |-> "rule", text |-> k, cmd |-> v, count |-> 1]
D(v)    == [kind |-> "default", text |-> NoText, cmd |-> v, count |-> 2]
C       == [kind |-> "skipped", text |-> NoText, cmd |-> NONE, count |-> 0]

(* One file with comments, a line that is too short and a text listed     *)
(* twice; one out of order with two defaults and an unknown word.  A save  *)
(* that is cut off at once leaves an empty one.                            *)
MCFiles == { << C, R(2, "reject"), Short, R(2, "greylist"), C, D("remove") >>,
             << D("reject"), R(3, UNKNOWN), R(1, "reject"), D(UNKNOWN) >> }
=============================================================================
