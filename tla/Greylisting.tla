---------------------------- MODULE Greylisting ----------------------------
(***************************************************************************)
(* What the tuple space promises, without slots, pointers or searches: a   *)
(* map from keys to tuples of bounded size, with an embargo, two timeouts, *)
(* removal on demand, and a file of whitelisted keys that outlives the     *)
(* process.  TupleSpace.tla implements it when assertions are compiled in. *)
(***************************************************************************)
EXTENDS Integers, FiniteSets

CONSTANTS Key, Capacity, Embargo, GreyTimeout, WhiteTimeout, MaxTime

(* c_poolmax and the timeouts of the configuration *)
Sized == /\ Capacity \in Nat \ {0} /\ Embargo \in Nat
         /\ GreyTimeout \in Nat /\ WhiteTimeout \in Nat /\ MaxTime \in Nat

ASSUME SizeAssumption == Sized

VARIABLES
  db,        \* the tuples, by key
  now,       \* the clock
  saved,     \* the keys in the whitelist file, and whether all were written
  pending,   \* the keys still to be loaded from it
  serving,   \* "loading", "up" or "down"
  reply      \* the answer to the last request

vars == <<db, now, saved, pending, serving, reply>>

Command == {"CMD_GREYLIST", "CMD_WHITELIST"}
Time    == 0 .. MaxTime
Tuple   == [ctime : Time, atime : Time, white : BOOLEAN, doomed : BOOLEAN]
SavedFile == [keys : SUBSET Key, whole : BOOLEAN]
NoTuple == [k \in {} |-> 0]

Has(k)     == k \in DOMAIN db
Put(d, k, t) == [x \in DOMAIN d \cup {k} |-> IF x = k THEN t ELSE d[x]]

Stale(t) == now - t.atime > (IF t.white THEN WhiteTimeout ELSE GreyTimeout)

(* the tuples a sweep keeps *)
Survivors == [k \in {x \in DOMAIN db : ~db[x].doomed /\ ~Stale(db[x])} |-> db[k]]
Worthy    == {k \in DOMAIN db : db[k].white /\ ~db[k].doomed}

(* what remains when one more tuple has to fit *)
Full    == Cardinality(DOMAIN db) = Capacity
MadeRoom == IF ~Full THEN db
            ELSE IF Survivors = db THEN NoTuple
            ELSE Survivors

Init ==
  /\ db = NoTuple /\ now = 0
  /\ saved \in [keys : SUBSET Key, whole : {TRUE}] /\ pending = saved.keys
  /\ serving = "loading" /\ reply = "none"

(* one line of the file; a later line may name the same key again *)
Load(k) ==
  /\ serving = "loading" /\ k \in pending
  /\ pending' \in {pending, pending \ {k}}
  /\ db' = IF Has(k) THEN [db EXCEPT ![k] = [@ EXCEPT !.atime = now, !.white = TRUE]]
           ELSE Put(MadeRoom, k, [ctime |-> now, atime |-> now, white |-> TRUE, doomed |-> FALSE])
  /\ UNCHANGED <<now, saved, serving, reply>>

Ready ==
  /\ serving = "loading" /\ pending = {}
  /\ serving' = "up"
  /\ UNCHANGED <<db, now, saved, pending, reply>>

(* a mistake: the embargo is a second too short *)
PromotedTooEarly(k, cmd) ==
  db[k].white \/ cmd = "CMD_WHITELIST" \/ now - db[k].ctime >= Embargo - 1

Promoted(k, cmd) ==
  db[k].white \/ cmd = "CMD_WHITELIST" \/ now - db[k].ctime >= Embargo

(* mistakes: the tuple starts anew, or stores when it will be stale *)
AskAgainAfresh(k, cmd) ==
  /\ serving = "up" /\ Has(k)
  /\ db' = [db EXCEPT ![k] = [@ EXCEPT !.ctime = now, !.atime = now, !.white = Promoted(k, cmd)]]
  /\ reply' = IF Promoted(k, cmd) THEN "accept" ELSE "greylist"
  /\ UNCHANGED <<now, saved, pending, serving>>

AskAgainStoresDeadline(k, cmd) ==
  /\ serving = "up" /\ Has(k)
  /\ db' = [db EXCEPT ![k] = [@ EXCEPT !.atime = now + GreyTimeout, !.white = Promoted(k, cmd)]]
  /\ reply' = IF Promoted(k, cmd) THEN "accept" ELSE "greylist"
  /\ UNCHANGED <<now, saved, pending, serving>>

AskAgain(k, cmd) ==
  /\ serving = "up" /\ Has(k)
  /\ db' = [db EXCEPT ![k] = [@ EXCEPT !.atime = now, !.white = Promoted(k, cmd)]]
  /\ reply' = IF Promoted(k, cmd) THEN "accept" ELSE "greylist"
  /\ UNCHANGED <<now, saved, pending, serving>>

AskFirst(k, cmd) ==
  /\ serving = "up" /\ ~Has(k)
  /\ LET white == cmd = "CMD_WHITELIST"
     IN  /\ db' = Put(MadeRoom, k, [ctime |-> now, atime |-> now, white |-> white, doomed |-> FALSE])
         /\ reply' = IF white THEN "accept" ELSE "greylist"
  /\ UNCHANGED <<now, saved, pending, serving>>

Remove(k) ==
  /\ serving = "up" /\ Has(k)
  /\ db' = [db EXCEPT ![k].doomed = TRUE]
  /\ reply' = "none"
  /\ UNCHANGED <<now, saved, pending, serving>>

Sweep ==
  /\ serving = "up"
  /\ db' = Survivors
  /\ reply' = "none"
  /\ UNCHANGED <<now, saved, pending, serving>>

Save ==
  /\ serving = "up"
  /\ saved' = [keys |-> Worthy, whole |-> TRUE]
  /\ reply' = "none"
  /\ UNCHANGED <<db, now, pending, serving>>

(* a save is cut off: some keys are left, and half a line may read as another *)
SaveCut ==
  /\ serving = "up"
  /\ \E keys \in SUBSET Key :
       /\ \A j, k \in keys \ Worthy : j = k
       /\ saved' = [keys |-> keys, whole |-> FALSE]
  /\ reply' = "none"
  /\ UNCHANGED <<db, now, pending, serving>>

(* the process ends, in good order or not; the tuples are gone *)
Stop ==
  /\ serving # "down"
  /\ \/ saved' = saved
     \/ serving = "up" /\ saved' = [keys |-> Worthy, whole |-> TRUE]
  /\ db' = NoTuple /\ pending' = {} /\ reply' = "none" /\ serving' = "down"
  /\ UNCHANGED now

Restart ==
  /\ serving = "down"
  /\ serving' = "loading" /\ pending' = saved.keys
  /\ UNCHANGED <<db, now, saved, reply>>

Tick ==
  /\ serving = "up" /\ now < MaxTime
  /\ now' = now + 1
  /\ UNCHANGED <<db, saved, pending, serving, reply>>

Next ==
  \/ \E k \in Key :
       \/ Load(k) \/ Remove(k)
       \/ \E cmd \in Command : AskAgain(k, cmd) \/ AskFirst(k, cmd)
  \/ Ready \/ Sweep \/ Save \/ SaveCut \/ Stop \/ Restart \/ Tick

Spec == Init /\ [][Next]_vars
-----------------------------------------------------------------------------
(* the types of the state; the map never outgrows the pool *)
TypeOK ==
  /\ DOMAIN db \subseteq Key /\ Cardinality(DOMAIN db) <= Capacity
  /\ \A k \in DOMAIN db : db[k] \in Tuple
  /\ now \in Time
  /\ saved \in SavedFile /\ pending \subseteq Key
  /\ serving \in {"loading", "up", "down"}
  /\ reply \in {"none", "accept", "greylist"}
=============================================================================
