----------------------------- MODULE SenderView -----------------------------
(***************************************************************************)
(* Greylisting.tla with a memory of what each sender did, kept apart from  *)
(* the tuples the server stores, to state what a sender can count on.      *)
(***************************************************************************)
EXTENDS Greylisting

ASSUME TimeoutAssumption == GreyTimeout <= WhiteTimeout

VARIABLES
  first,    \* when the sender's unbroken series of attempts began
  last,     \* the last attempt of that series
  ever,     \* the first attempt this process has seen
  vouched   \* the stored keys that somebody else vouched for

history  == <<first, last, ever, vouched>>
viewVars == <<vars, history>>

Never == -1

(* a series is broken by a pause longer than the life of a grey tuple *)
InSeries(k) == first[k] # Never /\ now - last[k] <= GreyTimeout

(* the tuples a step throws away although they had not timed out: removed  *)
(* on demand, given up for lack of room, or lost with the process          *)
Lost == {k \in DOMAIN db \ DOMAIN db' : db[k].doomed \/ ~Stale(db[k])}

Forget(f) == [k \in Key |-> IF k \in Lost \/ serving' = "down" THEN Never ELSE f[k]]

Ask(k, cmd) ==
  /\ AskAgain(k, cmd) \/ AskFirst(k, cmd)
  /\ first' = [Forget(first) EXCEPT ![k] = IF InSeries(k) THEN first[k] ELSE now]
  /\ last'  = [Forget(last) EXCEPT ![k] = now]
  /\ ever'  = IF ever[k] = Never THEN [ever EXCEPT ![k] = now] ELSE ever
  /\ vouched' = (vouched \cap DOMAIN db') \cup (IF cmd = "CMD_WHITELIST" THEN {k} ELSE {})

LoadView(k) ==
  /\ Load(k)
  /\ vouched' = (vouched \cap DOMAIN db') \cup {k}
  /\ UNCHANGED <<first, last, ever>>

Other ==
  /\ \/ \E k \in Key : Remove(k)
     \/ Ready \/ Sweep \/ Save \/ SaveCut \/ Stop \/ Restart \/ Tick
  /\ first' = Forget(first) /\ last' = Forget(last)
  /\ ever' = IF serving' = "down" THEN [k \in Key |-> Never] ELSE ever
  /\ vouched' = vouched \cap DOMAIN db'

ViewInit == /\ Init
            /\ first = [k \in Key |-> Never] /\ last = first /\ ever = first
            /\ vouched = {}

ViewNext == \/ \E k \in Key : LoadView(k) \/ \E cmd \in Command : Ask(k, cmd)
            \/ Other

ViewSpec == ViewInit /\ [][ViewNext]_viewVars
-----------------------------------------------------------------------------
(***************************************************************************)
(* A sender that keeps trying, never pausing longer than the life of a     *)
(* grey tuple, is accepted once its first attempt is an embargo ago,       *)
(* unless its tuple was removed, given up or lost with the process.        *)
(***************************************************************************)
Rewarded == \A k \in Key, cmd \in Command :
              Ask(k, cmd) /\ InSeries(k) /\ now - first[k] >= Embargo => reply' = "accept"
PersistenceIsRewarded == [][Rewarded]_viewVars

(***************************************************************************)
(* Nobody gets in early: an ordinary request is accepted only for a key    *)
(* the operator or the whitelist file vouched for, or one that this        *)
(* process saw for the first time at least an embargo ago.                 *)
(***************************************************************************)
InTime == \A k \in Key :
            Ask(k, "CMD_GREYLIST") /\ reply' = "accept"
              => \/ k \in vouched
                 \/ ever[k] # Never /\ now - ever[k] >= Embargo
NobodyIsEarly == [][InTime]_viewVars
=============================================================================
