------------------------------- MODULE IPList -------------------------------
(***************************************************************************)
(* The IP list of gld (server/iplist.c): a binary tree over the bits of    *)
(* the IPv4 address, walked once per request by ip_match() and once per    *)
(* rule by ip_add_sm(), loaded from c_iplistfile by iplist_read() and      *)
(* written back by iplist_dump().                                          *)
(*                                                                         *)
(* A node of the tree is named by the bits that lead to it from the root.  *)
(* The two walks take one action per node; nothing else happens while a    *)
(* walk is under way, because gld is one thread.                           *)
(***************************************************************************)
EXTENDS Integers, Sequences, FiniteSets, FiniteSetsExt, SavedFile

CONSTANTS
  Bits,          \* the length of an address (32 in the code)
  Verdicts,      \* the commands a rule may carry
  Lists,         \* c_iplistfile as the first start may find it
  MaxRequests,   \* bound: lookups between two starts
  MaxChanges     \* bound: rules changed by the operator

NONE   == "none"     \* IFT_NONE: the node has no rule
REMOVE == "remove"   \* IFT_REMOVE

Root    == <<>>
Node    == UNION {[1..n -> {0, 1}] : n \in 0..Bits}
Address == [1..Bits -> {0, 1}]
Line    == [to : Node, cmd : Verdicts \cup {REMOVE}]

(* a line that is no rule: the reading of the file ends there *)
MALFORMED == "malformed"
Malformed == [to |-> Root, cmd |-> MALFORMED]
FileLine  == Line \cup {Malformed}

ASSUME BitsAssumption    == Bits \in Nat \ {0}
ASSUME VerdictAssumption == /\ "greylist" \in Verdicts
                            /\ NONE \notin Verdicts /\ REMOVE \notin Verdicts
                            /\ MALFORMED \notin Verdicts
ASSUME ListsAssumption   == Lists \subseteq Seq(FileLine)
ASSUME BoundAssumption   == MaxRequests \in Nat /\ MaxChanges \in Nat

VARIABLES
  nodes,         \* the nodes allocated so far
  match,         \* ipnode.match; NONE where there is no node
  count,         \* ipnode.count
  ipcnt,         \* g_ipcnt, the size of the array ip_table() allocates
  requests,      \* g_requests
  walk,          \* the walk under way, or the last one
  file,          \* c_iplistfile: its lines, and whether they are all there
  todo,          \* while loading, the lines not read yet
  status,
  changes        \* how many rules the operator has changed

tree == <<nodes, match, count, ipcnt>>
vars == <<nodes, match, count, ipcnt, requests, walk, file, todo, status, changes>>

(***************************************************************************)
(* A walk goes from the root towards `to'; it has gone down `depth' bits.  *)
(* "match" looks for the rule that decides about the address `to', and     *)
(* has passed `best' last; "told" is its end, with the verdict in cmd.     *)
(* "add" is on its way to give the node `to' the command cmd.              *)
(***************************************************************************)
Idle == [op |-> "idle", to |-> Root, depth |-> 0, best |-> Root, cmd |-> NONE]
Free == walk.op \in {"idle", "told"}

Prefix(s, n) == SubSeq(s, 1, n)
At    == Prefix(walk.to, walk.depth)
Child == Prefix(walk.to, walk.depth + 1)

Rules == {p \in nodes \ {Root} : match[p] # NONE}

FreshMatch == [p \in Node |-> IF p = Root THEN "greylist" ELSE NONE]

Init ==
  /\ nodes = {Root} /\ match = FreshMatch /\ count = [p \in Node |-> 0]
  /\ ipcnt = 1 /\ requests = 0
  /\ walk = Idle
  /\ \E lines \in Lists : file = Whole(lines) /\ todo = lines
  /\ status = "loading" /\ changes = 0
-----------------------------------------------------------------------------
(***************************************************************************)
(* ip_match()                                                              *)
(***************************************************************************)
MatchStart(a) ==
  /\ status = "up" /\ Free /\ requests < MaxRequests
  /\ requests' = requests + 1
  /\ walk' = [op |-> "match", to |-> a, depth |-> 0, best |-> Root, cmd |-> NONE]
  /\ UNCHANGED <<tree, file, todo, status, changes>>

(* a mistake: the first rule met is kept *)
BestKeepsFirst == IF match[At] # NONE /\ walk.best = Root THEN At ELSE walk.best

Best == IF match[At] # NONE THEN At ELSE walk.best

CanGoDown == walk.depth < Bits /\ Child \in nodes

MatchDown ==
  /\ walk.op = "match" /\ CanGoDown
  /\ walk' = [walk EXCEPT !.depth = @ + 1, !.best = Best]
  /\ UNCHANGED <<tree, requests, file, todo, status, changes>>

(* a mistake: the return at the end of ip_match(), which counts nothing *)
MatchEndUncounted ==
  /\ walk.op = "match" /\ ~CanGoDown
  /\ count' = IF walk.depth = Bits THEN count ELSE [count EXCEPT ![Best] = @ + 1]
  /\ walk' = [walk EXCEPT !.op = "told", !.best = Best, !.cmd = match[Best]]
  /\ UNCHANGED <<nodes, match, ipcnt, requests, file, todo, status, changes>>

MatchEnd ==
  /\ walk.op = "match" /\ ~CanGoDown
  /\ count' = [count EXCEPT ![Best] = @ + 1]
  /\ walk' = [walk EXCEPT !.op = "told", !.best = Best, !.cmd = match[Best]]
  /\ UNCHANGED <<nodes, match, ipcnt, requests, file, todo, status, changes>>
-----------------------------------------------------------------------------
(***************************************************************************)
(* ip_add_sm(): called for each line of the file, and for CMD_MCP_IPLIST.  *)
(***************************************************************************)
AddWalk(line) == [op |-> "add", to |-> line.to, depth |-> 0, best |-> Root, cmd |-> line.cmd]

LoadLine ==
  /\ status = "loading" /\ Free /\ todo # <<>> /\ Head(todo) # Malformed
  /\ walk' = AddWalk(Head(todo))
  /\ todo' = Tail(todo)
  /\ UNCHANGED <<tree, requests, file, status, changes>>

(* iplist_read() gives up, and its caller does not ask; what was read stays *)
LoadError ==
  /\ status = "loading" /\ Free /\ todo # <<>> /\ Head(todo) = Malformed
  /\ todo' = <<>>
  /\ UNCHANGED <<tree, requests, walk, file, status, changes>>

Change(line) ==
  /\ status = "up" /\ Free /\ changes < MaxChanges
  /\ walk' = AddWalk(line)
  /\ changes' = changes + 1
  /\ UNCHANGED <<tree, requests, file, todo, status>>

(* the missing nodes on the way are made, even if the rule is to be removed *)
AddDown ==
  /\ walk.op = "add" /\ walk.depth < Len(walk.to)
  /\ nodes' = nodes \cup {Child}
  /\ walk' = [walk EXCEPT !.depth = @ + 1]
  /\ UNCHANGED <<match, count, ipcnt, requests, file, todo, status, changes>>

(* mask 0: the rule for all addresses cannot be removed *)
AddRoot ==
  /\ walk.op = "add" /\ walk.to = Root
  /\ match' = IF walk.cmd = REMOVE THEN match ELSE [match EXCEPT ![Root] = walk.cmd]
  /\ walk' = Idle
  /\ UNCHANGED <<nodes, count, ipcnt, requests, file, todo, status, changes>>

(* mistakes: a removed rule keeps IFT_REMOVE; changing a rule counts it again *)
AddEndStoresRemove ==
  /\ walk.op = "add" /\ walk.to # Root /\ walk.depth = Len(walk.to)
  /\ match' = [match EXCEPT ![walk.to] = walk.cmd]
  /\ ipcnt' = CASE match[walk.to] = NONE /\ walk.cmd # REMOVE -> ipcnt + 1
                [] match[walk.to] # NONE /\ walk.cmd = REMOVE -> ipcnt - 1
                [] OTHER -> ipcnt
  /\ walk' = Idle
  /\ UNCHANGED <<nodes, count, requests, file, todo, status, changes>>

AddEndCountsAgain ==
  /\ walk.op = "add" /\ walk.to # Root /\ walk.depth = Len(walk.to)
  /\ match' = [match EXCEPT ![walk.to] = IF walk.cmd = REMOVE THEN NONE ELSE walk.cmd]
  /\ ipcnt' = IF walk.cmd # REMOVE THEN ipcnt + 1
              ELSE IF match[walk.to] # NONE THEN ipcnt - 1 ELSE ipcnt
  /\ walk' = Idle
  /\ UNCHANGED <<nodes, count, requests, file, todo, status, changes>>

AddEnd ==
  /\ walk.op = "add" /\ walk.to # Root /\ walk.depth = Len(walk.to)
  /\ match' = [match EXCEPT ![walk.to] = IF walk.cmd = REMOVE THEN NONE ELSE walk.cmd]
  /\ ipcnt' = CASE match[walk.to] = NONE /\ walk.cmd # REMOVE -> ipcnt + 1
                [] match[walk.to] # NONE /\ walk.cmd = REMOVE -> ipcnt - 1
                [] OTHER -> ipcnt
  /\ walk' = Idle
  /\ UNCHANGED <<nodes, count, requests, file, todo, status, changes>>

LoadDone ==
  /\ status = "loading" /\ Free /\ todo = <<>>
  /\ status' = "up"
  /\ UNCHANGED <<tree, requests, walk, file, todo, changes>>
-----------------------------------------------------------------------------
(***************************************************************************)
(* ip_table() and iplist_dump(): the root's rule first, then the others as *)
(* ip_collect() meets them: zero before one, and both before the node.     *)
(***************************************************************************)
Before(p, q) ==
  \/ Len(p) > Len(q) /\ Prefix(p, Len(q)) = q
  \/ \E n \in 1 .. Len(p) : /\ n <= Len(q) /\ Prefix(p, n-1) = Prefix(q, n-1)
                            /\ p[n] = 0 /\ q[n] = 1

Collected(s) ==
  /\ s \in [1 .. Cardinality(Rules) -> Rules]
  /\ \A j \in DOMAIN s : \A i \in 1 .. j-1 : Before(s[i], s[j])

(* a mistake: the default rule is not written *)
TableWithoutDefault(s) == [i \in DOMAIN s |-> [to |-> s[i], cmd |-> match[s[i]]]]

Table(s) == <<[to |-> Root, cmd |-> match[Root]]>>
            \o [i \in DOMAIN s |-> [to |-> s[i], cmd |-> match[s[i]]]]

SaveState ==
  /\ status = "up" /\ Free
  /\ \E s \in [1 .. Cardinality(Rules) -> Rules] : Collected(s) /\ file' = Whole(Table(s))
  /\ UNCHANGED <<tree, requests, walk, todo, status, changes>>

(* the child that saves is killed, or the disk is full: half a line is no rule *)
SaveCut ==
  /\ status = "up" /\ Free
  /\ \E s \in [1 .. Cardinality(Rules) -> Rules] :
       Collected(s) /\ file' \in CutOff(Table(s), {Malformed})
  /\ UNCHANGED <<tree, requests, walk, todo, status, changes>>

Gone ==
  /\ nodes' = {Root} /\ match' = FreshMatch /\ count' = [p \in Node |-> 0]
  /\ ipcnt' = 1 /\ requests' = 0 /\ walk' = Idle
  /\ todo' = <<>> /\ status' = "down"
  /\ UNCHANGED changes

(* a signal that saves the state, if it can, before the process ends *)
Terminate ==
  /\ status = "up" /\ Free
  /\ \E s \in [1 .. Cardinality(Rules) -> Rules] : Collected(s) /\ file' \in {file, Whole(Table(s))}
  /\ Gone

Crash == status # "down" /\ Gone /\ UNCHANGED file

Start ==
  /\ status = "down"
  /\ status' = "loading" /\ todo' = file.lines
  /\ UNCHANGED <<tree, requests, walk, file, changes>>

Next ==
  \/ \E a \in Address : MatchStart(a)
  \/ MatchDown \/ MatchEnd
  \/ \E line \in Line : Change(line)
  \/ LoadLine \/ LoadError \/ AddDown \/ AddRoot \/ AddEnd \/ LoadDone
  \/ SaveState \/ SaveCut \/ Terminate \/ Crash \/ Start

Spec == Init /\ [][Next]_vars
-----------------------------------------------------------------------------
TypeOK ==
  /\ nodes \subseteq Node
  /\ match \in [Node -> Verdicts \cup {NONE}]
  /\ count \in [Node -> Nat]
  /\ ipcnt \in Int /\ requests \in Nat
  /\ walk \in [op : {"idle", "match", "told", "add"}, to : Node, depth : 0 .. Bits,
               best : Node, cmd : Verdicts \cup {NONE, REMOVE}]
  /\ file \in FileOf(FileLine) /\ todo \in Seq(FileLine)
  /\ status \in {"loading", "up", "down"}
  /\ changes \in Nat

(***************************************************************************)
(* However rules were added, changed and removed, ip_match() ends with the *)
(* verdict of the longest rule that holds the address, and there always    *)
(* is one: assert(match->match != IFT_NONE) in ip_match() never fails.     *)
(***************************************************************************)
LongestDecides ==
  walk.op = "told" =>
    /\ walk.cmd = match[walk.best] /\ walk.cmd \in Verdicts
    /\ walk.best = Prefix(walk.to, Len(walk.best))
    /\ \A p \in Rules : p = Prefix(walk.to, Len(p)) => Len(p) <= Len(walk.best)

(***************************************************************************)
(* g_ipcnt is the number of entries ip_collect() writes.  ip_table()       *)
(* allocates that many: one too few, and a report or a save writes past    *)
(* the end of the array.                                                   *)
(***************************************************************************)
TableFits == ipcnt = 1 + Cardinality(Rules)

(***************************************************************************)
(* Every request is counted at one node of the tree.                       *)
(***************************************************************************)
HitsConserved ==
  requests = MapThenSumSet(LAMBDA p : count[p], Node) + (IF walk.op = "match" THEN 1 ELSE 0)
-----------------------------------------------------------------------------
(***************************************************************************)
(* The tree, the file and the two walks implement the table of rules of    *)
(* PrefixRules.  While the file is being read the rules are those that     *)
(* will be there at the end.                                               *)
(***************************************************************************)
Effect(line, old) == IF line.cmd # REMOVE THEN line.cmd
                     ELSE IF line.to = Root THEN old ELSE NONE

(* the lines about p that are read: those before the first that is no rule *)
About(lines, p) ==
  {i \in DOMAIN lines : /\ lines[i].to = p /\ (p = Root => lines[i].cmd # REMOVE)
                        /\ \A j \in 1 .. i : lines[j] # Malformed}

Applied(table, lines) ==
  [p \in Node |-> IF About(lines, p) = {} THEN table[p]
                  ELSE Effect(lines[Max(About(lines, p))], table[p])]

Unread == IF walk.op = "add" THEN <<[to |-> walk.to, cmd |-> walk.cmd]>> \o todo ELSE todo

Written  == Applied(FreshMatch, file.lines)
Promised == CASE status = "up"      -> match
              [] status = "loading" -> Applied(match, Unread)
              [] status = "down"    -> Written

Abstract == INSTANCE PrefixRules WITH
  rules <- Promised, hits <- count, saved <- Written, whole <- file.whole,
  serving <- status = "up"

ImplementsPrefixRules == Abstract!Spec
=============================================================================
