---------------------------- MODULE IPListProofs ----------------------------
(***************************************************************************)
(* The tree of rules, for addresses of any length, any commands and any    *)
(* file: ip_match() finds the longest rule, g_ipcnt counts the rules, the  *)
(* hits of the nodes sum up to the requests, and the tree, the file and    *)
(* the walks together are the table of rules of PrefixRules.               *)
(***************************************************************************)
EXTENDS IPList, OrderedArrayProofs, SequenceTheorems, TLAPS

(***************************************************************************)
(* The bits that name a node, and their prefixes.                          *)
(***************************************************************************)
LEMMA NodeIsSeq ==
  \A s : s \in Node <=> s \in Seq({0, 1}) /\ Len(s) \in 0 .. Bits
  <1>1. ASSUME NEW s \in Node PROVE s \in Seq({0, 1}) /\ Len(s) \in 0 .. Bits
    <2>1. PICK n \in 0 .. Bits : s \in [1..n -> {0, 1}]
      BY <1>1 DEF Node
    <2>2. n \in Nat
      BY <2>1, BitsAssumption
    <2>3. s \in Seq({0, 1})
      BY <2>1, <2>2, SeqDef
    <2>4. Len(s) \in Nat /\ DOMAIN s = 1 .. Len(s)
      BY <2>3, LenProperties
    <2>5. 1 .. Len(s) = 1 .. n
      BY <2>1, <2>4
    <2>6. Len(s) <= n
      <3> SUFFICES ASSUME n < Len(s) PROVE FALSE
        BY <2>2, <2>4
      <3>1. Len(s) \in 1 .. Len(s) /\ Len(s) \notin 1 .. n
        BY <2>2, <2>4
      <3> QED BY <2>5, <3>1
    <2>7. n <= Len(s)
      <3> SUFFICES ASSUME Len(s) < n PROVE FALSE
        BY <2>2, <2>4
      <3>1. n \in 1 .. n /\ n \notin 1 .. Len(s)
        BY <2>2, <2>4
      <3> QED BY <2>5, <3>1
    <2> QED BY <2>1, <2>2, <2>3, <2>4, <2>6, <2>7
  <1>2. ASSUME NEW s \in Seq({0, 1}), Len(s) \in 0 .. Bits PROVE s \in Node
    BY <1>2, LenProperties DEF Node
  <1> QED BY <1>1, <1>2

LEMMA RootIsNode == Root \in Node /\ Len(Root) = 0
  <1>1. Root \in Seq({0, 1}) /\ Len(Root) = 0
    BY EmptySeq DEF Root
  <1>2. 0 \in 0 .. Bits
    BY BitsAssumption
  <1> QED BY <1>1, <1>2, NodeIsSeq

LEMMA OnlyRootIsEmpty ==
  ASSUME NEW s \in Node
  PROVE  Len(s) = 0 <=> s = Root
  <1>1. s \in Seq({0, 1}) BY NodeIsSeq
  <1> QED BY <1>1, EmptySeq, RootIsNode DEF Root

LEMMA PrefixIsNode ==
  ASSUME NEW s \in Node, NEW n \in 0 .. Len(s)
  PROVE  Prefix(s, n) \in Node /\ Len(Prefix(s, n)) = n
  <1>1. s \in Seq({0, 1}) /\ Len(s) \in 0 .. Bits
    BY NodeIsSeq
  <1>2. n \in Int /\ n >= 0 /\ n <= Len(s) /\ Len(s) <= Bits /\ Bits \in Nat
    BY <1>1, BitsAssumption
  <1>3. \A i \in 1 .. n : s[i] \in {0, 1}
    BY <1>1, <1>2, ElementOfSeq
  <1>4. SubSeq(s, 1, n) \in Seq({0, 1}) /\ Len(SubSeq(s, 1, n)) = IF 1 <= n THEN n - 1 + 1 ELSE 0
    BY <1>2, <1>3, SubSeqProperties
  <1>5. Len(SubSeq(s, 1, n)) = n
    BY <1>2, <1>4
  <1>6. n \in 0 .. Bits
    BY <1>2
  <1> QED BY <1>4, <1>5, <1>6, NodeIsSeq DEF Prefix

LEMMA PrefixOfPrefix ==
  ASSUME NEW s \in Node, NEW n \in 0 .. Len(s), NEW m \in 0 .. n
  PROVE  Prefix(Prefix(s, n), m) = Prefix(s, m)
  <1>1. s \in Seq({0, 1}) /\ Len(s) \in Nat
    BY NodeIsSeq, BitsAssumption
  <1>2. n \in Nat /\ m \in Nat /\ m <= n /\ n <= Len(s)
    BY <1>1
  <1>3. CASE m = 0
    <2>1. SubSeq(SubSeq(s, 1, n), 1, 0) = <<>> /\ SubSeq(s, 1, 0) = <<>>
      BY SubSeqEmpty
    <2> QED BY <1>3, <2>1 DEF Prefix
  <1>4. CASE m # 0
    <2>1. /\ 1 \in 1 .. Len(s) /\ n \in 1 .. Len(s)
          /\ 1 \in 1 .. n-1+1 /\ m \in 1 .. n-1+1
      BY <1>1, <1>2, <1>4
    <2>2. SubSeq(SubSeq(s, 1, n), 1, m) = SubSeq(s, 1+1-1, 1+m-1)
      BY <1>1, <2>1, SubSeqOfSubSeq
    <2>3. 1+1-1 = 1 /\ 1+m-1 = m
      BY <1>2
    <2> QED BY <2>2, <2>3 DEF Prefix
  <1> QED BY <1>3, <1>4

LEMMA WholePrefix ==
  ASSUME NEW s \in Node
  PROVE  Prefix(s, Len(s)) = s
  BY NodeIsSeq, SubSeqFull DEF Prefix

LEMMA EmptyPrefix == \A s : Prefix(s, 0) = Root
  BY SubSeqEmpty DEF Prefix, Root

-----------------------------------------------------------------------------
(***************************************************************************)
(* The inductive invariant.  The nodes on the way to a node are there, so  *)
(* once the next one is missing no longer rule can hold the address; and   *)
(* the walk has kept the longest of the rules above it.                    *)
(***************************************************************************)
Shape == /\ Root \in nodes /\ IsFiniteSet(nodes)
         /\ \A p \in nodes : \A n \in 0 .. Len(p) : Prefix(p, n) \in nodes
         /\ match[Root] # NONE
         /\ \A p \in Node : match[p] # NONE => p \in nodes

OnTheWay == walk.op \in {"match", "add"} => walk.depth <= Len(walk.to) /\ At \in nodes

LongestSoFar ==
  walk.op = "match" =>
    /\ walk.to \in Address
    /\ match[walk.best] # NONE
    /\ Len(walk.best) <= walk.depth
    /\ walk.best = Prefix(walk.to, Len(walk.best))
    /\ \A p \in Rules : p = Prefix(walk.to, Len(p)) /\ Len(p) < walk.depth
                         => Len(p) <= Len(walk.best)

Commanded == walk.op = "add" => walk.cmd \in Verdicts \cup {REMOVE}

IInv == TypeOK /\ Shape /\ OnTheWay /\ Commanded /\ LongestSoFar /\ LongestDecides /\ TableFits

LEMMA AddressIsNode ==
  ASSUME NEW a \in Address
  PROVE  a \in Node /\ Len(a) = Bits
  <1>1. a \in Node
    <2>1. Bits \in 0 .. Bits
      BY BitsAssumption
    <2> QED BY <2>1 DEF Address, Node
  <1>2. a \in Seq({0, 1}) /\ Len(a) \in 0 .. Bits
    BY <1>1, NodeIsSeq
  <1>3. 1 .. Len(a) = 1 .. Bits
    BY <1>2, LenProperties DEF Address
  <1>4. Bits \in 1 .. Bits
    BY BitsAssumption
  <1>5. Bits \in 1 .. Len(a)
    BY <1>3, <1>4
  <1> QED BY <1>1, <1>2, <1>5, BitsAssumption

LEMMA RulesAreFinite ==
  ASSUME Shape
  PROVE  IsFiniteSet(Rules)
  <1>1. Rules \in SUBSET nodes
    BY DEF Rules
  <1> QED BY <1>1, FS_Subset DEF Shape

(***************************************************************************)
(* A step that touches neither the tree nor the walk.                      *)
(***************************************************************************)
LEMMA TreeStays ==
  ASSUME IInv, TypeOK', UNCHANGED <<tree, walk>>
  PROVE  IInv'
  BY DEF IInv, tree, Shape, OnTheWay, Commanded, LongestSoFar, LongestDecides, TableFits, Rules, At

LEMMA InitIInv == Init => IInv
  <1> SUFFICES ASSUME Init PROVE IInv
    OBVIOUS
  <1>1. Root \in Node /\ Len(Root) = 0 /\ 0 \in 0 .. Bits /\ 0 \in Nat
    BY RootIsNode, BitsAssumption
  <1>2. FreshMatch \in [Node -> Verdicts \cup {NONE}]
    BY VerdictAssumption DEF FreshMatch
  <1>3. Idle \in [op : {"idle", "match", "told", "add"}, to : Node, depth : 0 .. Bits,
                  best : Node, cmd : Verdicts \cup {NONE, REMOVE}]
    BY <1>1 DEF Idle
  <1>0. file \in FileOf(FileLine) /\ todo \in Seq(FileLine)
    BY ListsAssumption DEF Init, FileOf, Whole
  <1>4. TypeOK
    BY <1>0, <1>1, <1>2, <1>3 DEF Init, TypeOK
  <1>5. Rules = {}
    BY DEF Init, Rules
  <1>6. Shape
    <2>1. IsFiniteSet({Root})
      BY FS_Singleton
    <2>2. \A n \in 0 .. Len(Root) : Prefix(Root, n) = Root
      BY <1>1, EmptyPrefix
    <2>3. match[Root] # NONE /\ \A p \in Node : match[p] # NONE => p \in {Root}
      BY <1>1, VerdictAssumption DEF Init, FreshMatch
    <2> QED BY <2>1, <2>2, <2>3 DEF Init, Shape
  <1>7. OnTheWay /\ Commanded /\ LongestSoFar /\ LongestDecides
    BY DEF Init, Idle, OnTheWay, Commanded, LongestSoFar, LongestDecides
  <1>8. TableFits
    BY <1>5, FS_EmptySet DEF Init, TableFits
  <1> QED BY <1>4, <1>6, <1>7, <1>8 DEF IInv
-----------------------------------------------------------------------------
(***************************************************************************)
(* ip_match()                                                              *)
(***************************************************************************)
LEMMA MatchStartStep ==
  ASSUME IInv, NEW a \in Address, MatchStart(a)
  PROVE  IInv'
  <1>1. /\ a \in Node /\ Len(a) = Bits /\ Root \in Node /\ Len(Root) = 0
        /\ 0 \in 0 .. Bits /\ Bits \in Nat
    BY AddressIsNode, RootIsNode, BitsAssumption
  <1>2. TypeOK'
    BY <1>1 DEF IInv, TypeOK, MatchStart, tree
  <1>3. Shape' /\ TableFits' /\ LongestDecides' /\ Rules' = Rules
    BY DEF IInv, Shape, TableFits, LongestDecides, Rules, MatchStart, tree
  <1>4. At' = Root
    BY EmptyPrefix DEF At, MatchStart
  <1>5. OnTheWay' /\ Commanded'
    BY <1>1, <1>3, <1>4 DEF OnTheWay, Commanded, MatchStart, Shape
  <1>6. LongestSoFar'
    <2>1. \A p \in Rules' : Len(p) \in Nat
      <3>1. \A p \in Rules : p \in Node
        BY DEF Rules, IInv, TypeOK
      <3> QED BY <1>3, <3>1, NodeIsSeq, BitsAssumption
    <2>2. Prefix(a, 0) = Root
      BY EmptyPrefix
    <2> QED BY <1>1, <1>3, <2>1, <2>2 DEF LongestSoFar, MatchStart, Shape
  <1> QED BY <1>2, <1>3, <1>5, <1>6 DEF IInv

(* what the next node of a walk down keeps *)
LEMMA BestIsLongest ==
  ASSUME IInv, walk.op = "match"
  PROVE  /\ At \in nodes /\ At \in Node /\ Len(At) = walk.depth
         /\ walk.depth \in 0 .. Bits /\ walk.to \in Node /\ Len(walk.to) = Bits
         /\ Best \in Node /\ match[Best] # NONE
         /\ Len(Best) <= walk.depth /\ Best = Prefix(walk.to, Len(Best))
         /\ \A p \in Rules : p = Prefix(walk.to, Len(p)) /\ Len(p) <= walk.depth
                              => Len(p) <= Len(Best)
  <1>1. walk.to \in Address /\ walk.best \in Node /\ walk.depth \in 0 .. Bits
    BY DEF IInv, TypeOK, LongestSoFar
  <1>2. walk.to \in Node /\ Len(walk.to) = Bits
    BY <1>1, AddressIsNode
  <1>3. At \in Node /\ Len(At) = walk.depth
    BY <1>1, <1>2, PrefixIsNode DEF At
  <1>4. At \in nodes
    BY DEF IInv, OnTheWay
  <1>5. \A p \in Rules : Len(p) \in Nat
    <2>1. \A p \in Rules : p \in Node
      BY DEF Rules, IInv, TypeOK
    <2> QED BY <2>1, NodeIsSeq, BitsAssumption
  <1>6. Len(walk.best) \in Nat
    BY <1>1, NodeIsSeq, BitsAssumption
  <1>7. CASE match[At] # NONE
    <2>1. Best = At
      BY <1>7 DEF Best
    <2> QED BY <1>1, <1>2, <1>3, <1>4, <1>5, <1>7, <2>1 DEF At
  <1>8. CASE match[At] = NONE
    <2>1. Best = walk.best
      BY <1>8 DEF Best
    <2>2. ASSUME NEW p \in Rules, p = Prefix(walk.to, Len(p)), Len(p) <= walk.depth
          PROVE  Len(p) <= Len(walk.best)
      <3>1. Len(p) # walk.depth
        BY <1>8, <2>2 DEF At, Rules
      <3>2. Len(p) < walk.depth
        BY <1>1, <1>5, <2>2, <3>1
      <3> QED BY <2>2, <3>2 DEF IInv, LongestSoFar
    <2>3. /\ match[walk.best] # NONE /\ Len(walk.best) <= walk.depth
          /\ walk.best = Prefix(walk.to, Len(walk.best))
      BY DEF IInv, LongestSoFar
    <2> QED BY <1>1, <1>2, <1>3, <1>4, <2>1, <2>2, <2>3
  <1> QED BY <1>7, <1>8

LEMMA MatchDownStep ==
  ASSUME IInv, MatchDown
  PROVE  IInv'
  <1>1. walk.op = "match" /\ walk.depth < Bits /\ Child \in nodes
        /\ walk' = [walk EXCEPT !.depth = walk.depth + 1, !.best = Best]
        /\ UNCHANGED <<tree, requests, file, todo, status, changes>>
    BY DEF MatchDown, CanGoDown
  <1>2. /\ walk.depth \in 0 .. Bits /\ walk.to \in Node /\ Len(walk.to) = Bits
        /\ Best \in Node /\ match[Best] # NONE
        /\ Len(Best) <= walk.depth /\ Best = Prefix(walk.to, Len(Best))
        /\ \A p \in Rules : p = Prefix(walk.to, Len(p)) /\ Len(p) <= walk.depth
                             => Len(p) <= Len(Best)
    BY <1>1, BestIsLongest
  <1>3. walk.depth + 1 \in 0 .. Bits
    BY <1>1, <1>2, BitsAssumption
  <1>4. /\ walk'.op = "match" /\ walk'.to = walk.to /\ walk'.depth = walk.depth + 1
        /\ walk'.best = Best /\ walk'.cmd = walk.cmd
    BY <1>1 DEF IInv, TypeOK
  <1>5. walk' \in [op : {"idle", "match", "told", "add"}, to : Node, depth : 0 .. Bits,
                   best : Node, cmd : Verdicts \cup {NONE, REMOVE}]
    BY <1>1, <1>2, <1>3 DEF IInv, TypeOK
  <1>6. TypeOK'
    BY <1>1, <1>5 DEF IInv, TypeOK, tree
  <1>7. Shape' /\ TableFits' /\ Rules' = Rules
    BY <1>1 DEF IInv, Shape, TableFits, Rules, tree
  <1>8. LongestDecides'
    BY <1>4 DEF LongestDecides
  <1>9. OnTheWay' /\ Commanded'
    BY <1>1, <1>2, <1>3, <1>4 DEF OnTheWay, Commanded, At, Child, tree
  <1>10. LongestSoFar'
    <2>1. walk.to \in Address
      BY <1>1 DEF IInv, LongestSoFar
    <2>2. Len(Best) \in Nat /\ \A p \in Rules : Len(p) \in Nat
      <3>1. \A p \in Rules : p \in Node
        BY DEF Rules, IInv, TypeOK
      <3> QED BY <1>2, <3>1, NodeIsSeq, BitsAssumption
    <2>3. \A p \in Rules : Len(p) < walk.depth + 1 => Len(p) <= walk.depth
      BY <1>2, <2>2
    <2>4. Len(Best) <= walk.depth + 1
      BY <1>2, <2>2
    <2>5. match' = match
      BY <1>1 DEF tree
    <2> QED BY <1>2, <1>4, <1>7, <2>1, <2>3, <2>4, <2>5 DEF LongestSoFar
  <1> QED BY <1>6, <1>7, <1>8, <1>9, <1>10 DEF IInv

(***************************************************************************)
(* Where the walk ends no longer rule holds the address: the node of such  *)
(* a rule has the missing node on its way.                                 *)
(***************************************************************************)
LEMMA MatchEndStep ==
  ASSUME IInv, MatchEnd
  PROVE  IInv'
  <1>1. walk.op = "match" /\ ~CanGoDown
        /\ count' = [count EXCEPT ![Best] = count[Best] + 1]
        /\ walk' = [walk EXCEPT !.op = "told", !.best = Best, !.cmd = match[Best]]
        /\ UNCHANGED <<nodes, match, ipcnt, requests, file, todo, status, changes>>
    BY DEF MatchEnd
  <1>2. /\ walk.depth \in 0 .. Bits /\ walk.to \in Node /\ Len(walk.to) = Bits
        /\ Best \in Node /\ match[Best] # NONE
        /\ Len(Best) <= walk.depth /\ Best = Prefix(walk.to, Len(Best))
        /\ \A p \in Rules : p = Prefix(walk.to, Len(p)) /\ Len(p) <= walk.depth
                             => Len(p) <= Len(Best)
    BY <1>1, BestIsLongest
  <1>3. match[Best] \in Verdicts
    BY <1>2 DEF IInv, TypeOK
  <1>4. walk'.op = "told" /\ walk'.to = walk.to /\ walk'.best = Best /\ walk'.cmd = match[Best]
    BY <1>1 DEF IInv, TypeOK
  <1>5. walk' \in [op : {"idle", "match", "told", "add"}, to : Node, depth : 0 .. Bits,
                   best : Node, cmd : Verdicts \cup {NONE, REMOVE}]
    BY <1>1, <1>2, <1>3 DEF IInv, TypeOK
  <1>6. count' \in [Node -> Nat]
    <2>1. count \in [Node -> Nat] /\ count[Best] + 1 \in Nat
      BY <1>2 DEF IInv, TypeOK
    <2> QED BY <1>1, <2>1
  <1>7. TypeOK'
    BY <1>1, <1>5, <1>6 DEF IInv, TypeOK
  <1>8. Shape' /\ TableFits' /\ Rules' = Rules
    BY <1>1 DEF IInv, Shape, TableFits, Rules
  <1>9. OnTheWay' /\ Commanded' /\ LongestSoFar'
    BY <1>4 DEF OnTheWay, Commanded, LongestSoFar
  <1>10. ASSUME NEW p \in Rules, p = Prefix(walk.to, Len(p))
         PROVE  Len(p) <= walk.depth
    <2>1. p \in Node /\ p \in nodes /\ Len(p) \in 0 .. Bits
      BY NodeIsSeq DEF Rules, IInv, TypeOK
    <2> SUFFICES ASSUME walk.depth < Len(p) PROVE FALSE
      BY <1>2, <2>1
    <2>2. walk.depth + 1 \in 0 .. Len(p) /\ Len(p) \in 0 .. Len(walk.to) /\ walk.depth < Bits
      BY <1>2, <2>1, BitsAssumption
    <2>3. Prefix(Prefix(walk.to, Len(p)), walk.depth + 1) = Prefix(walk.to, walk.depth + 1)
      BY <1>2, <2>2, PrefixOfPrefix
    <2>4. Prefix(p, walk.depth + 1) = Child
      BY <1>10, <2>3 DEF Child
    <2>5. Child \in nodes
      BY <2>1, <2>2, <2>4 DEF IInv, Shape
    <2> QED BY <1>1, <2>2, <2>5 DEF CanGoDown
  <1>11. LongestDecides'
    <2>1. \A p \in Rules : p = Prefix(walk.to, Len(p)) => Len(p) <= Len(Best)
      BY <1>2, <1>10
    <2>2. match' = match
      BY <1>1
    <2> QED BY <1>2, <1>3, <1>4, <1>8, <2>1, <2>2 DEF LongestDecides
  <1> QED BY <1>7, <1>8, <1>9, <1>11 DEF IInv
-----------------------------------------------------------------------------
(***************************************************************************)
(* ip_add_sm()                                                             *)
(***************************************************************************)
LEMMA AddWalkStarts ==
  ASSUME IInv, NEW line \in Line, walk' = AddWalk(line), UNCHANGED tree, TypeOK'
  PROVE  IInv'
  <1>1. walk'.op = "add" /\ walk'.to = line.to /\ walk'.depth = 0 /\ walk'.cmd = line.cmd
    BY DEF AddWalk
  <1>7. line.cmd \in Verdicts \cup {REMOVE}
    BY DEF Line
  <1>2. Len(line.to) \in Nat
    BY NodeIsSeq, BitsAssumption DEF Line
  <1>3. Shape' /\ TableFits'
    BY DEF IInv, Shape, TableFits, Rules, tree
  <1>4. At' = Root
    BY <1>1, EmptyPrefix DEF At
  <1>5. OnTheWay' /\ Commanded'
    BY <1>1, <1>2, <1>3, <1>4, <1>7 DEF OnTheWay, Commanded, Shape
  <1>6. LongestSoFar' /\ LongestDecides'
    BY <1>1 DEF LongestSoFar, LongestDecides
  <1> QED BY <1>3, <1>5, <1>6 DEF IInv

LEMMA AddWalkType ==
  ASSUME NEW line \in Line
  PROVE  AddWalk(line) \in [op : {"idle", "match", "told", "add"}, to : Node, depth : 0 .. Bits,
                            best : Node, cmd : Verdicts \cup {NONE, REMOVE}]
  BY RootIsNode, BitsAssumption DEF AddWalk, Line

LEMMA LoadLineStep ==
  ASSUME IInv, LoadLine
  PROVE  IInv'
  <1>1. todo \in Seq(FileLine) /\ todo # <<>> /\ Head(todo) # Malformed
    BY DEF IInv, TypeOK, LoadLine
  <1>2. Head(todo) \in Line /\ Tail(todo) \in Seq(FileLine)
    BY <1>1, HeadTailProperties DEF FileLine
  <1>3. TypeOK'
    BY <1>2, AddWalkType DEF IInv, TypeOK, LoadLine, tree
  <1> QED BY <1>2, <1>3, AddWalkStarts DEF LoadLine

LEMMA ChangeStep ==
  ASSUME IInv, NEW line \in Line, Change(line)
  PROVE  IInv'
  <1>1. TypeOK'
    BY AddWalkType DEF IInv, TypeOK, Change, tree
  <1> QED BY <1>1, AddWalkStarts DEF Change

LEMMA AddDownStep ==
  ASSUME IInv, AddDown
  PROVE  IInv'
  <1>1. /\ walk.op = "add" /\ walk.depth < Len(walk.to)
        /\ nodes' = nodes \cup {Child}
        /\ walk' = [walk EXCEPT !.depth = walk.depth + 1]
        /\ UNCHANGED <<match, count, ipcnt, requests, file, todo, status, changes>>
    BY DEF AddDown
  <1>2. walk.to \in Node /\ Len(walk.to) \in 0 .. Bits /\ walk.depth \in 0 .. Bits
    BY NodeIsSeq DEF IInv, TypeOK
  <1>3. walk.depth + 1 \in 0 .. Len(walk.to) /\ walk.depth + 1 \in 0 .. Bits
    BY <1>1, <1>2, BitsAssumption
  <1>4. Child \in Node /\ Len(Child) = walk.depth + 1
    BY <1>2, <1>3, PrefixIsNode DEF Child
  <1>5. /\ walk'.op = "add" /\ walk'.to = walk.to /\ walk'.depth = walk.depth + 1
        /\ walk'.cmd = walk.cmd
    BY <1>1 DEF IInv, TypeOK
  <1>6. walk' \in [op : {"idle", "match", "told", "add"}, to : Node, depth : 0 .. Bits,
                   best : Node, cmd : Verdicts \cup {NONE, REMOVE}]
    BY <1>1, <1>3 DEF IInv, TypeOK
  <1>7. TypeOK'
    BY <1>1, <1>4, <1>6 DEF IInv, TypeOK
  <1>8. At' = Child
    BY <1>5 DEF At, Child
  <1>9. Shape'
    <2>1. Root \in nodes' /\ match'[Root] # NONE
      BY <1>1 DEF IInv, Shape
    <2>2. IsFiniteSet(nodes')
      BY <1>1, FS_AddElement DEF IInv, Shape
    <2>3. ASSUME NEW p \in nodes', NEW n \in 0 .. Len(p)
          PROVE  Prefix(p, n) \in nodes'
      <3>1. CASE p \in nodes
        BY <1>1, <3>1 DEF IInv, Shape
      <3>2. CASE p = Child /\ n = walk.depth + 1
        <4>1. Prefix(Child, n) = Child
          BY <1>4, <3>2, WholePrefix
        <4> QED BY <1>1, <3>2, <4>1
      <3>3. CASE p = Child /\ n # walk.depth + 1
        <4>1. n \in 0 .. walk.depth + 1 /\ n \in 0 .. walk.depth /\ walk.depth \in 0 .. Len(walk.to)
          BY <1>2, <1>3, <1>4, <3>3
        <4>2. Prefix(Child, n) = Prefix(walk.to, n)
          BY <1>2, <1>3, <4>1, PrefixOfPrefix DEF Child
        <4>3. Prefix(At, n) = Prefix(walk.to, n)
          BY <1>2, <4>1, PrefixOfPrefix DEF At
        <4>4. At \in nodes /\ Len(At) = walk.depth
          BY <1>1, <1>2, <4>1, PrefixIsNode DEF At, IInv, OnTheWay
        <4>5. Prefix(At, n) \in nodes
          BY <4>1, <4>4 DEF IInv, Shape
        <4> QED BY <1>1, <3>3, <4>2, <4>3, <4>5
      <3> QED BY <1>1, <2>3, <3>1, <3>2, <3>3
    <2>4. \A p \in Node : match'[p] # NONE => p \in nodes'
      BY <1>1 DEF IInv, Shape
    <2> QED BY <2>1, <2>2, <2>3, <2>4 DEF Shape
  <1>10. OnTheWay' /\ Commanded'
    BY <1>1, <1>2, <1>3, <1>5, <1>8 DEF OnTheWay, Commanded, IInv
  <1>11. TableFits'
    <2>1. Child \notin nodes => match[Child] = NONE
      BY <1>4 DEF IInv, Shape
    <2>2. Rules' = Rules
      BY <1>1, <2>1 DEF Rules
    <2> QED BY <1>1, <2>2 DEF IInv, TableFits
  <1>12. LongestSoFar' /\ LongestDecides'
    BY <1>5 DEF LongestSoFar, LongestDecides
  <1> QED BY <1>7, <1>9, <1>10, <1>11, <1>12 DEF IInv

LEMMA IdleType ==
  Idle \in [op : {"idle", "match", "told", "add"}, to : Node, depth : 0 .. Bits,
            best : Node, cmd : Verdicts \cup {NONE, REMOVE}]
  BY RootIsNode, BitsAssumption DEF Idle

LEMMA IdleWalk ==
  ASSUME walk' = Idle
  PROVE  OnTheWay' /\ Commanded' /\ LongestSoFar' /\ LongestDecides'
  BY DEF Idle, OnTheWay, Commanded, LongestSoFar, LongestDecides

LEMMA AddRootStep ==
  ASSUME IInv, AddRoot
  PROVE  IInv'
  <1>1. /\ match' = IF walk.cmd = REMOVE THEN match ELSE [match EXCEPT ![Root] = walk.cmd]
        /\ walk' = Idle /\ UNCHANGED <<nodes, count, ipcnt, requests, file, todo, status, changes>>
    BY DEF AddRoot
  <1>2. walk.cmd \in Verdicts \cup {REMOVE} /\ Root \in Node
    BY RootIsNode DEF AddRoot, IInv, Commanded
  <1>3. match' \in [Node -> Verdicts \cup {NONE}]
    BY <1>1, <1>2 DEF IInv, TypeOK
  <1>4. TypeOK'
    BY <1>1, <1>3, IdleType DEF IInv, TypeOK
  <1>5. match'[Root] # NONE /\ \A p \in Node \ {Root} : match'[p] = match[p]
    BY <1>1, <1>2, VerdictAssumption DEF IInv, TypeOK, Shape
  <1>6. Shape'
    BY <1>1, <1>5 DEF IInv, Shape
  <1>7. Rules' = Rules
    BY <1>1, <1>5 DEF IInv, TypeOK, Rules
  <1>8. TableFits'
    BY <1>1, <1>7 DEF IInv, TableFits
  <1> QED BY <1>1, <1>4, <1>6, <1>8, IdleWalk DEF IInv

LEMMA AddEndStep ==
  ASSUME IInv, AddEnd
  PROVE  IInv'
  <1>1. /\ walk.op = "add" /\ walk.to # Root /\ walk.depth = Len(walk.to)
        /\ match' = [match EXCEPT ![walk.to] = IF walk.cmd = REMOVE THEN NONE ELSE walk.cmd]
        /\ ipcnt' = CASE match[walk.to] = NONE /\ walk.cmd # REMOVE -> ipcnt + 1
                      [] match[walk.to] # NONE /\ walk.cmd = REMOVE -> ipcnt - 1
                      [] OTHER -> ipcnt
        /\ walk' = Idle /\ UNCHANGED <<nodes, count, requests, file, todo, status, changes>>
    BY DEF AddEnd
  <1>2. walk.to \in Node /\ walk.cmd \in Verdicts \cup {REMOVE} /\ NONE \notin Verdicts
        /\ NONE # REMOVE /\ Root \in Node
    BY <1>1, RootIsNode, VerdictAssumption DEF IInv, TypeOK, Commanded, NONE, REMOVE
  <1>3. walk.to \in nodes
    BY <1>1, <1>2, WholePrefix DEF IInv, OnTheWay, At
  <1>4. match' \in [Node -> Verdicts \cup {NONE}]
    BY <1>1, <1>2 DEF IInv, TypeOK
  <1>5. ipcnt' \in Int
    BY <1>1 DEF IInv, TypeOK
  <1>6. TypeOK'
    BY <1>1, <1>4, <1>5, IdleType DEF IInv, TypeOK
  <1>7. /\ match'[walk.to] = IF walk.cmd = REMOVE THEN NONE ELSE walk.cmd
        /\ \A p \in Node \ {walk.to} : match'[p] = match[p]
    BY <1>1, <1>2 DEF IInv, TypeOK
  <1>8. Shape'
    BY <1>1, <1>2, <1>3, <1>7 DEF IInv, Shape
  <1>9. TableFits'
    <2>1. IsFiniteSet(Rules) /\ Cardinality(Rules) \in Nat
      BY RulesAreFinite, FS_CardinalityType DEF IInv
    <2>2. \A p \in Rules : p \in Node
      BY DEF Rules, IInv, TypeOK
    <2>3. CASE walk.cmd = REMOVE
      <3>1. Rules' = Rules \ {walk.to}
        BY <1>1, <1>7, <2>2, <2>3 DEF Rules, IInv, TypeOK
      <3>2. walk.to \in Rules <=> match[walk.to] # NONE
        BY <1>1, <1>3 DEF Rules
      <3>3. Cardinality(Rules') = IF walk.to \in Rules THEN Cardinality(Rules) - 1 ELSE Cardinality(Rules)
        BY <2>1, <3>1, FS_RemoveElement
      <3>4. ipcnt' = IF walk.to \in Rules THEN ipcnt - 1 ELSE ipcnt
        BY <1>1, <2>3, <3>2
      <3>5. ipcnt = 1 + Cardinality(Rules)
        BY DEF IInv, TableFits
      <3>6. ipcnt' = 1 + Cardinality(Rules')
        BY <2>1, <3>3, <3>4, <3>5
      <3> QED BY <3>6 DEF TableFits
    <2>4. CASE walk.cmd # REMOVE
      <3>1. Rules' = Rules \cup {walk.to}
        BY <1>1, <1>2, <1>3, <1>7, <2>2, <2>4 DEF Rules, IInv, TypeOK
      <3>2. walk.to \in Rules <=> match[walk.to] # NONE
        BY <1>1, <1>3 DEF Rules
      <3>3. Cardinality(Rules') = IF walk.to \in Rules THEN Cardinality(Rules) ELSE Cardinality(Rules) + 1
        BY <2>1, <3>1, FS_AddElement
      <3>4. ipcnt' = IF walk.to \in Rules THEN ipcnt ELSE ipcnt + 1
        BY <1>1, <2>4, <3>2
      <3>5. ipcnt = 1 + Cardinality(Rules)
        BY DEF IInv, TableFits
      <3>6. ipcnt' = 1 + Cardinality(Rules')
        BY <2>1, <3>3, <3>4, <3>5
      <3> QED BY <3>6 DEF TableFits
    <2> QED BY <2>3, <2>4
  <1> QED BY <1>1, <1>6, <1>8, <1>9, IdleWalk DEF IInv

LEMMA LoadErrorStep ==
  ASSUME IInv, LoadError
  PROVE  IInv'
  <1>1. TypeOK'
    BY EmptySeq DEF IInv, TypeOK, LoadError, tree
  <1> QED BY <1>1, TreeStays DEF LoadError

LEMMA LoadDoneStep ==
  ASSUME IInv, LoadDone
  PROVE  IInv'
  <1>1. TypeOK'
    BY DEF IInv, TypeOK, LoadDone, tree
  <1> QED BY <1>1, TreeStays DEF LoadDone
-----------------------------------------------------------------------------
(***************************************************************************)
(* Saving and restarting.                                                  *)
(***************************************************************************)
LEMMA TableIsFile ==
  ASSUME IInv, NEW s \in [1 .. Cardinality(Rules) -> Rules]
  PROVE  Table(s) \in Seq(Line)
  <1>1. Cardinality(Rules) \in Nat
    BY RulesAreFinite, FS_CardinalityType DEF IInv
  <1>2. Root \in Node /\ match[Root] \in Verdicts
    BY RootIsNode DEF IInv, TypeOK, Shape
  <1>3. [to |-> Root, cmd |-> match[Root]] \in Line
    BY <1>2 DEF Line
  <1>4. <<[to |-> Root, cmd |-> match[Root]]>> \in Seq(Line)
    BY <1>3
  <1>5. \A p \in Rules : [to |-> p, cmd |-> match[p]] \in Line
    BY DEF Rules, Line, IInv, TypeOK
  <1>6. [i \in DOMAIN s |-> [to |-> s[i], cmd |-> match[s[i]]]] \in [1 .. Cardinality(Rules) -> Line]
    BY <1>5
  <1>7. [i \in DOMAIN s |-> [to |-> s[i], cmd |-> match[s[i]]]] \in Seq(Line)
    BY <1>1, <1>6, SeqDef
  <1> QED BY <1>4, <1>7, ConcatProperties DEF Table

LEMMA WholeTable ==
  ASSUME IInv, NEW s, Collected(s)
  PROVE  /\ Whole(Table(s)) \in FileOf(FileLine) /\ Whole(Table(s)).lines = Table(s)
         /\ Whole(Table(s)).whole = TRUE
  <1>1. Table(s) \in Seq(Line)
    BY TableIsFile DEF Collected
  <1>2. Table(s) \in Seq(FileLine)
    BY <1>1 DEF FileLine
  <1> QED BY <1>2 DEF FileOf, Whole

LEMMA CutRecord ==
  ASSUME NEW q \in Seq(FileLine)
  PROVE  /\ [lines |-> q, whole |-> FALSE] \in FileOf(FileLine)
         /\ [lines |-> q, whole |-> FALSE].lines = q /\ [lines |-> q, whole |-> FALSE].whole = FALSE
  BY DEF FileOf

LEMMA CutTable ==
  ASSUME IInv, NEW s, Collected(s), NEW f \in CutOff(Table(s), {Malformed})
  PROVE  /\ f \in FileOf(FileLine) /\ f.whole = FALSE /\ Table(s) \in Seq(Line)
         /\ \E n \in 0 .. Len(Table(s)) : \/ f.lines = SubSeq(Table(s), 1, n)
                                         \/ f.lines = Append(SubSeq(Table(s), 1, n), Malformed)
  <1>1. Table(s) \in Seq(Line)
    BY TableIsFile DEF Collected
  <1> DEFINE T == Table(s)
  <1>2. T \in Seq(Line) /\ T \in Seq(FileLine) /\ Malformed \in FileLine
    BY <1>1 DEF FileLine
  <1>3. f \in CutOff(T, {Malformed})
    OBVIOUS
  <1> HIDE DEF T
  <1>4. ASSUME NEW n \in 0 .. Len(T)
        PROVE  /\ SubSeq(T, 1, n) \in Seq(FileLine)
               /\ Append(SubSeq(T, 1, n), Malformed) \in Seq(FileLine)
    BY <1>2, <1>4, AppendProperties
  <1>5. PICK n \in 0 .. Len(T) : \/ f = [lines |-> SubSeq(T, 1, n), whole |-> FALSE]
                                 \/ f = [lines |-> Append(SubSeq(T, 1, n), Malformed), whole |-> FALSE]
    <2>1. CASE \E n \in 0 .. Len(T) : f = [lines |-> SubSeq(T, 1, n), whole |-> FALSE]
      BY <2>1
    <2>2. CASE \E n \in 1 .. Len(T) : f = [lines |-> Append(SubSeq(T, 1, n-1), Malformed), whole |-> FALSE]
      <3>1. PICK m \in 1 .. Len(T) : f = [lines |-> Append(SubSeq(T, 1, m-1), Malformed), whole |-> FALSE]
        BY <2>2
      <3>2. Len(T) \in Nat /\ m - 1 \in 0 .. Len(T)
        BY <1>2
      <3> QED BY <3>1, <3>2
    <2> QED BY <1>3, <2>1, <2>2 DEF CutOff
  <1>6. f \in FileOf(FileLine) /\ f.whole = FALSE
    BY <1>4, <1>5, CutRecord
  <1>7. f.lines = SubSeq(T, 1, n) \/ f.lines = Append(SubSeq(T, 1, n), Malformed)
    BY <1>5
  <1> QED BY <1>2, <1>6, <1>7 DEF T

LEMMA SavesStep ==
  ASSUME IInv, SaveState \/ SaveCut
  PROVE  IInv'
  <1>1. file' \in FileOf(FileLine)
    BY WholeTable, CutTable DEF SaveState, SaveCut
  <1>2. TypeOK'
    BY <1>1 DEF IInv, TypeOK, SaveState, SaveCut, tree
  <1> QED BY <1>2, TreeStays DEF SaveState, SaveCut

LEMMA EmptyTree ==
  ASSUME IInv, Gone, file' \in FileOf(FileLine)
  PROVE  IInv'
  <1>1. Root \in Node /\ Len(Root) = 0 /\ 0 \in Nat
    BY RootIsNode
  <1>2. FreshMatch \in [Node -> Verdicts \cup {NONE}]
    BY VerdictAssumption DEF FreshMatch
  <1>3. TypeOK'
    BY <1>1, <1>2, IdleType, EmptySeq DEF Gone, TypeOK, IInv
  <1>4. Rules' = {}
    BY DEF Gone, Rules
  <1>5. Shape'
    <2>1. IsFiniteSet({Root})
      BY FS_Singleton
    <2>2. \A n \in 0 .. Len(Root) : Prefix(Root, n) = Root
      BY <1>1, EmptyPrefix
    <2>3. match'[Root] # NONE /\ \A p \in Node : match'[p] # NONE => p \in {Root}
      BY <1>1, VerdictAssumption DEF Gone, FreshMatch
    <2> QED BY <2>1, <2>2, <2>3 DEF Gone, Shape
  <1>6. TableFits'
    BY <1>4, FS_EmptySet DEF Gone, TableFits
  <1>7. walk' = Idle
    BY DEF Gone
  <1> QED BY <1>3, <1>5, <1>6, <1>7, IdleWalk DEF IInv

LEMMA TerminateStep ==
  ASSUME IInv, Terminate
  PROVE  IInv'
  <1>1. Gone /\ file' \in FileOf(FileLine)
    BY WholeTable DEF Terminate, IInv, TypeOK
  <1> QED BY <1>1, EmptyTree

LEMMA CrashStep ==
  ASSUME IInv, Crash
  PROVE  IInv'
  <1>1. file \in FileOf(FileLine)
    BY DEF IInv, TypeOK
  <1> QED BY <1>1, EmptyTree DEF Crash

LEMMA StartStep ==
  ASSUME IInv, Start
  PROVE  IInv'
  <1>1. file.lines \in Seq(FileLine)
    BY DEF IInv, TypeOK, FileOf
  <1>2. TypeOK'
    BY <1>1 DEF IInv, TypeOK, Start, tree
  <1> QED BY <1>2, TreeStays DEF Start
-----------------------------------------------------------------------------
LEMMA StepIInv == IInv /\ [Next]_vars => IInv'
  <1> SUFFICES ASSUME IInv, [Next]_vars PROVE IInv'
    OBVIOUS
  <1>1. CASE UNCHANGED vars
    <2>1. TypeOK' /\ UNCHANGED <<tree, walk>>
      BY <1>1 DEF vars, tree, IInv, TypeOK
    <2> QED BY <2>1, TreeStays
  <1>2. ASSUME NEW a \in Address, MatchStart(a) PROVE IInv'
    BY <1>2, MatchStartStep
  <1>3. ASSUME NEW line \in Line, Change(line) PROVE IInv'
    BY <1>3, ChangeStep
  <1>4. ASSUME Next PROVE IInv'
    BY <1>2, <1>3, <1>4, MatchDownStep, MatchEndStep, LoadLineStep, LoadErrorStep, AddDownStep, AddRootStep,
       AddEndStep, LoadDoneStep, SavesStep, TerminateStep, CrashStep, StartStep DEF Next
  <1> QED BY <1>1, <1>4

LEMMA Invariance == Spec => []IInv
  BY InitIInv, StepIInv, PTL DEF Spec

(***************************************************************************)
(* The state of the IP list keeps its types, for addresses of any length.  *)
(***************************************************************************)
THEOREM TypeCorrect == Spec => []TypeOK
  <1>1. IInv => TypeOK
    BY DEF IInv
  <1> QED BY <1>1, Invariance, PTL

(***************************************************************************)
(* ip_match() always ends with the longest rule that holds the address,    *)
(* and its assertion never fails.                                          *)
(***************************************************************************)
THEOREM LongestAlwaysDecides == Spec => []LongestDecides
  <1>1. IInv => LongestDecides
    BY DEF IInv
  <1> QED BY <1>1, Invariance, PTL

(***************************************************************************)
(* The array ip_table() allocates has room for exactly the rules that are  *)
(* collected into it.                                                      *)
(***************************************************************************)
THEOREM TableAlwaysFits == Spec => []TableFits
  <1>1. IInv => TableFits
    BY DEF IInv
  <1> QED BY <1>1, Invariance, PTL
-----------------------------------------------------------------------------
(***************************************************************************)
(* What the lines of a file make of a table of rules.                      *)
(***************************************************************************)
Tables == [Node -> Verdicts \cup {NONE}]

LEMMA LastLine ==
  ASSUME NEW lines \in Seq(FileLine), NEW S \in SUBSET DOMAIN lines
  PROVE  /\ S # {} => Max(S) \in S /\ \A j \in S : Max(S) >= j
         /\ \A i \in S : (\A j \in S : i >= j) => Max(S) = i
  <1>1. DOMAIN lines = 1 .. Len(lines) /\ Len(lines) \in Nat
    OBVIOUS
  <1>2. S \subseteq Int
    BY <1>1
  <1>3. IsFiniteSet(S)
    <2>1. IsFiniteSet(1 .. Len(lines))
      BY <1>1, FS_Interval
    <2> QED BY <1>1, <2>1, FS_Subset
  <1>4. S # {} => \E x \in S : \A y \in S : x >= y
    BY <1>2, <1>3, FirstAndLastMember
  <1>5. S # {} => Max(S) \in S /\ \A j \in S : Max(S) >= j
    BY <1>4 DEF Max
  <1>6. \A i \in S : (\A j \in S : i >= j) => Max(S) = i
    BY <1>2, <1>5
  <1> QED BY <1>5, <1>6

LEMMA AppliedType ==
  ASSUME NEW lines \in Seq(FileLine), NEW t \in Tables, t[Root] # NONE
  PROVE  Applied(t, lines) \in Tables /\ Applied(t, lines)[Root] # NONE
  <1>1. ASSUME NEW p \in Node PROVE Applied(t, lines)[p] \in Verdicts \cup {NONE}
    <2> DEFINE A == About(lines, p)
    <2>1. A \in SUBSET DOMAIN lines
      BY DEF About
    <2>2. CASE A = {}
      BY <2>2 DEF Applied, Tables
    <2>3. CASE A # {}
      <3>1. Max(A) \in A
        BY <2>1, <2>3, LastLine
      <3>2. lines[Max(A)] \in Line
        <4>1. Max(A) \in DOMAIN lines /\ DOMAIN lines = 1 .. Len(lines)
          BY <2>1, <3>1
        <4>2. Max(A) \in 1 .. Max(A)
          BY <4>1
        <4> QED BY <3>1, <4>1, <4>2 DEF About, FileLine
      <3>3. Effect(lines[Max(A)], t[p]) \in Verdicts \cup {NONE}
        BY <3>2 DEF Effect, Line, Tables
      <3> QED BY <2>3, <3>3 DEF Applied
    <2> QED BY <2>2, <2>3
  <1>2. Applied(t, lines)[Root] # NONE
    <2> DEFINE A == About(lines, Root)
    <2>1. A \in SUBSET DOMAIN lines
      BY DEF About
    <2>2. CASE A = {}
      BY <2>2, RootIsNode DEF Applied
    <2>3. CASE A # {}
      <3>1. Max(A) \in A
        BY <2>1, <2>3, LastLine
      <3>2. lines[Max(A)] \in Line /\ lines[Max(A)].cmd # REMOVE
        <4>1. Max(A) \in DOMAIN lines /\ DOMAIN lines = 1 .. Len(lines)
          BY <2>1, <3>1
        <4>2. Max(A) \in 1 .. Max(A)
          BY <4>1
        <4> QED BY <3>1, <4>1, <4>2 DEF About, FileLine
      <3>3. Effect(lines[Max(A)], t[Root]) # NONE
        BY <3>2, VerdictAssumption DEF Effect, Line
      <3> QED BY <2>3, <3>3, RootIsNode DEF Applied
    <2> QED BY <2>2, <2>3
  <1> QED BY <1>1, <1>2 DEF Applied, Tables

LEMMA FreshTable == FreshMatch \in Tables /\ FreshMatch[Root] # NONE
  BY RootIsNode, VerdictAssumption DEF FreshMatch, Tables

LEMMA NoLines ==
  ASSUME NEW t \in Tables
  PROVE  Applied(t, <<>>) = t
  <1>1. \A p : About(<<>>, p) = {}
    BY EmptySeq DEF About
  <1> QED BY <1>1 DEF Applied, Tables

(* a line first, and then the others *)
AppliedLine(t, line) ==
  [p \in Node |-> IF line.to = p /\ (p = Root => line.cmd # REMOVE) THEN Effect(line, t[p]) ELSE t[p]]

LEMMA TailLines ==
  ASSUME NEW lines \in Seq(FileLine), lines # <<>>
  PROVE  /\ Head(lines) \in FileLine /\ Head(lines) = lines[1] /\ 1 \in DOMAIN lines
         /\ Tail(lines) \in Seq(FileLine)
         /\ DOMAIN lines \subseteq Nat \ {0} /\ DOMAIN Tail(lines) \subseteq Nat \ {0}
         /\ \A i \in DOMAIN Tail(lines) : i+1 \in DOMAIN lines /\ Tail(lines)[i] = lines[i+1]
         /\ \A i \in DOMAIN lines \ {1} : i-1 \in DOMAIN Tail(lines) /\ Tail(lines)[i-1] = lines[i]
  <1>1. Len(lines) \in Nat \ {0} /\ DOMAIN lines = 1 .. Len(lines)
    BY EmptySeq
  <1>2. Tail(lines) \in Seq(FileLine) /\ Head(lines) \in FileLine
    BY HeadTailProperties
  <1>3. Len(Tail(lines)) = Len(lines) - 1 /\ DOMAIN Tail(lines) = 1 .. Len(lines) - 1
    BY <1>1, <1>2, HeadTailProperties
  <1>4. \A i \in 1 .. Len(lines) - 1 : Tail(lines)[i] = lines[i+1]
    BY <1>1, HeadTailProperties
  <1>5. Head(lines) = lines[1]
    BY <1>1
  <1> QED BY <1>1, <1>2, <1>3, <1>4, <1>5

LEMMA AppliedHead ==
  ASSUME NEW lines \in Seq(FileLine), lines # <<>>, Head(lines) # Malformed, NEW t \in Tables
  PROVE  Applied(t, lines) = Applied(AppliedLine(t, Head(lines)), Tail(lines))
  <1> DEFINE u == AppliedLine(t, Head(lines))
  <1>1. /\ Head(lines) \in FileLine /\ Head(lines) = lines[1] /\ 1 \in DOMAIN lines /\ Tail(lines) \in Seq(FileLine)
        /\ DOMAIN lines \subseteq Nat \ {0} /\ DOMAIN Tail(lines) \subseteq Nat \ {0}
        /\ \A i \in DOMAIN Tail(lines) : i+1 \in DOMAIN lines /\ Tail(lines)[i] = lines[i+1]
        /\ \A i \in DOMAIN lines \ {1} : i-1 \in DOMAIN Tail(lines) /\ Tail(lines)[i-1] = lines[i]
    BY TailLines
  <1>2. SUFFICES ASSUME NEW p \in Node PROVE Applied(t, lines)[p] = Applied(u, Tail(lines))[p]
    BY DEF Applied
  <1> DEFINE A == About(lines, p)
             B == About(Tail(lines), p)
  <1>3. A \in SUBSET DOMAIN lines /\ B \in SUBSET DOMAIN Tail(lines)
    BY DEF About
  <1>7. DOMAIN Tail(lines) = 1 .. Len(Tail(lines)) /\ Len(Tail(lines)) \in Nat
    BY <1>1
  <1>4. ASSUME NEW i \in B PROVE i+1 \in A
    <2>1. /\ i \in Nat \ {0} /\ i \in DOMAIN Tail(lines) /\ i+1 \in DOMAIN lines
          /\ Tail(lines)[i] = lines[i+1] /\ Tail(lines)[i].to = p
          /\ (p = Root => Tail(lines)[i].cmd # REMOVE)
          /\ \A j \in 1 .. i : Tail(lines)[j] # Malformed
      BY <1>1 DEF About
    <2>2. ASSUME NEW j \in 1 .. i+1 PROVE lines[j] # Malformed
      <3>1. CASE j = 1
        BY <1>1, <3>1
      <3>2. CASE j # 1
        <4>1. j - 1 \in 1 .. i /\ j - 1 + 1 = j
          BY <2>1, <3>2
        <4>2. j - 1 \in DOMAIN Tail(lines)
          BY <1>7, <2>1, <4>1
        <4>3. Tail(lines)[j-1] = lines[j]
          BY <1>1, <4>1, <4>2
        <4> QED BY <2>1, <4>1, <4>3
      <3> QED BY <3>1, <3>2
    <2> QED BY <2>1, <2>2 DEF About
  <1>5. ASSUME NEW i \in A \ {1} PROVE i-1 \in B
    <2>1. /\ i \in Nat \ {0} /\ i \in DOMAIN lines \ {1} /\ lines[i].to = p
          /\ (p = Root => lines[i].cmd # REMOVE) /\ \A j \in 1 .. i : lines[j] # Malformed
      BY <1>1 DEF About
    <2>2. i-1 \in DOMAIN Tail(lines) /\ Tail(lines)[i-1] = lines[i]
      BY <1>1, <2>1
    <2>3. ASSUME NEW j \in 1 .. i-1 PROVE Tail(lines)[j] # Malformed
      <3>1. j + 1 \in 1 .. i
        BY <2>1
      <3>2. j \in DOMAIN Tail(lines)
        BY <1>7, <2>2
      <3>3. Tail(lines)[j] = lines[j+1]
        BY <1>1, <3>2
      <3> QED BY <2>1, <3>1, <3>3
    <2> QED BY <2>1, <2>2, <2>3 DEF About
  <1>6. 1 \in A <=> Head(lines).to = p /\ (p = Root => Head(lines).cmd # REMOVE)
    <2>1. \A j \in 1 .. 1 : lines[j] # Malformed
      BY <1>1
    <2> QED BY <1>1, <2>1 DEF About
  <1>8. CASE B = {}
    <2>1. Applied(u, Tail(lines))[p] = u[p]
      BY <1>8 DEF Applied
    <2>2. CASE 1 \in A
      <3>1. Max(A) = 1
        BY <1>1, <1>3, <1>5, <1>8, <2>2, LastLine
      <3>2. Applied(t, lines)[p] = Effect(lines[1], t[p])
        BY <2>2, <3>1 DEF Applied
      <3> QED BY <1>1, <1>6, <2>1, <2>2, <3>2 DEF AppliedLine
    <2>3. CASE 1 \notin A
      <3>1. A = {}
        BY <1>5, <1>8, <2>3
      <3>2. Applied(t, lines)[p] = t[p]
        BY <3>1 DEF Applied
      <3> QED BY <1>6, <2>1, <2>3, <3>2 DEF AppliedLine
    <2> QED BY <2>2, <2>3
  <1>9. CASE B # {}
    <2>1. Max(B) \in B /\ \A j \in B : Max(B) >= j
      BY <1>1, <1>3, <1>9, LastLine
    <2>2. Max(B) + 1 \in A /\ \A j \in A : Max(B) + 1 >= j
      <3>1. Max(B) \in Nat \ {0} /\ \A j \in A : j \in Nat \ {0}
        BY <1>1, <1>3, <2>1
      <3>2. \A j \in A \ {1} : Max(B) >= j - 1
        BY <1>5, <2>1
      <3>3. \A j \in A : Max(B) + 1 >= j
        BY <3>1, <3>2
      <3> QED BY <1>4, <2>1, <3>3
    <2>3. Max(A) = Max(B) + 1
      BY <1>3, <2>2, LastLine
    <2>4. lines[Max(A)] = Tail(lines)[Max(B)]
      BY <1>1, <1>3, <2>1, <2>3
    <2>5. p = Root => Tail(lines)[Max(B)].cmd # REMOVE
      BY <2>1 DEF About
    <2>6. Applied(t, lines)[p] = Effect(Tail(lines)[Max(B)], t[p])
      BY <2>2, <2>4 DEF Applied
    <2>7. Applied(u, Tail(lines))[p] = Effect(Tail(lines)[Max(B)], u[p])
      BY <1>9 DEF Applied
    <2>8. Effect(Tail(lines)[Max(B)], t[p]) = Effect(Tail(lines)[Max(B)], u[p])
      <3>1. CASE p = Root
        BY <2>5, <3>1 DEF Effect
      <3>2. CASE p # Root
        <4>1. Tail(lines)[Max(B)].to = p
          BY <2>1 DEF About
        <4> QED BY <3>2, <4>1 DEF Effect
      <3> QED BY <3>1, <3>2
    <2> QED BY <2>6, <2>7, <2>8
  <1> QED BY <1>8, <1>9

LEMMA NothingAfterAnError ==
  ASSUME NEW lines \in Seq(FileLine), lines # <<>>, Head(lines) = Malformed, NEW t \in Tables
  PROVE  Applied(t, lines) = t
  <1>1. lines[1] = Malformed /\ \A i \in DOMAIN lines : 1 \in 1 .. i
    BY TailLines
  <1>2. \A p : About(lines, p) = {}
    BY <1>1 DEF About
  <1> QED BY <1>2 DEF Applied, Tables

LEMMA FirstThenRest ==
  ASSUME NEW line \in FileLine, NEW lines \in Seq(FileLine)
  PROVE  /\ <<line>> \o lines \in Seq(FileLine) /\ <<line>> \o lines # <<>>
         /\ Head(<<line>> \o lines) = line /\ Tail(<<line>> \o lines) = lines
  <1> DEFINE s == <<line>> \o lines
  <1>1. <<line>> \in Seq(FileLine) /\ Len(<<line>>) = 1 /\ <<line>>[1] = line
    OBVIOUS
  <1>2. /\ s \in Seq(FileLine) /\ Len(s) = 1 + Len(lines)
        /\ \A i \in 1 .. Len(s) : s[i] = IF i <= 1 THEN <<line>>[i] ELSE lines[i - 1]
    BY <1>1, ConcatProperties
  <1>3. Len(lines) \in Nat
    OBVIOUS
  <1> HIDE DEF s
  <1>4. s # <<>> /\ Head(s) = line
    <2>1. s # <<>>
      BY <1>2, <1>3, EmptySeq
    <2>2. s[1] = line
      BY <1>1, <1>2, <1>3
    <2> QED BY <1>2, <2>1, <2>2, HeadTailProperties
  <1>5. Tail(s) = lines
    <2>1. /\ Tail(s) \in Seq(FileLine) /\ Len(Tail(s)) = Len(lines)
          /\ \A i \in 1 .. Len(Tail(s)) : Tail(s)[i] = s[i+1]
      BY <1>2, <1>3, <1>4, HeadTailProperties
    <2>2. \A i \in 1 .. Len(lines) : i + 1 \in 1 .. Len(s) /\ ~(i + 1 <= 1) /\ i + 1 - 1 = i
      BY <1>2, <1>3
    <2>3. \A i \in 1 .. Len(lines) : Tail(s)[i] = lines[i]
      BY <1>2, <2>1, <2>2
    <2> QED BY <2>1, <2>3, SeqEqual
  <1> QED BY <1>2, <1>4, <1>5 DEF s
-----------------------------------------------------------------------------
(***************************************************************************)
(* ip_collect() meets every rule once, so a start reads back what was      *)
(* written.                                                                *)
(***************************************************************************)
LEMMA NothingBeforeItself == \A p \in Node : ~ Before(p, p)
  <1> SUFFICES ASSUME NEW p \in Node PROVE ~ Before(p, p)
    OBVIOUS
  <1>1. Len(p) \in Nat
    BY NodeIsSeq
  <1> QED BY <1>1 DEF Before

LEMMA CollectedIsAll ==
  ASSUME IInv, NEW s, Collected(s)
  PROVE  \A p \in Rules : \E i \in 1 .. Cardinality(Rules) : s[i] = p
  <1> DEFINE n == Cardinality(Rules)
  <1>1. IsFiniteSet(Rules) /\ n \in Nat /\ Rules \subseteq Node
    BY RulesAreFinite, FS_CardinalityType DEF IInv, TypeOK, Rules
  <1>2. s \in [1 .. n -> Rules] /\ \A i, j \in 1 .. n : i < j => Before(s[i], s[j])
    <2>1. s \in [1 .. n -> Rules]
      BY DEF Collected
    <2>2. ASSUME NEW i \in 1 .. n, NEW j \in 1 .. n, i < j PROVE Before(s[i], s[j])
      <3>1. j \in DOMAIN s /\ i \in 1 .. j-1
        BY <1>1, <2>1, <2>2
      <3> QED BY <3>1 DEF Collected
    <2> QED BY <2>1, <2>2
  <1>3. \A i, j \in 1 .. n : s[i] = s[j] => i = j
    <2> SUFFICES ASSUME NEW i \in 1 .. n, NEW j \in 1 .. n, s[i] = s[j], i # j PROVE FALSE
      OBVIOUS
    <2>1. s[i] \in Node
      BY <1>1, <1>2
    <2>2. i < j \/ j < i
      BY <1>1
    <2> QED BY <1>2, <2>1, <2>2, NothingBeforeItself
  <1>4. s \in Injection(1 .. n, Rules)
    <2>1. IsInjective(s)
      BY <1>2, <1>3 DEF IsInjective
    <2> QED BY <1>2, <2>1 DEF Injection
  <1>5. IsFiniteSet(1 .. n) /\ Cardinality(1 .. n) = n
    BY <1>1, FS_Interval
  <1>6. s \in Surjection(1 .. n, Rules)
    BY <1>1, <1>4, <1>5, FS_Injection
  <1> QED BY <1>6 DEF Surjection

LEMMA TableLines ==
  ASSUME IInv, NEW s \in [1 .. Cardinality(Rules) -> Rules]
  PROVE  /\ DOMAIN Table(s) = 1 .. 1 + Cardinality(Rules) /\ Cardinality(Rules) \in Nat
         /\ Table(s)[1] = [to |-> Root, cmd |-> match[Root]]
         /\ \A i \in 1 .. Cardinality(Rules) : Table(s)[i+1] = [to |-> s[i], cmd |-> match[s[i]]]
  <1> DEFINE n == Cardinality(Rules)
             head == <<[to |-> Root, cmd |-> match[Root]]>>
             r == [i \in DOMAIN s |-> [to |-> s[i], cmd |-> match[s[i]]]]
  <1>1. n \in Nat
    BY RulesAreFinite, FS_CardinalityType DEF IInv
  <1>2. Root \in Node /\ match[Root] \in Verdicts
    BY RootIsNode DEF IInv, TypeOK, Shape
  <1>3. [to |-> Root, cmd |-> match[Root]] \in Line
    BY <1>2 DEF Line
  <1>4. head \in Seq(Line) /\ Len(head) = 1 /\ head[1] = [to |-> Root, cmd |-> match[Root]]
    BY <1>3
  <1>5. \A p \in Rules : [to |-> p, cmd |-> match[p]] \in Line
    BY DEF Rules, Line, IInv, TypeOK
  <1>6. r \in [1 .. n -> Line]
    BY <1>5
  <1>7. r \in Seq(Line) /\ Len(r) = n
    BY <1>1, <1>6, SeqDef
  <1>8. \A i \in 1 .. n : r[i] = [to |-> s[i], cmd |-> match[s[i]]]
    OBVIOUS
  <1>9. Table(s) = head \o r
    BY DEF Table
  <1> HIDE DEF head, r
  <1>10. /\ Table(s) \in Seq(Line) /\ Len(Table(s)) = 1 + n
         /\ \A i \in 1 .. 1 + n : Table(s)[i] = IF i <= 1 THEN head[i] ELSE r[i - 1]
    <2> HIDE DEF n
    <2>1. /\ head \o r \in Seq(Line) /\ Len(head \o r) = Len(head) + Len(r)
          /\ \A i \in 1 .. Len(head) + Len(r) :
               (head \o r)[i] = IF i <= Len(head) THEN head[i] ELSE r[i - Len(head)]
      BY <1>4, <1>7, ConcatProperties
    <2> QED BY <1>4, <1>7, <1>9, <2>1
  <1>11. DOMAIN Table(s) = 1 .. 1 + n
    BY <1>10
  <1>12. Table(s)[1] = [to |-> Root, cmd |-> match[Root]]
    BY <1>1, <1>4, <1>10
  <1>13. ASSUME NEW i \in 1 .. n PROVE Table(s)[i+1] = [to |-> s[i], cmd |-> match[s[i]]]
    <2>1. i + 1 \in 1 .. 1 + n /\ ~(i + 1 <= 1) /\ i + 1 - 1 = i
      BY <1>1
    <2>2. Table(s)[i+1] = r[i]
      BY <1>10, <2>1
    <2> QED BY <1>8, <2>2
  <1> QED BY <1>1, <1>11, <1>12, <1>13

(* n rules as they are, and then the end of the file or of its reading *)
LEMMA RulesReadBack ==
  ASSUME IInv, NEW T \in Seq(FileLine), NEW n \in 0 .. Len(T), n = Len(T) \/ T[n+1] = Malformed,
         \A i \in 1 .. n : /\ T[i] \in Line /\ T[i].cmd = match[T[i].to]
                           /\ T[i].cmd \in Verdicts,
         NEW p \in Node
  PROVE  Applied(FreshMatch, T)[p] = IF \E i \in 1 .. n : T[i].to = p THEN match[p] ELSE FreshMatch[p]
  <1> DEFINE A == About(T, p)
  <1>0. Len(T) \in Nat /\ n \in Nat /\ n <= Len(T)
    OBVIOUS
  <1>1. DOMAIN T = 1 .. Len(T) /\ A \in SUBSET DOMAIN T
    BY DEF About
  <1>2. ASSUME NEW i \in 1 .. n PROVE T[i] # Malformed /\ T[i].cmd # REMOVE /\ i \in DOMAIN T
    <2>1. T[i].cmd \in Verdicts
      OBVIOUS
    <2>3. i \in 1 .. Len(T)
      BY <1>0
    <2>4. i \in DOMAIN T
      BY <1>1, <2>3
    <2>2. Malformed.cmd \notin Verdicts /\ REMOVE \notin Verdicts
      BY VerdictAssumption DEF Malformed
    <2> QED BY <2>1, <2>2, <2>4
  <1>3. ASSUME NEW i \in 1 .. n, T[i].to = p PROVE i \in A
    <2>1. \A j \in 1 .. i : j \in 1 .. n
      OBVIOUS
    <2>2. \A j \in 1 .. i : T[j] # Malformed
      BY <1>2, <2>1
    <2> QED BY <1>2, <1>3, <2>2 DEF About
  <1>4. ASSUME NEW i \in A PROVE i \in 1 .. n /\ T[i].to = p
    <2>1. i \in 1 .. Len(T) /\ T[i].to = p /\ \A j \in 1 .. i : T[j] # Malformed
      BY <1>1 DEF About
    <2>2. CASE n = Len(T)
      BY <2>1, <2>2
    <2>3. CASE T[n+1] = Malformed
      <3>1. n + 1 \notin 1 .. i
        BY <2>1, <2>3
      <3>2. i \in Nat /\ n \in Nat
        BY <1>0, <2>1
      <3>3. i <= n
        BY <3>1, <3>2
      <3> QED BY <2>1, <3>2, <3>3
    <2> QED BY <2>2, <2>3
  <1>5. CASE A = {}
    BY <1>3, <1>5 DEF Applied
  <1>6. CASE A # {}
    <2>1. Max(A) \in A
      BY <1>1, <1>6, LastLine
    <2>2. Max(A) \in 1 .. n /\ T[Max(A)].to = p
      BY <1>4, <2>1
    <2>3. T[Max(A)].cmd = match[p] /\ T[Max(A)].cmd # REMOVE
      BY <1>2, <2>2
    <2>4. Effect(T[Max(A)], FreshMatch[p]) = match[p]
      BY <2>3 DEF Effect
    <2> QED BY <1>6, <2>2, <2>4 DEF Applied
  <1> QED BY <1>5, <1>6

(* the lines of the table, and the rules among them *)
LEMMA TableRules ==
  ASSUME IInv, NEW s, Collected(s)
  PROVE  /\ Table(s) \in Seq(Line) /\ Table(s) \in Seq(FileLine)
         /\ \A i \in 1 .. Len(Table(s)) :
              /\ Table(s)[i] \in Line /\ Table(s)[i].cmd = match[Table(s)[i].to]
              /\ Table(s)[i].cmd \in Verdicts
         /\ \A p \in Node : match[p] # FreshMatch[p] => \E i \in 1 .. Len(Table(s)) : Table(s)[i].to = p
  <1> DEFINE n == Cardinality(Rules)
             T == Table(s)
  <1>1. s \in [1 .. n -> Rules] /\ T \in Seq(Line)
    BY TableIsFile DEF Collected
  <1>2. /\ DOMAIN T = 1 .. 1 + n /\ n \in Nat
        /\ T[1] = [to |-> Root, cmd |-> match[Root]]
        /\ \A i \in 1 .. n : T[i+1] = [to |-> s[i], cmd |-> match[s[i]]]
    BY <1>1, TableLines
  <1>3. \A i \in 1 .. n : s[i] \in Rules
    BY <1>1
  <1>4. \A p \in Rules : \E i \in 1 .. n : s[i] = p
    BY CollectedIsAll
  <1> HIDE DEF T, n
  <1>5. /\ match \in [Node -> Verdicts \cup {NONE}] /\ match[Root] # NONE /\ Root \in Node
        /\ \A p \in Node : match[p] # NONE => p \in nodes
        /\ \A p : p \in Rules <=> p \in nodes /\ p # Root /\ match[p] # NONE
        /\ Rules \subseteq Node
    BY RootIsNode DEF IInv, TypeOK, Shape, Rules
  <1>6. DOMAIN T = 1 .. Len(T)
    BY <1>1
  <1>7. ASSUME NEW i \in DOMAIN T
        PROVE  T[i] \in Line /\ T[i].cmd = match[T[i].to] /\ T[i].cmd \in Verdicts
    <2>1. T[i] \in Line
      BY <1>1, <1>6
    <2>2. CASE i = 1
      BY <1>2, <1>5, <2>1, <2>2
    <2>3. CASE i # 1
      <3>1. i - 1 \in 1 .. n /\ i - 1 + 1 = i
        BY <1>2, <2>3
      <3>2. T[i] = [to |-> s[i-1], cmd |-> match[s[i-1]]]
        BY <1>2, <3>1
      <3>3. s[i-1] \in Rules
        BY <1>3, <3>1
      <3> QED BY <1>5, <2>1, <3>2, <3>3
    <2> QED BY <2>2, <2>3
  <1>8. ASSUME NEW p \in Node, match[p] # FreshMatch[p] PROVE \E i \in DOMAIN T : T[i].to = p
    <2>1. CASE p = Root
      BY <1>2, <2>1
    <2>2. CASE p # Root
      <3>1. p \in Rules
        BY <1>5, <1>8, <2>2 DEF FreshMatch
      <3>2. PICK i \in 1 .. n : s[i] = p
        BY <1>4, <3>1
      <3>3. i + 1 \in DOMAIN T
        BY <1>2
      <3>4. T[i+1] = [to |-> s[i], cmd |-> match[s[i]]]
        BY <1>2
      <3>5. T[i+1].to = p
        BY <3>2, <3>4
      <3> QED BY <3>3, <3>5
    <2> QED BY <2>1, <2>2
  <1>9. T \in Seq(FileLine)
    BY <1>1 DEF FileLine
  <1> QED BY <1>1, <1>6, <1>7, <1>8, <1>9 DEF T

LEMMA TableReadsBack ==
  ASSUME IInv, NEW s, Collected(s)
  PROVE  Applied(FreshMatch, Table(s)) = match
  <1> DEFINE T == Table(s)
  <1>1. /\ T \in Seq(FileLine)
        /\ \A i \in 1 .. Len(T) : T[i] \in Line /\ T[i].cmd = match[T[i].to] /\ T[i].cmd \in Verdicts
        /\ \A p \in Node : match[p] # FreshMatch[p] => \E i \in 1 .. Len(T) : T[i].to = p
    BY TableRules
  <1> HIDE DEF T
  <1>2. Len(T) \in 0 .. Len(T)
    BY <1>1
  <1>3. ASSUME NEW p \in Node PROVE Applied(FreshMatch, T)[p] = match[p]
    <2>1. Applied(FreshMatch, T)[p] = IF \E i \in 1 .. Len(T) : T[i].to = p THEN match[p] ELSE FreshMatch[p]
      BY <1>1, <1>2, RulesReadBack
    <2> QED BY <1>1, <2>1
  <1>4. Applied(FreshMatch, T) = match
    BY <1>3 DEF Applied, IInv, TypeOK
  <1> QED BY <1>4 DEF T

LEMMA CutReadsBack ==
  ASSUME IInv, NEW s, Collected(s), NEW f \in CutOff(Table(s), {Malformed})
  PROVE  /\ f.whole = FALSE
         /\ \E kept \in SUBSET {p \in Node : match[p] # FreshMatch[p]} :
              Applied(FreshMatch, f.lines) = [p \in Node |-> IF p \in kept THEN match[p] ELSE FreshMatch[p]]
  <1> DEFINE T == Table(s)
             Q == f.lines
  <1>1. /\ T \in Seq(Line) /\ T \in Seq(FileLine)
        /\ \A i \in 1 .. Len(T) : T[i] \in Line /\ T[i].cmd = match[T[i].to] /\ T[i].cmd \in Verdicts
    BY TableRules
  <1>2. /\ f \in FileOf(FileLine) /\ f.whole = FALSE
        /\ \E n \in 0 .. Len(T) : \/ Q = SubSeq(T, 1, n)
                                 \/ Q = Append(SubSeq(T, 1, n), Malformed)
    BY CutTable
  <1>3. Q \in Seq(FileLine)
    BY <1>2 DEF FileOf
  <1> HIDE DEF T, Q
  <1>4. PICK n \in 0 .. Len(T) : Q = SubSeq(T, 1, n) \/ Q = Append(SubSeq(T, 1, n), Malformed)
    BY <1>2
  <1> DEFINE q == SubSeq(T, 1, n)
  <1>5. Len(q) = n /\ q \in Seq(FileLine) /\ n \in Nat /\ \A i \in 1 .. n : q[i] = T[i] /\ i \in 1 .. Len(T)
    BY <1>1
  <1> HIDE DEF q
  <1>6. n \in 0 .. Len(Q) /\ (n = Len(Q) \/ Q[n+1] = Malformed) /\ \A i \in 1 .. n : Q[i] = q[i]
    <2>1. CASE Q = q
      BY <1>5, <2>1
    <2>2. CASE Q = Append(q, Malformed)
      <3>1. Malformed \in FileLine
        BY DEF FileLine
      <3>2. Len(Q) = n + 1 /\ Q[n+1] = Malformed /\ \A i \in 1 .. n : Q[i] = q[i]
        BY <1>5, <2>2, <3>1, AppendProperties
      <3> QED BY <1>5, <3>2
    <2> QED BY <1>4, <2>1, <2>2 DEF q
  <1>7. \A i \in 1 .. n : Q[i] \in Line /\ Q[i].cmd = match[Q[i].to] /\ Q[i].cmd \in Verdicts
    BY <1>1, <1>5, <1>6
  <1> DEFINE kept == {p \in Node : match[p] # FreshMatch[p] /\ \E i \in 1 .. n : Q[i].to = p}
  <1>8. ASSUME NEW p \in Node
        PROVE  Applied(FreshMatch, Q)[p] = IF p \in kept THEN match[p] ELSE FreshMatch[p]
    <2>1. Applied(FreshMatch, Q)[p] = IF \E i \in 1 .. n : Q[i].to = p THEN match[p] ELSE FreshMatch[p]
      BY <1>3, <1>6, <1>7, RulesReadBack
    <2> QED BY <2>1
  <1>9. kept \in SUBSET {p \in Node : match[p] # FreshMatch[p]}
    OBVIOUS
  <1> HIDE DEF kept
  <1>10. Applied(FreshMatch, Q) = [p \in Node |-> IF p \in kept THEN match[p] ELSE FreshMatch[p]]
    BY <1>8 DEF Applied
  <1> QED BY <1>2, <1>9, <1>10 DEF Q
-----------------------------------------------------------------------------
(***************************************************************************)
(* Between a stop and the end of the loading, the rules are those of the   *)
(* file, nobody is asking, and nothing has been counted.                   *)
(***************************************************************************)
Uncounted == [p \in Node |-> 0]

Faithful ==
  /\ status = "up" \/ (walk.op \in {"idle", "add"} /\ count = Uncounted)
  /\ status # "up" => Promised = Written
  /\ status = "down" => match = FreshMatch /\ walk.op = "idle"

Stands == UNCHANGED <<Promised, count, Written, file.whole, status = "up">>

LEMMA Ranges ==
  /\ Abstract!Range = Node /\ Abstract!Address = Address /\ Abstract!All = Root
  /\ Abstract!NONE = NONE /\ Abstract!NoRules = FreshMatch /\ Abstract!NoHits = Uncounted
  BY DEF Abstract!Range, Node, Abstract!Address, Address, Abstract!All, Root, Abstract!NONE, NONE,
         Abstract!NoRules, FreshMatch, Abstract!NoHits, Uncounted

LEMMA WrittenType ==
  ASSUME IInv
  PROVE  Written \in Tables /\ Written[Root] # NONE
  <1>1. file.lines \in Seq(FileLine)
    BY DEF IInv, TypeOK, FileOf
  <1> QED BY <1>1, FreshTable, AppliedType DEF Written

LEMMA InitFaithful == Init => Faithful /\ Abstract!Init
  <1> SUFFICES ASSUME Init PROVE Faithful /\ Abstract!Init
    OBVIOUS
  <1>1. IInv
    BY InitIInv
  <1>2. walk.op = "idle" /\ status = "loading" /\ match = FreshMatch /\ count = Uncounted
        /\ todo = file.lines /\ file.whole = TRUE
    BY DEF Init, Idle, Uncounted, Whole
  <1>3. Promised = Written
    BY <1>2 DEF Promised, Written, Unread
  <1>4. Faithful
    BY <1>2, <1>3 DEF Faithful
  <1>5. ~ (status = "up")
    BY <1>2
  <1>6. Written \in [Abstract!Range -> Verdicts \cup {Abstract!NONE}] /\ Written[Abstract!All] # Abstract!NONE
    BY <1>1, WrittenType, Ranges DEF Tables
  <1>7. count = Abstract!NoHits
    BY <1>2, Ranges
  <1> QED BY <1>2, <1>3, <1>4, <1>5, <1>6, <1>7 DEF Abstract!Init

LEMMA SameHeadAndTail ==
  ASSUME NEW s \in Seq(FileLine), NEW t \in Seq(FileLine), s # <<>>, t # <<>>, Head(s) = Head(t), Tail(s) = Tail(t)
  PROVE  s = t
  <1>1. /\ Len(s) \in Nat \ {0} /\ Len(t) \in Nat \ {0} /\ Head(s) = s[1] /\ Head(t) = t[1]
    BY EmptySeq
  <1>2. Len(Tail(s)) = Len(s) - 1 /\ Len(Tail(t)) = Len(t) - 1
    BY HeadTailProperties
  <1>3. /\ \A i \in 1 .. Len(s) - 1 : Tail(s)[i] = s[i+1]
        /\ \A i \in 1 .. Len(t) - 1 : Tail(t)[i] = t[i+1]
    BY <1>2, HeadTailProperties
  <1>4. Len(s) = Len(t)
    <2>1. Len(s) - 1 = Len(t) - 1
      BY <1>2
    <2> QED BY <1>1, <2>1
  <1>5. ASSUME NEW i \in 1 .. Len(s) PROVE s[i] = t[i]
    <2>1. CASE i = 1
      BY <1>1, <2>1
    <2>2. CASE i # 1
      <3>1. i - 1 \in 1 .. Len(s) - 1 /\ i - 1 + 1 = i
        BY <1>1, <2>2
      <3> QED BY <1>3, <1>4, <3>1
    <2> QED BY <2>1, <2>2
  <1> QED BY <1>4, <1>5, SeqEqual
-----------------------------------------------------------------------------
(***************************************************************************)
(* A step that leaves rules, counts and the file as they are               *)
(***************************************************************************)
LEMMA UpStands ==
  ASSUME Faithful, status = "up", UNCHANGED <<match, count, file, status>>
  PROVE  Faithful' /\ Stands
  <1>1. Promised' = Promised /\ Written' = Written
    BY DEF Promised, Written
  <1>2. (status' = "up") = (status = "up")
    OBVIOUS
  <1> QED BY <1>1, <1>2 DEF Faithful, Stands

LEMMA LoadStands ==
  ASSUME Faithful, status = "loading", UNCHANGED <<count, file, status>>,
         walk'.op \in {"idle", "add"}, Applied(match', Unread') = Applied(match, Unread)
  PROVE  Faithful' /\ Stands
  <1>1. Promised' = Promised /\ Written' = Written
    BY DEF Promised, Written
  <1>2. (status' = "up") = (status = "up")
    OBVIOUS
  <1> QED BY <1>1, <1>2 DEF Faithful, Stands

LEMMA WalkFields ==
  ASSUME IInv
  PROVE  /\ walk.to \in Node /\ walk.depth \in 0 .. Bits /\ walk.best \in Node
         /\ walk.op \in {"idle", "match", "told", "add"}
         /\ \A d, b, c, o : /\ [walk EXCEPT !.depth = d].op = walk.op
                            /\ [walk EXCEPT !.depth = d].to = walk.to
                            /\ [walk EXCEPT !.depth = d].cmd = walk.cmd
                            /\ [walk EXCEPT !.depth = d, !.best = b].op = walk.op
  BY DEF IInv, TypeOK

(***************************************************************************)
(* ip_match()                                                              *)
(***************************************************************************)
LEMMA MatchStartStands ==
  ASSUME Faithful, NEW a \in Address, MatchStart(a)
  PROVE  Faithful' /\ Stands
  BY UpStands DEF MatchStart, tree

LEMMA MatchDownStands ==
  ASSUME IInv, Faithful, MatchDown
  PROVE  Faithful' /\ Stands
  <1>1. status = "up"
    BY DEF MatchDown, Faithful
  <1> QED BY <1>1, UpStands DEF MatchDown, tree

LEMMA MatchEndRefines ==
  ASSUME IInv, Faithful, MatchEnd
  PROVE  Faithful' /\ \E a \in Abstract!Address : Abstract!Ask(a)
  <1>1. status = "up" /\ UNCHANGED <<match, file, status>> /\ walk.op = "match"
    BY DEF MatchEnd, Faithful
  <1>2. /\ IInv'
        /\ walk' = [walk EXCEPT !.op = "told", !.best = Best, !.cmd = match[Best]]
    BY MatchEndStep DEF MatchEnd
  <1>3. walk'.op = "told" /\ walk'.best = Best /\ walk'.to = walk.to /\ Rules' = Rules
    BY <1>2 DEF IInv, TypeOK, MatchEnd, Rules
  <1>4. /\ Best \in Node /\ match[Best] # NONE
        /\ Len(Best) <= walk.depth /\ Best = Prefix(walk.to, Len(Best))
        /\ walk.to \in Node /\ Len(walk.to) = Bits /\ walk.depth \in 0 .. Bits
    BY <1>1, BestIsLongest
  <1>5. \A p \in Rules : p = Prefix(walk.to, Len(p)) => Len(p) <= Len(Best)
    BY <1>2, <1>3 DEF IInv, LongestDecides
  <1>6. walk.to \in Address
    BY <1>1 DEF IInv, LongestSoFar
  <1>7. Abstract!Deciding(match, Best, walk.to)
    <2>1. Abstract!Holds(Best, walk.to)
      <3>1. Len(Best) \in Nat
        BY <1>4, NodeIsSeq
      <3>2. Len(Best) <= Len(walk.to)
        BY <1>4, <3>1, BitsAssumption
      <3>3. SubSeq(walk.to, 1, Len(Best)) = Best
        BY <1>4 DEF Prefix
      <3> QED BY <3>2, <3>3 DEF Abstract!Holds
    <2>2. ASSUME NEW q \in Node, match[q] # NONE, Abstract!Holds(q, walk.to) PROVE Len(q) <= Len(Best)
      <3>1. CASE q = Root
        <4>1. Len(q) = 0 /\ Len(Best) \in Nat
          BY <1>4, <3>1, RootIsNode, NodeIsSeq
        <4> QED BY <4>1
      <3>2. CASE q # Root
        <4>1. q \in Rules
          BY <2>2, <3>2 DEF Rules, IInv, Shape
        <4>2. q = Prefix(walk.to, Len(q))
          BY <2>2 DEF Abstract!Holds, Prefix
        <4> QED BY <1>5, <4>1, <4>2
      <3> QED BY <3>1, <3>2
    <2> QED BY <1>4, <2>1, <2>2, Ranges DEF Abstract!Deciding
  <1>8. Promised = match /\ Promised' = match /\ Written' = Written
    BY <1>1 DEF Promised, Written
  <1>9. count' = [count EXCEPT ![Best] = @ + 1]
    BY DEF MatchEnd
  <1>10. (status = "up") /\ (status' = "up")
    BY <1>1
  <1>11. Abstract!Ask(walk.to)
    BY <1>1, <1>4, <1>7, <1>8, <1>9, <1>10, Ranges DEF Abstract!Ask
  <1>12. Faithful'
    BY <1>10 DEF Faithful
  <1> QED BY <1>6, <1>11, <1>12, Ranges

(***************************************************************************)
(* ip_add_sm()                                                             *)
(***************************************************************************)
Pending == [to |-> walk.to, cmd |-> walk.cmd]

LEMMA PendingLine ==
  ASSUME IInv, walk.op = "add"
  PROVE  Pending \in Line /\ Pending.to = walk.to /\ Pending.cmd = walk.cmd
         /\ walk.to \in Node /\ walk.cmd \in Verdicts \cup {REMOVE} /\ Unread = <<Pending>> \o todo
  BY DEF Pending, Line, IInv, TypeOK, Commanded, Unread

LEMMA LoadLineStands ==
  ASSUME IInv, Faithful, LoadLine
  PROVE  Faithful' /\ Stands
  <1>1. /\ status = "loading" /\ walk.op = "idle" /\ todo \in Seq(FileLine) /\ todo # <<>>
        /\ walk' = AddWalk(Head(todo)) /\ todo' = Tail(todo)
        /\ UNCHANGED <<match, count, file, status>>
    BY DEF LoadLine, Free, Faithful, IInv, TypeOK, tree
  <1>2. Head(todo) \in Line /\ Head(todo) \in FileLine /\ Tail(todo) \in Seq(FileLine)
    BY <1>1, HeadTailProperties DEF LoadLine, FileLine
  <1>3. Head(todo) = [to |-> Head(todo).to, cmd |-> Head(todo).cmd]
    BY <1>2 DEF Line
  <1>4. walk'.op = "add" /\ walk'.to = Head(todo).to /\ walk'.cmd = Head(todo).cmd
    BY <1>1 DEF AddWalk
  <1>5. Unread = todo
    BY <1>1 DEF Unread
  <1>6. Unread' = <<Head(todo)>> \o Tail(todo)
    BY <1>1, <1>3, <1>4 DEF Unread
  <1>7. <<Head(todo)>> \o Tail(todo) = todo
    <2> DEFINE s == <<Head(todo)>> \o Tail(todo)
    <2>1. s \in Seq(FileLine) /\ s # <<>> /\ Head(s) = Head(todo) /\ Tail(s) = Tail(todo)
      BY <1>2, FirstThenRest
    <2> HIDE DEF s
    <2>2. s = todo
      BY <1>1, <2>1, SameHeadAndTail
    <2> QED BY <2>2 DEF s
  <1> QED BY <1>1, <1>4, <1>5, <1>6, <1>7, LoadStands

LEMMA LoadErrorStands ==
  ASSUME IInv, Faithful, LoadError
  PROVE  Faithful' /\ Stands
  <1>1. /\ status = "loading" /\ walk.op = "idle" /\ todo \in Seq(FileLine) /\ todo # <<>>
        /\ Head(todo) = Malformed /\ todo' = <<>> /\ walk' = walk /\ match \in Tables
        /\ UNCHANGED <<match, count, file, status>>
    BY DEF LoadError, Free, Faithful, IInv, TypeOK, tree, Tables
  <1>2. Unread = todo /\ Unread' = <<>> /\ walk'.op = "idle"
    BY <1>1 DEF Unread
  <1>3. Applied(match, todo) = match /\ Applied(match, <<>>) = match
    BY <1>1, NothingAfterAnError, NoLines
  <1>4. Applied(match', Unread') = Applied(match, Unread)
    BY <1>1, <1>2, <1>3
  <1> QED BY <1>1, <1>2, <1>4, LoadStands

LEMMA ChangeStands ==
  ASSUME Faithful, NEW line \in Line, Change(line)
  PROVE  Faithful' /\ Stands
  BY UpStands DEF Change, tree

LEMMA AddDownStands ==
  ASSUME IInv, Faithful, AddDown
  PROVE  Faithful' /\ Stands
  <1>1. /\ walk.op = "add" /\ walk' = [walk EXCEPT !.depth = walk.depth + 1]
        /\ UNCHANGED <<match, count, file, todo, status>>
    BY DEF AddDown
  <1>2. walk'.op = "add" /\ walk'.to = walk.to /\ walk'.cmd = walk.cmd
    BY <1>1 DEF IInv, TypeOK
  <1>3. status # "down"
    BY <1>1 DEF Faithful
  <1>4. CASE status = "up"
    BY <1>1, <1>4, UpStands
  <1>5. CASE status = "loading"
    <2>1. Unread' = Unread
      BY <1>1, <1>2 DEF Unread
    <2> QED BY <1>1, <1>2, <1>5, <2>1, LoadStands
  <1> QED BY <1>3, <1>4, <1>5 DEF IInv, TypeOK

(* the end of either walk does to the rules what its line says *)
LEMMA AddEnds ==
  ASSUME IInv, AddRoot \/ AddEnd
  PROVE  /\ walk.op = "add" /\ walk' = Idle /\ UNCHANGED <<count, file, todo, status>>
         /\ match \in Tables /\ match' = AppliedLine(match, Pending)
  <1>1. walk.op = "add" /\ walk' = Idle /\ UNCHANGED <<count, file, todo, status>>
    BY DEF AddRoot, AddEnd
  <1>2. /\ Pending \in Line /\ Pending.to = walk.to /\ Pending.cmd = walk.cmd
        /\ walk.to \in Node /\ walk.cmd \in Verdicts \cup {REMOVE}
    BY <1>1, PendingLine
  <1>3. match \in Tables
    BY DEF IInv, TypeOK, Tables
  <1>4. CASE AddRoot
    BY <1>2, <1>3, <1>4, RootIsNode DEF AddRoot, AppliedLine, Effect, Tables
  <1>5. CASE AddEnd
    BY <1>2, <1>3, <1>5 DEF AddEnd, AppliedLine, Effect, Tables
  <1> QED BY <1>1, <1>3, <1>4, <1>5

LEMMA AddEndsRefines ==
  ASSUME IInv, Faithful, AddRoot \/ AddEnd
  PROVE  Faithful' /\ (Stands \/ \E r \in Abstract!Range :
                                    Abstract!Remove(r) \/ \E v \in Verdicts : Abstract!Add(r, v))
  <1>1. /\ walk.op = "add" /\ walk' = Idle /\ UNCHANGED <<count, file, todo, status>>
        /\ match \in Tables /\ match' = AppliedLine(match, Pending)
    BY AddEnds
  <1>2. /\ Pending \in Line /\ Pending.to = walk.to /\ Pending.cmd = walk.cmd
        /\ walk.to \in Node /\ walk.cmd \in Verdicts \cup {REMOVE} /\ Unread = <<Pending>> \o todo
    BY <1>1, PendingLine
  <1>3. CASE status = "loading"
    <2>1. todo \in Seq(FileLine)
      BY DEF IInv, TypeOK
    <2> DEFINE s == <<Pending>> \o todo
    <2>2. s \in Seq(FileLine) /\ s # <<>> /\ Head(s) = Pending /\ Tail(s) = todo /\ Pending # Malformed
      <3>1. Pending \in FileLine /\ Pending # Malformed
        BY <1>2, VerdictAssumption DEF FileLine, Malformed, REMOVE, MALFORMED
      <3> QED BY <2>1, <3>1, FirstThenRest
    <2> HIDE DEF s
    <2>3. Applied(match, s) = Applied(match', todo)
      BY <1>1, <2>2, AppliedHead
    <2>4. walk'.op = "idle" /\ Unread' = todo
      BY <1>1 DEF Idle, Unread
    <2>5. Applied(match', Unread') = Applied(match, Unread)
      BY <1>2, <2>3, <2>4 DEF s
    <2> QED BY <1>1, <1>3, <2>4, <2>5, LoadStands
  <1>4. CASE status = "up"
    <2>1. (status = "up") /\ (status' = "up") /\ Faithful' /\ Written' = Written
      BY <1>1, <1>4 DEF Faithful, Written
    <2>2. Promised = match /\ Promised' = match'
      BY <2>1 DEF Promised
    <2>3. CASE walk.cmd # REMOVE
      <3>1. match' = [match EXCEPT ![walk.to] = walk.cmd] /\ walk.cmd \in Verdicts
        BY <1>1, <1>2, <2>3 DEF AppliedLine, Effect, Tables
      <3>2. Abstract!Add(walk.to, walk.cmd)
        BY <1>1, <2>1, <2>2, <3>1 DEF Abstract!Add
      <3> QED BY <1>2, <2>1, <3>1, <3>2, Ranges
    <2>4. CASE walk.cmd = REMOVE /\ walk.to # Root
      <3>1. match' = [match EXCEPT ![walk.to] = NONE]
        BY <1>1, <1>2, <2>4 DEF AppliedLine, Effect, Tables
      <3>2. Abstract!Remove(walk.to)
        BY <1>1, <2>1, <2>2, <2>4, <3>1, Ranges DEF Abstract!Remove
      <3> QED BY <1>2, <2>1, <3>2, Ranges
    <2>5. CASE walk.cmd = REMOVE /\ walk.to = Root
      <3>1. match' = match
        BY <1>1, <1>2, <2>5 DEF AppliedLine, Tables
      <3> QED BY <1>1, <1>4, <3>1, UpStands
    <2> QED BY <2>3, <2>4, <2>5
  <1>5. status # "down"
    BY <1>1 DEF Faithful
  <1> QED BY <1>3, <1>4, <1>5 DEF IInv, TypeOK
-----------------------------------------------------------------------------
(***************************************************************************)
(* Saving, stopping and starting                                           *)
(***************************************************************************)
LEMMA SaveRefines ==
  ASSUME IInv, Faithful, SaveState
  PROVE  Faithful' /\ Abstract!Save
  <1>1. status = "up" /\ UNCHANGED <<match, count, status>>
    BY DEF SaveState, tree
  <1>2. PICK s : Collected(s) /\ file' = Whole(Table(s))
    BY DEF SaveState
  <1>3. file'.lines = Table(s) /\ file'.whole = TRUE
    BY <1>2, WholeTable
  <1>4. Written' = match
    BY <1>2, <1>3, TableReadsBack DEF Written
  <1>5. Promised = match /\ Promised' = match
    BY <1>1 DEF Promised
  <1>6. (status = "up") /\ (status' = "up") /\ (status' = "up") = (status = "up")
    BY <1>1
  <1> QED BY <1>1, <1>3, <1>4, <1>5, <1>6 DEF Abstract!Save, Faithful

LEMMA SaveCutRefines ==
  ASSUME IInv, Faithful, SaveCut
  PROVE  Faithful' /\ Abstract!SaveCut
  <1>1. status = "up" /\ UNCHANGED <<match, count, status>>
    BY DEF SaveCut, tree
  <1>2. PICK s : Collected(s) /\ file' \in CutOff(Table(s), {Malformed})
    BY DEF SaveCut
  <1>3. /\ file'.whole = FALSE
        /\ \E kept \in SUBSET {p \in Node : match[p] # FreshMatch[p]} :
             Applied(FreshMatch, file'.lines) = [p \in Node |-> IF p \in kept THEN match[p] ELSE FreshMatch[p]]
    BY <1>2, CutReadsBack
  <1>4. Written' \in Abstract!Remains(match)
    BY <1>3, Ranges DEF Written, Abstract!Remains
  <1>5. Promised = match /\ Promised' = match
    BY <1>1 DEF Promised
  <1>6. (status = "up") /\ (status' = "up") /\ (status' = "up") = (status = "up")
    BY <1>1
  <1> QED BY <1>1, <1>3, <1>4, <1>5, <1>6 DEF Abstract!SaveCut, Faithful

LEMMA GoneKeeps ==
  ASSUME Gone
  PROVE  Faithful' /\ ~ (status' = "up") /\ Promised' = Written' /\ count' = Uncounted
  BY DEF Gone, Faithful, Promised, Uncounted, Idle

LEMMA StopRefines ==
  ASSUME Faithful, status = "up", Gone,
         UNCHANGED <<Written, file.whole>> \/ (Written' = match /\ file'.whole = TRUE)
  PROVE  Faithful' /\ Abstract!Stop
  <1>1. Faithful' /\ ~ (status' = "up") /\ Promised' = Written' /\ count' = Uncounted
    BY GoneKeeps
  <1>2. Promised = match /\ (status = "up")
    BY DEF Promised
  <1> QED BY <1>1, <1>2, Ranges DEF Abstract!Stop

LEMMA TerminateRefines ==
  ASSUME IInv, Faithful, Terminate
  PROVE  Faithful' /\ Abstract!Stop
  <1>1. status = "up" /\ Gone
    BY DEF Terminate
  <1>2. PICK s : Collected(s) /\ (file' = file \/ file' = Whole(Table(s)))
    BY DEF Terminate
  <1>3. CASE file' = file
    BY <1>1, <1>3, StopRefines DEF Written
  <1>4. CASE file' = Whole(Table(s))
    <2>1. file'.lines = Table(s) /\ file'.whole = TRUE
      BY <1>2, <1>4, WholeTable
    <2>2. Written' = match
      BY <1>2, <2>1, TableReadsBack DEF Written
    <2> QED BY <1>1, <2>1, <2>2, StopRefines
  <1> QED BY <1>2, <1>3, <1>4

LEMMA CrashRefines ==
  ASSUME IInv, Faithful, Crash
  PROVE  Faithful' /\ (Abstract!Stop \/ Stands)
  <1>1. status # "down" /\ Gone /\ UNCHANGED <<Written, file.whole>>
    BY DEF Crash, Written
  <1>2. CASE status = "up"
    BY <1>1, <1>2, StopRefines
  <1>3. CASE status = "loading"
    <2>1. Faithful' /\ ~ (status' = "up") /\ Promised' = Written' /\ count' = Uncounted
      BY <1>1, GoneKeeps
    <2>2. Promised = Written /\ count = Uncounted
      BY <1>3 DEF Faithful
    <2>3. (status' = "up") = (status = "up")
      BY <1>3, <2>1
    <2> QED BY <1>1, <2>1, <2>2, <2>3 DEF Stands
  <1> QED BY <1>1, <1>2, <1>3 DEF IInv, TypeOK

LEMMA StartStands ==
  ASSUME Faithful, Start
  PROVE  Faithful' /\ Stands
  <1>1. /\ status = "down" /\ status' = "loading" /\ todo' = file.lines
        /\ UNCHANGED <<match, count, walk, file>> /\ match = FreshMatch /\ walk.op = "idle"
    BY DEF Start, tree, Faithful
  <1>2. Unread' = file.lines
    BY <1>1 DEF Unread
  <1>3. Promised = Written /\ Promised' = Written /\ Written' = Written
    BY <1>1, <1>2 DEF Promised, Written
  <1>4. (status' = "up") = (status = "up")
    BY <1>1
  <1> QED BY <1>1, <1>3, <1>4 DEF Faithful, Stands

LEMMA LoadDoneRefines ==
  ASSUME IInv, Faithful, LoadDone
  PROVE  Faithful' /\ Abstract!Restart
  <1>1. /\ status = "loading" /\ status' = "up" /\ todo = <<>> /\ walk.op = "idle"
        /\ UNCHANGED <<match, count, file>>
    BY DEF LoadDone, Free, tree, Faithful
  <1>2. Unread = <<>> /\ match \in Tables
    BY <1>1 DEF Unread, IInv, TypeOK, Tables
  <1>3. Promised = match /\ Promised' = match /\ Written' = Written
    BY <1>1, <1>2, NoLines DEF Promised, Written
  <1>4. ~ (status = "up") /\ (status' = "up")
    BY <1>1
  <1> QED BY <1>1, <1>3, <1>4 DEF Faithful, Abstract!Restart
-----------------------------------------------------------------------------
LEMMA StepRefines ==
  ASSUME IInv, Faithful, [Next]_vars
  PROVE  Faithful' /\ [Abstract!Next]_(Abstract!rvars)
  <1>0. Stands => UNCHANGED Abstract!rvars
    BY DEF Stands, Abstract!rvars
  <1>1. CASE UNCHANGED vars
    <2>1. UNCHANGED <<match, count, walk, file, todo, status>>
      BY <1>1 DEF vars
    <2>2. Promised' = Promised /\ Written' = Written
      BY <2>1 DEF Promised, Written, Unread
    <2>3. (status' = "up") = (status = "up")
      BY <2>1
    <2>4. Faithful'
      BY <2>1, <2>2 DEF Faithful
    <2> QED BY <1>0, <2>1, <2>2, <2>3, <2>4 DEF Stands
  <1>2. ASSUME NEW a \in Address, MatchStart(a) PROVE Faithful' /\ Stands
    BY <1>2, MatchStartStands
  <1>3. ASSUME NEW line \in Line, Change(line) PROVE Faithful' /\ Stands
    BY <1>3, ChangeStands
  <1>4. CASE MatchDown \/ LoadLine \/ LoadError \/ AddDown \/ Start
    BY <1>0, <1>4, MatchDownStands, LoadLineStands, LoadErrorStands, AddDownStands, StartStands
  <1>5. CASE MatchEnd
    BY <1>5, MatchEndRefines DEF Abstract!Next
  <1>6. CASE AddRoot \/ AddEnd
    BY <1>0, <1>6, AddEndsRefines DEF Abstract!Next
  <1>7. CASE LoadDone
    BY <1>7, LoadDoneRefines DEF Abstract!Next
  <1>8. CASE SaveState \/ SaveCut
    BY <1>8, SaveRefines, SaveCutRefines DEF Abstract!Next
  <1>9. CASE Terminate \/ Crash
    BY <1>0, <1>9, TerminateRefines, CrashRefines DEF Abstract!Next
  <1> QED BY <1>0, <1>1, <1>2, <1>3, <1>4, <1>5, <1>6, <1>7, <1>8, <1>9 DEF Next

(***************************************************************************)
(* The tree, walked bit by bit for every request and every change, is the  *)
(* table of PrefixRules, for addresses of any length and any file: the     *)
(* longest range decides and counts, and a restart brings back the rules   *)
(* of the last save.                                                       *)
(***************************************************************************)
THEOREM Refinement == Spec => ImplementsPrefixRules
  <1>1. Init => Faithful /\ Abstract!Init
    BY InitFaithful
  <1>2. IInv /\ Faithful /\ [Next]_vars => Faithful' /\ [Abstract!Next]_(Abstract!rvars)
    BY StepRefines
  <1> QED BY <1>1, <1>2, Invariance, PTL DEF Spec, ImplementsPrefixRules, Abstract!Spec
-----------------------------------------------------------------------------
(***************************************************************************)
(* The sum of MapThenSumSet, which takes the elements one at a time.  The  *)
(* provers have no induction to offer; a smallest set for which a claim    *)
(* fails serves instead.                                                   *)
(***************************************************************************)
Pick(s)           == CHOOSE x \in s : TRUE
Unfolded(f, S, g) == [s \in SUBSET S |-> IF s = {} THEN 0 ELSE f[Pick(s)] + g[s \ {Pick(s)}]]
Sums(f, S)        == CHOOSE g : g = Unfolded(f, S, g)

LEMMA SumUnfolds == \A f, S : MapThenSumSet(LAMBDA x : f[x], S) = Sums(f, S)[S]
  BY DEF MapThenSumSet, MapThenFoldSet, Sums, Unfolded, Pick

LEMMA OneLess ==
  ASSUME NEW S, IsFiniteSet(S), NEW s \in SUBSET S
  PROVE  /\ Cardinality(s) \in Nat
         /\ Cardinality(s) \in 0 .. Cardinality(S) /\ Cardinality(S) \in Nat
         /\ s = {} <=> Cardinality(s) = 0
         /\ s # {} => /\ Pick(s) \in s /\ s \ {Pick(s)} \in SUBSET S
                      /\ Cardinality(s \ {Pick(s)}) = Cardinality(s) - 1
  <1>1. IsFiniteSet(s) /\ Cardinality(s) <= Cardinality(S)
    BY FS_Subset
  <1>2. Cardinality(s) \in Nat /\ Cardinality(S) \in Nat
    BY <1>1, FS_CardinalityType
  <1>3. s = {} <=> Cardinality(s) = 0
    BY <1>1, FS_EmptySet
  <1>4. s # {} => Pick(s) \in s
    BY DEF Pick
  <1>5. s # {} => Cardinality(s \ {Pick(s)}) = Cardinality(s) - 1
    BY <1>1, <1>4, FS_RemoveElement
  <1> QED BY <1>1, <1>2, <1>3, <1>4, <1>5

LEMMA Smallest ==
  ASSUME NEW B \in SUBSET Nat, B # {}
  PROVE  \E m \in B : \A n \in Nat : n < m => n \notin B
  <1>1. PICK b \in B : TRUE
    OBVIOUS
  <1> DEFINE C == {n \in B : n <= b}
  <1>2. IsFiniteSet(C)
    BY FS_BoundedSetOfNaturals
  <1>3. C \subseteq Int /\ C # {}
    <2>1. b \in Nat /\ b <= b
      BY <1>1
    <2>2. b \in C
      BY <1>1, <2>1
    <2>3. C \subseteq Int
      <3>1. B \subseteq Int
        OBVIOUS
      <3> QED BY <3>1
    <2> QED BY <2>2, <2>3
  <1>4. PICK m \in C : \A n \in C : m <= n
    BY <1>2, <1>3, FirstAndLastMember
  <1> QED BY <1>4

LEMMA SumsExist ==
  ASSUME NEW S, IsFiniteSet(S), NEW f
  PROVE  Sums(f, S) = Unfolded(f, S, Sums(f, S))
  <1> DEFINE UpTo(g, n) == \A s \in SUBSET S : Cardinality(s) <= n => g[s] = Unfolded(f, S, g)[s]
             Bad == {n \in Nat : \A g : ~ UpTo(g, n)}
  <1>1. 0 \notin Bad
    <2> DEFINE g == [s \in SUBSET S |-> 0]
    <2>1. ASSUME NEW s \in SUBSET S, Cardinality(s) <= 0 PROVE g[s] = Unfolded(f, S, g)[s]
      <3>1. Cardinality(s) \in Nat
        BY OneLess
      <3>3. s = {} <=> Cardinality(s) = 0
        BY OneLess
      <3>2. s = {}
        BY <2>1, <3>1, <3>3
      <3> QED BY <3>2 DEF Unfolded
    <2>2. UpTo(g, 0)
      BY <2>1
    <2> QED BY <2>2
  <1>2. ASSUME NEW m \in Nat \ {0}, m - 1 \notin Bad PROVE m \notin Bad
    <2>1. m - 1 \in Nat
      OBVIOUS
    <2>2. PICK g : UpTo(g, m - 1)
      BY <1>2, <2>1
    <2> DEFINE h == Unfolded(f, S, g)
    <2>3. ASSUME NEW s \in SUBSET S, Cardinality(s) <= m PROVE h[s] = Unfolded(f, S, h)[s]
      <3>1. CASE s = {}
        BY <3>1 DEF Unfolded
      <3>2. CASE s # {}
        <4> DEFINE t == s \ {Pick(s)}
        <4>1. t \in SUBSET S /\ Cardinality(t) = Cardinality(s) - 1 /\ Cardinality(s) \in Nat
          <5>1. Cardinality(s) \in 0 .. Cardinality(S) /\ Cardinality(S) \in Nat
            BY OneLess
          <5>2. Cardinality(s) \in Nat
            BY <5>1
          <5>3. t \in SUBSET S /\ Cardinality(t) = Cardinality(s) - 1
            BY <3>2, OneLess
          <5> QED BY <5>2, <5>3
        <4>2. Cardinality(t) <= m - 1
          BY <2>3, <4>1
        <4>3. g[t] = h[t]
          BY <2>2, <4>1, <4>2
        <4>4. h[s] = f[Pick(s)] + g[t]
          BY <3>2 DEF Unfolded
        <4> HIDE DEF h
        <4>5. Unfolded(f, S, h)[s] = f[Pick(s)] + h[t]
          BY <3>2 DEF Unfolded
        <4> QED BY <4>3, <4>4, <4>5
      <3> QED BY <3>1, <3>2
    <2>4. UpTo(h, m)
      BY <2>3
    <2> QED BY <2>4
  <1>3. Bad = {}
    <2> SUFFICES ASSUME Bad # {} PROVE FALSE
      OBVIOUS
    <2>1. Bad \in SUBSET Nat
      OBVIOUS
    <2> HIDE DEF Bad
    <2>2. PICK m \in Bad : \A n \in Nat : n < m => n \notin Bad
      BY <2>1, Smallest
    <2>3. m \in Nat \ {0}
      BY <1>1, <2>1, <2>2
    <2>4. m - 1 \in Nat /\ m - 1 < m
      BY <2>3
    <2> QED BY <1>2, <2>2, <2>3, <2>4
  <1>4. Cardinality(S) \in Nat
    BY FS_CardinalityType
  <1>5. PICK g : UpTo(g, Cardinality(S))
    BY <1>3, <1>4
  <1> DEFINE h == Unfolded(f, S, g)
  <1>6. \A s \in SUBSET S : g[s] = h[s]
    <2> TAKE s \in SUBSET S
    <2>1. Cardinality(s) \in 0 .. Cardinality(S) /\ Cardinality(S) \in Nat
      BY OneLess
    <2>2. Cardinality(s) <= Cardinality(S)
      BY <2>1
    <2> QED BY <1>5, <2>2
  <1>7. h = Unfolded(f, S, h)
    <2>1. ASSUME NEW s \in SUBSET S PROVE h[s] = Unfolded(f, S, h)[s]
      <3>1. CASE s = {}
        BY <3>1 DEF Unfolded
      <3>2. CASE s # {}
        <4> DEFINE t == s \ {Pick(s)}
        <4>1. g[t] = h[t]
          BY <1>6, <3>2
        <4>2. h[s] = f[Pick(s)] + g[t]
          BY <3>2 DEF Unfolded
        <4> HIDE DEF h
        <4>3. Unfolded(f, S, h)[s] = f[Pick(s)] + h[t]
          BY <3>2 DEF Unfolded
        <4> QED BY <4>1, <4>2, <4>3
      <3> QED BY <3>1, <3>2
    <2>2. h = [s \in SUBSET S |-> h[s]]
      BY DEF Unfolded
    <2>3. Unfolded(f, S, h) = [s \in SUBSET S |-> Unfolded(f, S, h)[s]]
      <3> HIDE DEF h
      <3> QED BY DEF Unfolded
    <2> HIDE DEF h
    <2> QED BY <2>1, <2>2, <2>3
  <1> HIDE DEF h
  <1> QED BY <1>7 DEF Sums

(* what is summed, one element at a time *)
LEMMA SumStep ==
  ASSUME NEW S, IsFiniteSet(S), NEW f
  PROVE  /\ Sums(f, S)[{}] = 0
         /\ \A s \in SUBSET S : s # {} => Sums(f, S)[s] = f[Pick(s)] + Sums(f, S)[s \ {Pick(s)}]
  <1> DEFINE g == Sums(f, S)
  <1>1. g = Unfolded(f, S, g)
    BY SumsExist
  <1> HIDE DEF g
  <1>2. g = [s \in SUBSET S |-> IF s = {} THEN 0 ELSE f[Pick(s)] + g[s \ {Pick(s)}]]
    BY <1>1 DEF Unfolded
  <1>3. g[{}] = 0
    <2>1. {} \in SUBSET S
      OBVIOUS
    <2> QED BY <1>2, <2>1
  <1>4. \A s \in SUBSET S : s # {} => g[s] = f[Pick(s)] + g[s \ {Pick(s)}]
    <2> TAKE s \in SUBSET S
    <2>1. g[s] = IF s = {} THEN 0 ELSE f[Pick(s)] + g[s \ {Pick(s)}]
      BY <1>2
    <2> QED BY <2>1
  <1> QED BY <1>3, <1>4 DEF g

(* a sum is a number; it is zero if all are; it grows by one when one does *)
LEMMA SumFacts ==
  ASSUME NEW S, IsFiniteSet(S), NEW f \in [S -> Nat], NEW q \in S
  PROVE  /\ Sums(f, S)[S] \in Nat
         /\ (\A x \in S : f[x] = 0) => Sums(f, S)[S] = 0
         /\ Sums([f EXCEPT ![q] = f[q] + 1], S)[S] = Sums(f, S)[S] + 1
  <1> DEFINE e == [f EXCEPT ![q] = f[q] + 1]
             g == Sums(f, S)
             h == Sums(e, S)
             More(s) == IF q \in s THEN 1 ELSE 0
             Fine(s) == /\ g[s] \in Nat /\ ((\A x \in S : f[x] = 0) => g[s] = 0)
                        /\ h[s] = g[s] + More(s)
             Bad == {Cardinality(s) : s \in {s \in SUBSET S : ~ Fine(s)}}
  <1>1. /\ g[{}] = 0 /\ h[{}] = 0
        /\ \A s \in SUBSET S : s # {} => g[s] = f[Pick(s)] + g[s \ {Pick(s)}]
        /\ \A s \in SUBSET S : s # {} => h[s] = e[Pick(s)] + h[s \ {Pick(s)}]
    <2> HIDE DEF e
    <2> QED BY SumStep
  <1> HIDE DEF g, h
  <1>2. ASSUME NEW s \in SUBSET S, s # {} => Fine(s \ {Pick(s)}) PROVE Fine(s)
    <2>1. CASE s = {}
      BY <1>1, <2>1
    <2>2. CASE s # {}
      <3> DEFINE p == Pick(s)
                 t == s \ {p}
      <3>1. p \in s /\ p \in S
        BY <2>2, OneLess
      <3>2. g[s] = f[p] + g[t] /\ h[s] = e[p] + h[t]
        BY <1>1, <2>2
      <3>3. f[p] \in Nat /\ e[p] = IF p = q THEN f[p] + 1 ELSE f[p]
        BY <3>1
      <3>4. Fine(t)
        BY <1>2, <2>2
      <3>5. More(s) = IF p = q THEN 1 ELSE More(t)
        BY <3>1
      <3>6. p = q => More(t) = 0
        OBVIOUS
      <3>7. More(t) \in Nat
        OBVIOUS
      <3> HIDE DEF More, e, p, t
      <3>8. h[s] = g[s] + More(s)
        BY <3>2, <3>3, <3>4, <3>5, <3>6, <3>7
      <3>9. g[s] \in Nat
        BY <3>2, <3>3, <3>4
      <3>10. (\A x \in S : f[x] = 0) => g[s] = 0
        BY <3>1, <3>2, <3>4
      <3> QED BY <3>8, <3>9, <3>10
    <2> QED BY <2>1, <2>2
  <1> HIDE DEF Fine
  <1>3. Bad \in SUBSET Nat
    <2>1. ASSUME NEW s \in SUBSET S PROVE Cardinality(s) \in Nat
      BY OneLess
    <2> QED BY <2>1
  <1>4. Bad = {}
    <2> SUFFICES ASSUME Bad # {} PROVE FALSE
      OBVIOUS
    <2>1. PICK m \in Bad : \A n \in Nat : n < m => n \notin Bad
      <3> HIDE DEF Bad
      <3> QED BY <1>3, Smallest
    <2>2. PICK s \in SUBSET S : ~ Fine(s) /\ m = Cardinality(s)
      BY <2>1
    <2>3. ASSUME s # {} PROVE Fine(s \ {Pick(s)})
      <3>1. /\ s \ {Pick(s)} \in SUBSET S /\ Cardinality(s \ {Pick(s)}) = Cardinality(s) - 1
            /\ Cardinality(s) \in Nat /\ Cardinality(s) # 0
        <4>1. /\ s \ {Pick(s)} \in SUBSET S /\ Cardinality(s \ {Pick(s)}) = Cardinality(s) - 1
              /\ Cardinality(s) # 0
          BY <2>3, OneLess
        <4>2. Cardinality(s) \in 0 .. Cardinality(S) /\ Cardinality(S) \in Nat
          BY OneLess
        <4>3. Cardinality(s) \in Nat
          BY <4>2
        <4> QED BY <4>1, <4>3
      <3>2. Cardinality(s) - 1 \in Nat /\ Cardinality(s) - 1 < Cardinality(s)
        BY <3>1
      <3>3. Cardinality(s \ {Pick(s)}) \notin Bad
        BY <2>1, <2>2, <3>1, <3>2
      <3> QED BY <3>1, <3>3
    <2> QED BY <1>2, <2>2, <2>3
  <1>5. Fine(S)
    BY <1>4
  <1> QED BY <1>5 DEF Fine, g, h

LEMMA NodesAreFinite == IsFiniteSet(Node)
  <1> DEFINE Codes == (0 .. Bits) \X SUBSET (1 .. Bits)
             Code == [s \in Node |-> <<Len(s), {i \in 1 .. Len(s) : s[i] = 1}>>]
  <1>1. IsFiniteSet(Codes)
    <2>1. IsFiniteSet(0 .. Bits) /\ IsFiniteSet(1 .. Bits)
      BY BitsAssumption, FS_Interval
    <2>2. IsFiniteSet(SUBSET (1 .. Bits))
      BY <2>1, FS_SUBSET
    <2> QED BY <2>1, <2>2, FS_Product
  <1>2. \A s \in Node : s \in Seq({0, 1}) /\ Len(s) \in 0 .. Bits
    BY NodeIsSeq
  <1>3. Code \in [Node -> Codes]
    <2> SUFFICES ASSUME NEW s \in Node PROVE <<Len(s), {i \in 1 .. Len(s) : s[i] = 1}>> \in Codes
      OBVIOUS
    <2>1. {i \in 1 .. Len(s) : s[i] = 1} \in SUBSET (1 .. Bits)
      BY <1>2, BitsAssumption
    <2> QED BY <1>2, <2>1
  <1>4. ASSUME NEW s \in Node, NEW t \in Node, Code[s] = Code[t] PROVE s = t
    <2>1. Len(s) = Len(t) /\ {i \in 1 .. Len(s) : s[i] = 1} = {i \in 1 .. Len(t) : t[i] = 1}
      BY <1>4
    <2>2. ASSUME NEW i \in 1 .. Len(s) PROVE s[i] = t[i]
      <3>1. s[i] \in {0, 1} /\ t[i] \in {0, 1}
        BY <1>2, <2>1
      <3>2. s[i] = 1 <=> t[i] = 1
        BY <2>1
      <3> QED BY <3>1, <3>2
    <2> QED BY <1>2, <2>1, <2>2, SeqEqual
  <1>5. Code \in Injection(Node, Codes)
    <2>1. IsInjective(Code)
      BY <1>3, <1>4 DEF IsInjective
    <2> QED BY <1>3, <2>1 DEF Injection
  <1> HIDE DEF Code, Codes
  <1> QED BY <1>1, <1>5, FS_Injection
-----------------------------------------------------------------------------
Hits    == Sums(count, Node)[Node]
Walking == IF walk.op = "match" THEN 1 ELSE 0

LEMMA HitsNow == HitsConserved <=> requests = Hits + Walking
  BY DEF HitsConserved, Hits, Walking, MapThenSumSet, MapThenFoldSet, Sums, Unfolded, Pick

LEMMA HitsNext == HitsConserved' <=> requests' = Hits' + Walking'
  BY DEF HitsConserved, Hits, Walking, MapThenSumSet, MapThenFoldSet, Sums, Unfolded, Pick

LEMMA HitsType == TypeOK => Hits \in Nat
  BY NodesAreFinite, RootIsNode, SumFacts DEF Hits, TypeOK

LEMMA NoHits == count = [p \in Node |-> 0] => Hits = 0
  <1> SUFFICES ASSUME count = [p \in Node |-> 0] PROVE Hits = 0
    OBVIOUS
  <1>1. count \in [Node -> Nat] /\ \A p \in Node : count[p] = 0
    OBVIOUS
  <1> QED BY <1>1, NodesAreFinite, RootIsNode, SumFacts DEF Hits

LEMMA NoHitsNext == count' = [p \in Node |-> 0] => Hits' = 0
  <1> SUFFICES ASSUME count' = [p \in Node |-> 0] PROVE Hits' = 0
    OBVIOUS
  <1>1. count' \in [Node -> Nat] /\ \A p \in Node : count'[p] = 0
    OBVIOUS
  <1> QED BY <1>1, NodesAreFinite, RootIsNode, SumFacts DEF Hits

LEMMA HitsStay ==
  ASSUME HitsConserved, UNCHANGED <<count, requests, Walking>>
  PROVE  HitsConserved'
  <1>1. Hits' = Hits
    BY DEF Hits
  <1> QED BY <1>1, HitsNow, HitsNext

LEMMA HitsAgain ==
  ASSUME IInv, HitsConserved, [Next]_vars
  PROVE  HitsConserved'
  <1>1. CASE UNCHANGED vars
    BY <1>1, HitsStay DEF vars, Walking
  <1>2. ASSUME NEW a \in Address, MatchStart(a) PROVE HitsConserved'
    <2>1. requests = Hits + 0 /\ Walking' = 1 /\ Hits' = Hits /\ requests' = requests + 1
      BY <1>2, HitsNow DEF MatchStart, Free, Walking, Hits, tree
    <2>2. Hits \in Nat
      BY HitsType DEF IInv
    <2> QED BY <2>1, <2>2, HitsNext
  <1>3. ASSUME MatchEnd PROVE HitsConserved'
    <2>1. Best \in Node
      BY <1>3, BestIsLongest DEF MatchEnd
    <2>2. count' = [count EXCEPT ![Best] = count[Best] + 1]
      BY <1>3 DEF MatchEnd
    <2>3. Hits' = Hits + 1
      <3>1. count \in [Node -> Nat]
        BY DEF IInv, TypeOK
      <3>2. Sums([count EXCEPT ![Best] = count[Best] + 1], Node)[Node] = Sums(count, Node)[Node] + 1
        BY <2>1, <3>1, NodesAreFinite, SumFacts
      <3> QED BY <2>2, <3>2 DEF Hits
    <2>4. requests = Hits + 1 /\ requests' = requests /\ Walking' = 0
      BY <1>3, HitsNow DEF MatchEnd, Walking, IInv, TypeOK
    <2>5. Hits \in Nat
      BY HitsType DEF IInv
    <2> QED BY <2>3, <2>4, <2>5, HitsNext
  <1>4. ASSUME Gone PROVE HitsConserved'
    <2>1. requests' = 0 /\ Hits' = 0 /\ Walking' = 0
      BY <1>4, NoHitsNext DEF Gone, Idle, Walking
    <2> QED BY <2>1, HitsNext
  <1>5. ASSUME MatchDown PROVE HitsConserved'
    <2>1. Walking' = Walking
      BY <1>5 DEF MatchDown, Walking, IInv, TypeOK
    <2> QED BY <1>5, <2>1, HitsStay DEF MatchDown, tree
  <1>6. ASSUME NEW line \in Line, Change(line) PROVE HitsConserved'
    <2>1. Walking' = Walking
      BY <1>6 DEF Change, AddWalk, Free, Walking
    <2> QED BY <1>6, <2>1, HitsStay DEF Change, tree
  <1>7. ASSUME LoadLine PROVE HitsConserved'
    <2>1. Walking' = Walking
      BY <1>7 DEF LoadLine, AddWalk, Free, Walking
    <2> QED BY <1>7, <2>1, HitsStay DEF LoadLine, tree
  <1>8. ASSUME AddDown PROVE HitsConserved'
    <2>1. Walking' = Walking
      BY <1>8 DEF AddDown, Walking, IInv, TypeOK
    <2> QED BY <1>8, <2>1, HitsStay DEF AddDown
  <1>9. ASSUME AddRoot \/ AddEnd PROVE HitsConserved'
    <2>1. Walking' = Walking
      BY <1>9 DEF AddRoot, AddEnd, Idle, Walking
    <2> QED BY <1>9, <2>1, HitsStay DEF AddRoot, AddEnd
  <1>10. ASSUME LoadError \/ LoadDone \/ SaveState \/ SaveCut \/ Start PROVE HitsConserved'
    <2>1. UNCHANGED <<count, requests, walk>>
      BY <1>10 DEF LoadError, LoadDone, SaveState, SaveCut, Start, tree
    <2> QED BY <2>1, HitsStay DEF Walking
  <1>11. ASSUME Terminate \/ Crash PROVE Gone
    BY <1>11 DEF Terminate, Crash
  <1>12. ASSUME Next PROVE HitsConserved'
    BY <1>2, <1>3, <1>4, <1>5, <1>6, <1>7, <1>8, <1>9, <1>10, <1>11, <1>12 DEF Next
  <1> QED BY <1>1, <1>12

(***************************************************************************)
(* Every address ip_match() has decided about is counted at the node that  *)
(* decided, once, whatever was added, changed or removed since: the hits   *)
(* of the nodes sum up to the requests.                                    *)
(***************************************************************************)
THEOREM HitsAlwaysConserved == Spec => []HitsConserved
  <1>1. Init => HitsConserved
    BY HitsNow, NoHits DEF Init, Idle, Walking
  <1>2. IInv /\ HitsConserved /\ [Next]_vars => HitsConserved'
    BY HitsAgain
  <1> QED BY <1>1, <1>2, Invariance, PTL DEF Spec
=============================================================================
