---------------------------- MODULE ControlProofs ----------------------------
(***************************************************************************)
(* Theorems about gld-mcp, gld and the report children (Control.tla), for  *)
(* any number of operators, commands and children.                         *)
(*                                                                         *)
(* A command is at any time in one place at most: a request, a child that  *)
(* has not spoken yet, a reply, or an OK that was told.  An operator asks  *)
(* one thing at a time, so what is on its way is what it waits for, or     *)
(* comes after something it has given up; that is why a reply can go       *)
(* without the name of its command.  As long as nothing was given up and   *)
(* no child was upset, each OK on its way or just told has a child that    *)
(* listens, and no connection but the right one reaches it.                *)
(***************************************************************************)
EXTENDS Control, SequenceTheorems, TLAPS

Given == DOMAIN commands

(* an operator away from its prompt has a command, the last of its own *)
Issued ==
  /\ Len(commands) <= MaxCommands
  /\ \A o \in Operator : pc[o] # "prompt" => current[o] # NONE
  /\ \A o \in Operator : current[o] # NONE => current[o] \in Given /\ commands[current[o]].by = o
  /\ \A m \in Given : m <= current[commands[m].by]

(* what a child has while it is where it is *)
Shape ==
  \A s \in Slot :
    /\ child[s].pc \in {"none", "born"}
         => ~child[s].listening /\ child[s].queue = <<>> /\ child[s].conn = NONE
    /\ child[s].pc # "none" => child[s].for \in Given /\ commands[child[s].for].kind \in Reports
    /\ child[s].listening => child[s].pc = "accepting"
    /\ child[s].pc = "accepting" => child[s].conn = NONE
    /\ child[s].pc = "writing" => child[s].queue = <<>>

(* bind() goes beside sockets that do not listen, listen() does not *)
OneListens == \A s, t \in Slot : child[s].listening /\ child[t].listening => s = t

(* only those who were told OK go on to a report *)
Told ==
  /\ \A o \in Operator :
       pc[o] \in {"told", "paging"} => okfor[current[o]] # NONE /\ commands[current[o]].kind \in Reports
  /\ \A n \in Command : okfor[n] # NONE => n \in Given

(* an OK is of its command's kind, and said once that was carried out *)
Kinds == \A r \in replies : r.type # Error => r.for \in carried /\ r.type = commands[r.for].kind

Born(n)     == \E s \in Slot : child[s].pc = "born" /\ child[s].for = n
Answered(n) == \E r \in replies : r.for = n
Earned(n)   == \E l \in Command : okfor[l] = n

(* no command is in two places *)
OneToken ==
  /\ \A n \in Given : /\ n \in requests => ~Born(n) /\ ~Answered(n) /\ ~Earned(n)
                      /\ Born(n) => ~Answered(n) /\ ~Earned(n)
                      /\ Answered(n) => ~Earned(n)
  /\ \A s, t \in Slot :
       child[s].pc = "born" /\ child[t].pc = "born" /\ child[s].for = child[t].for => s = t
  /\ \A q, r \in replies : q.for = r.for => q = r
  /\ \A k, l \in Command : okfor[k] = okfor[l] /\ okfor[k] # NONE => k = l
  /\ \A l \in Command : okfor[l] \in Given \cup {NONE}

GivenUpBefore(n) == \E g \in givenup : g <= n /\ commands[g].by = commands[n].by
WaitsFor(n)      == pc[commands[n].by] = "waiting" /\ current[commands[n].by] = n
OnItsWay(n)      == n \in requests \/ Born(n) \/ Answered(n)

(* what is on its way is waited for, or late *)
Late ==
  /\ givenup \subseteq Given
  /\ \A n \in Given : OnItsWay(n) => WaitsFor(n) \/ GivenUpBefore(n)

(* a child that nothing has upset listens, for its own operator only *)
CalmChildren ==
  Calm => \A s \in Slot :
            /\ child[s].pc = "accepting" => child[s].listening /\ child[s].queue \in {<<>>, <<child[s].for>>}
            /\ child[s].pc = "writing" => child[s].conn = child[s].for

(* the OK of a report is on its way, or told and not yet used, *)
Promised(n) ==
  /\ commands[n].kind \in Reports
  /\ \/ \E r \in replies : r.for = n /\ r.type # Error
     \/ \E o \in Operator : pc[o] = "told" /\ current[o] = n

(* and its child waits with nobody in the queue *)
Ready(n) == \E s \in Slot : child[s].pc = "accepting" /\ child[s].for = n /\ child[s].queue = <<>>

Promises == Calm => \A n \in Given : Promised(n) => Ready(n)

(* a pager has a connection, or has been given something to show *)
Pagers == Calm => \A o \in Operator :
                    pc[o] = "paging" => Held(current[o]) \/ shown[current[o]] # "none"

(* PromisedReportIsRead, of every command *)
ShownCalm == Calm => \A n \in Command : shown[n] \in {"none", "read", "left"}

ControlInv ==
  /\ TypeOK /\ Issued /\ Shape /\ OneListens /\ Told /\ Kinds
  /\ OneToken /\ Late /\ OkIsEarned
  /\ CalmChildren /\ Promises /\ Pagers /\ ShownCalm
-----------------------------------------------------------------------------
(* the constants *)
LEMMA ControlNumbers ==
  /\ MaxCommands \in Nat /\ MaxChildren \in Nat /\ Command \subseteq Nat \ {0} /\ NONE = 0
  /\ NONE \notin Command /\ Slot \subseteq Nat
  /\ Error \notin Kind /\ Immediate \cap Reports = {} /\ Kind = Immediate \cup Reports
  BY ControlAssumption DEF Command, Slot, NONE, Kind

(* the commands given so far *)
LEMMA GivenFacts ==
  ASSUME ControlInv
  PROVE  /\ Len(commands) \in Nat /\ Given = 1 .. Len(commands) /\ Given \subseteq Command
         /\ Given \subseteq Nat \ {0} /\ NONE \notin Given
         /\ \A n \in Given : /\ commands[n] \in [by : Operator, kind : Kind]
                             /\ commands[n].by \in Operator /\ commands[n].kind \in Kind
  <1>1. commands \in Seq([by : Operator, kind : Kind]) /\ Len(commands) <= MaxCommands
    BY DEF ControlInv, TypeOK, Issued
  <1>2. Len(commands) \in Nat /\ Given = 1 .. Len(commands)
    BY <1>1 DEF Given
  <1>3. \A n \in Given : commands[n] \in [by : Operator, kind : Kind]
    BY <1>1, <1>2, ElementOfSeq
  <1> QED BY <1>1, <1>2, <1>3, ControlNumbers DEF Command

(* records of children *)
LEMMA QueueSet ==
  ASSUME NEW c \in Child, NEW q \in Seq(Command)
  PROVE  [c EXCEPT !.queue = q] \in Child
  <1> DEFINE S == Seq(Command)
  <1>1. \A d \in [pc : {"none", "born", "accepting", "writing"}, for : Command \cup {NONE},
                  listening : BOOLEAN, queue : S, conn : Command \cup {NONE}], x \in S :
          [d EXCEPT !.queue = x] \in [pc : {"none", "born", "accepting", "writing"}, for : Command \cup {NONE},
                                     listening : BOOLEAN, queue : S, conn : Command \cup {NONE}]
    <2> HIDE DEF S
    <2> QED OBVIOUS
  <1> QED BY <1>1 DEF Child

LEMMA NoChildFacts ==
  /\ NoChild \in Child /\ NoChild.pc = "none" /\ NoChild.for = NONE /\ NoChild.listening = FALSE
  /\ NoChild.queue = <<>> /\ NoChild.conn = NONE
  BY DEF NoChild, Child

LEMMA ControlInit == Init => ControlInv
  <1> SUFFICES ASSUME Init PROVE ControlInv
    OBVIOUS
  <1>1. commands = <<>> /\ commands \in Seq([by : Operator, kind : Kind]) /\ Len(commands) = 0 /\ Given = {}
    BY DEF Init, Given
  <1>2. TypeOK
    <2>1. /\ pc \in [Operator -> {"prompt", "waiting", "told", "paging"}]
          /\ current \in [Operator -> Command \cup {NONE}]
          /\ gld \in {"loop", "noted", "reaping", "again"}
          /\ shown \in [Command -> {"none", "refused", "cut", "left", "read", "other"}]
          /\ okfor \in [Command -> Command \cup {NONE}]
      BY DEF Init
    <2>2. child \in [Slot -> Child]
      BY NoChildFacts DEF Init
    <2>3. /\ requests \subseteq DOMAIN commands
          /\ replies \subseteq [for : DOMAIN commands, type : Kind \cup {Error}]
          /\ carried \subseteq Command /\ givenup \subseteq Command
      BY DEF Init
    <2>4. upset \in BOOLEAN
      BY DEF Init
    <2> QED BY <1>1, <2>1, <2>2, <2>3, <2>4 DEF TypeOK
  <1>3. Issued
    BY <1>1, ControlNumbers DEF Init, Issued
  <1>4. \A s \in Slot : child[s] = NoChild
    BY DEF Init
  <1>5. Shape /\ OneListens /\ CalmChildren
    BY <1>4, NoChildFacts DEF Shape, OneListens, CalmChildren
  <1>6. Told /\ Kinds /\ Pagers /\ ShownCalm
    BY DEF Init, Told, Kinds, Pagers, ShownCalm
  <1>7. OneToken
    BY <1>1, <1>4, NoChildFacts DEF Init, OneToken
  <1>8. Late /\ OkIsEarned /\ Promises
    BY <1>1 DEF Init, Late, OkIsEarned, Promises, Given
  <1> QED BY <1>2, <1>3, <1>5, <1>6, <1>7, <1>8 DEF ControlInv
-----------------------------------------------------------------------------
(* one operator moves *)
LEMMA Moves ==
  ASSUME ControlInv, NEW o \in Operator, NEW w \in {"prompt", "waiting", "told", "paging"}, Goes(o, w)
  PROVE  /\ pc'[o] = w /\ \A p \in Operator \ {o} : pc'[p] = pc[p]
         /\ pc' \in [Operator -> {"prompt", "waiting", "told", "paging"}]
  BY DEF ControlInv, TypeOK, Goes

(* what is unchanged as a whole *)
LEMMA Frames ==
  /\ UNCHANGED talk   => requests' = requests /\ replies' = replies
  /\ UNCHANGED server => gld' = gld /\ child' = child /\ carried' = carried
  /\ UNCHANGED ghosts => givenup' = givenup /\ upset' = upset
  BY DEF talk, server, ghosts

(* a command is given, with a number that nothing has had before; its request may not leave *)
LEMMA AskFacts ==
  ASSUME ControlInv, NEW o \in Operator, NEW k \in Kind, Ask(o, k) \/ AskFails(o, k)
  PROVE  \E m \in Command :
           /\ m = Len(commands) + 1 /\ m \notin Given /\ Given' = Given \cup {m} /\ \A n \in Given : n < m
           /\ commands' \in Seq([by : Operator, kind : Kind]) /\ Len(commands') <= MaxCommands
           /\ commands'[m].by = o /\ \A n \in Given : commands'[n] = commands[n]
           /\ pc[o] = "prompt" /\ pc'[o] \in {"prompt", "waiting"}
           /\ \A p \in Operator \ {o} : pc'[p] = pc[p]
           /\ pc' \in [Operator -> {"prompt", "waiting", "told", "paging"}]
           /\ current'[o] = m /\ \A p \in Operator \ {o} : current'[p] = current[p]
           /\ current' \in [Operator -> Command \cup {NONE}]
           /\ requests' \in {requests, requests \cup {m}}
           /\ m \in requests' => pc'[o] = "waiting"
           /\ UNCHANGED <<replies, gld, child, carried, shown, okfor, givenup, upset>>
  <1> DEFINE S == [by : Operator, kind : Kind]
             c == [by |-> o, kind |-> k]
             m == Len(commands) + 1
  <1>1. /\ pc[o] = "prompt" /\ Len(commands) < MaxCommands /\ commands' = Append(commands, c)
        /\ current' = [current EXCEPT ![o] = Len(commands')]
        /\ Goes(o, "waiting") \/ (pc' = pc /\ requests' = requests)
        /\ requests' \in {requests, requests \cup {Len(commands')}}
        /\ UNCHANGED <<replies, gld, child, carried, shown, okfor, givenup, upset>>
    <2>1. Give(o, k)
      BY DEF Ask, AskFails
    <2>2. CASE Ask(o, k)
      <3>1. /\ Goes(o, "waiting") /\ requests' = requests \cup {Len(commands')}
            /\ UNCHANGED <<replies, gld, child, carried, shown, okfor, givenup, upset>>
        BY <2>2, Frames DEF Ask
      <3> QED BY <2>1, <3>1 DEF Give
    <2>3. CASE AskFails(o, k)
      <3>1. UNCHANGED <<pc, requests, replies, gld, child, carried, shown, okfor, givenup, upset>>
        BY <2>3, Frames DEF AskFails
      <3> QED BY <2>1, <3>1 DEF Give
    <2> QED BY <2>2, <2>3
  <1>2. commands \in Seq(S) /\ c \in S /\ c.by = o
    BY DEF ControlInv, TypeOK
  <1> HIDE DEF S, c
  <1>3. /\ Len(commands) \in Nat /\ Given = 1 .. Len(commands)
    BY GivenFacts
  <1>4. /\ commands' \in Seq(S) /\ Len(commands') = m /\ commands'[m] = c
        /\ \A n \in 1 .. Len(commands) : commands'[n] = commands[n]
    BY <1>1, <1>2, AppendProperties
  <1>5. Given' = 1 .. m
    BY <1>4 DEF Given
  <1>6. m \in Command /\ m <= MaxCommands
    BY <1>1, <1>3, ControlNumbers DEF Command
  <1>7. /\ m \notin Given /\ Given' = Given \cup {m} /\ \A n \in Given : n < m
    BY <1>3, <1>5
  <1>8. /\ current'[o] = m /\ \A p \in Operator \ {o} : current'[p] = current[p]
        /\ current' \in [Operator -> Command \cup {NONE}]
    BY <1>1, <1>4, <1>6 DEF ControlInv, TypeOK
  <1>9. /\ pc'[o] \in {"prompt", "waiting"} /\ (m \in requests' => pc'[o] = "waiting") /\ \A p \in Operator \ {o} : pc'[p] = pc[p]
        /\ pc' \in [Operator -> {"prompt", "waiting", "told", "paging"}]
    <2>1. CASE Goes(o, "waiting")
      BY <2>1, Moves
    <2>2. CASE pc' = pc /\ requests' = requests
      <3>1. m \notin requests
        BY <1>7 DEF ControlInv, TypeOK, Given
      <3> QED BY <1>1, <2>2, <3>1 DEF ControlInv, TypeOK
    <2> QED BY <1>1, <2>1, <2>2
  <1>10. commands' \in Seq([by : Operator, kind : Kind]) /\ commands'[m].by = o
    BY <1>2, <1>4 DEF S
  <1> HIDE DEF m
  <1> QED BY <1>1, <1>3, <1>4, <1>6, <1>7, <1>8, <1>9, <1>10 DEF m

LEMMA AskStep ==
  ASSUME ControlInv, NEW o \in Operator, NEW k \in Kind, Ask(o, k) \/ AskFails(o, k)
  PROVE  ControlInv'
  <1>1. PICK m \in Command :
           /\ m = Len(commands) + 1 /\ m \notin Given /\ Given' = Given \cup {m} /\ \A n \in Given : n < m
           /\ commands' \in Seq([by : Operator, kind : Kind]) /\ Len(commands') <= MaxCommands
           /\ commands'[m].by = o /\ \A n \in Given : commands'[n] = commands[n]
           /\ pc[o] = "prompt" /\ pc'[o] \in {"prompt", "waiting"}
           /\ \A p \in Operator \ {o} : pc'[p] = pc[p]
           /\ pc' \in [Operator -> {"prompt", "waiting", "told", "paging"}]
           /\ current'[o] = m /\ \A p \in Operator \ {o} : current'[p] = current[p]
           /\ current' \in [Operator -> Command \cup {NONE}]
           /\ requests' \in {requests, requests \cup {m}}
           /\ m \in requests' => pc'[o] = "waiting"
           /\ UNCHANGED <<replies, gld, child, carried, shown, okfor, givenup, upset>>
    BY AskFacts
  <1>2. /\ Given \subseteq Nat \ {0} /\ Given \subseteq Command /\ NONE \notin Given
        /\ m \in Nat /\ m # NONE
        /\ \A n \in Given : commands[n].by \in Operator
    BY GivenFacts, ControlNumbers
  <1>3. Calm' <=> Calm
    BY <1>1 DEF Calm
  <1>4. TypeOK'
    <2>1. replies \subseteq [for : Given, type : Kind \cup {Error}] /\ requests \subseteq Given
      BY DEF ControlInv, TypeOK, Given
    <2>2. replies' \subseteq [for : Given', type : Kind \cup {Error}] /\ requests' \subseteq Given'
      BY <1>1, <2>1
    <2> QED BY <1>1, <2>2 DEF ControlInv, TypeOK, Given
  <1>5. Issued'
    <2>1. \A p \in Operator : current'[p] # NONE => current'[p] \in Given' /\ commands'[current'[p]].by = p
      BY <1>1 DEF ControlInv, Issued
    <2>2. \A n \in Given' : n <= current'[commands'[n].by]
      BY <1>1, <1>2 DEF ControlInv, Issued
    <2>3. \A p \in Operator : pc'[p] # "prompt" => current'[p] # NONE
      BY <1>1, <1>2 DEF ControlInv, Issued
    <2> QED BY <1>1, <2>1, <2>2, <2>3 DEF Issued
  <1>6. Shape' /\ OneListens' /\ CalmChildren'
    BY <1>1, <1>3 DEF ControlInv, Shape, OneListens, CalmChildren
  <1>7. Told' /\ Pagers' /\ ShownCalm'
    <2>1. \A p \in Operator : pc'[p] \in {"told", "paging"} => p # o /\ pc[p] = pc'[p] /\ current'[p] \in Given
      BY <1>1 DEF ControlInv, Issued
    <2>2. Told'
      BY <1>1, <2>1 DEF ControlInv, Told
    <2>3. Pagers'
      BY <1>1, <1>3, <2>1 DEF ControlInv, Pagers, Held
    <2>4. ShownCalm'
      BY <1>1, <1>3 DEF ControlInv, ShownCalm
    <2> QED BY <2>2, <2>3, <2>4
  <1>8. \A r \in replies : r.for \in Given
    BY DEF ControlInv, TypeOK, Given
  <1>9. Kinds'
    BY <1>1, <1>8 DEF ControlInv, Kinds
  <1>10. /\ ~Born(m) /\ ~Answered(m) /\ ~Earned(m) /\ m \notin requests
         /\ \A n : /\ Born(n)' <=> Born(n)
                   /\ Answered(n)' <=> Answered(n)
                   /\ Earned(n)' <=> Earned(n)
    <2>1. ~Born(m)
      BY <1>1 DEF Born, ControlInv, Shape
    <2>2. ~Answered(m) /\ m \notin requests
      BY <1>1, <1>8 DEF Answered, ControlInv, TypeOK, Given
    <2>3. ~Earned(m)
      BY <1>1, <1>2 DEF Earned, ControlInv, OneToken
    <2> QED BY <1>1, <2>1, <2>2, <2>3 DEF Born, Answered, Earned
  <1>11. OneToken'
    <2>1. \A n \in Given' : /\ n \in requests' => ~Born(n)' /\ ~Answered(n)' /\ ~Earned(n)'
                            /\ Born(n)' => ~Answered(n)' /\ ~Earned(n)'
                            /\ Answered(n)' => ~Earned(n)'
      BY <1>1, <1>10 DEF ControlInv, OneToken
    <2> QED BY <1>1, <2>1 DEF ControlInv, OneToken
  <1>12. Late'
    <2>1. ASSUME NEW n \in Given, OnItsWay(n) PROVE WaitsFor(n)' \/ GivenUpBefore(n)'
      <3>1. n # m /\ commands'[n] = commands[n] /\ givenup \subseteq Given /\ givenup' = givenup
        BY <1>1 DEF ControlInv, Late
      <3>2. CASE WaitsFor(n)
        BY <1>1, <1>2, <3>1, <3>2 DEF WaitsFor
      <3>3. CASE GivenUpBefore(n)
        BY <1>1, <3>1, <3>3 DEF GivenUpBefore
      <3> QED BY <2>1, <3>2, <3>3 DEF ControlInv, Late
    <2>2. OnItsWay(m)' => WaitsFor(m)'
      <3>1. OnItsWay(m)' => m \in requests'
        BY <1>10 DEF OnItsWay
      <3> QED BY <1>1, <3>1 DEF WaitsFor
    <2>3. \A n \in Given : OnItsWay(n)' => OnItsWay(n)
      BY <1>1, <1>10 DEF OnItsWay
    <2> QED BY <1>1, <2>1, <2>2, <2>3 DEF ControlInv, Late
  <1>13. OkIsEarned'
    <2>1. okfor'[m] = NONE
      BY <1>1 DEF ControlInv, Told
    <2>2. givenup \subseteq Given /\ \A l \in Given : okfor[l] \in Given \cup {NONE}
      BY <1>2 DEF ControlInv, OneToken, Late
    <2> QED BY <1>1, <1>2, <2>1, <2>2 DEF ControlInv, OkIsEarned, Given
  <1>14. Promises'
    <2>1. ASSUME NEW n \in Given, Promised(n)' PROVE Promised(n)
      <3>1. commands'[n] = commands[n]
        BY <1>1
      <3> QED BY <1>1, <2>1, <3>1 DEF Promised
    <2>2. ASSUME NEW n, n = m PROVE ~Promised(n)'
      <3>1. \A p \in Operator : pc'[p] = "told" => p # o /\ current'[p] \in Given
        BY <1>1 DEF ControlInv, Issued
      <3> QED BY <1>1, <1>8, <2>2, <3>1 DEF Promised
    <2> QED BY <1>1, <1>3, <2>1, <2>2 DEF ControlInv, Promises, Ready
  <1> QED BY <1>4, <1>5, <1>6, <1>7, <1>9, <1>11, <1>12, <1>13, <1>14 DEF ControlInv
-----------------------------------------------------------------------------
(* what holds on when a step leaves most of the state alone *)
LEMMA IssuedStays ==
  ASSUME ControlInv, UNCHANGED <<commands, current>>,
         \A o \in Operator : pc'[o] # "prompt" => pc[o] # "prompt"
  PROVE  Issued' /\ Given' = Given
  BY DEF ControlInv, Issued, Given

(* tokens only vanish *)
LEMMA OneTokenStays ==
  ASSUME ControlInv, UNCHANGED <<commands, okfor>>, requests' \subseteq requests, replies' \subseteq replies,
         \A s \in Slot : child'[s].pc = "born" => child[s].pc = "born" /\ child'[s].for = child[s].for
  PROVE  OneToken' /\ \A n : OnItsWay(n)' => OnItsWay(n)
  <1>1. \A n : (Born(n)' => Born(n)) /\ (Answered(n)' => Answered(n)) /\ (Earned(n)' => Earned(n))
    BY DEF Born, Answered, Earned
  <1>2. Given' = Given
    BY DEF Given
  <1>3. \A n \in Given' : /\ n \in requests' => ~Born(n)' /\ ~Answered(n)' /\ ~Earned(n)'
                          /\ Born(n)' => ~Answered(n)' /\ ~Earned(n)'
                          /\ Answered(n)' => ~Earned(n)'
    BY <1>1, <1>2 DEF ControlInv, OneToken
  <1>4. \A s, t \in Slot : child'[s].pc = "born" /\ child'[t].pc = "born" /\ child'[s].for = child'[t].for => s = t
    BY DEF ControlInv, OneToken
  <1>5. OneToken'
    BY <1>2, <1>3, <1>4 DEF ControlInv, OneToken
  <1> QED BY <1>1, <1>5 DEF OnItsWay

LEMMA LateStays ==
  ASSUME ControlInv, UNCHANGED <<commands, current, givenup>>,
         \A n \in Given : OnItsWay(n)' => OnItsWay(n),
         \A o \in Operator : pc[o] = "waiting" => pc'[o] = "waiting"
  PROVE  Late'
  <1>1. Given' = Given
    BY DEF Given
  <1>2. \A n \in Given : (WaitsFor(n) => WaitsFor(n)') /\ (GivenUpBefore(n) => GivenUpBefore(n)')
    BY GivenFacts DEF WaitsFor, GivenUpBefore
  <1> QED BY <1>1, <1>2 DEF ControlInv, Late

LEMMA OkStays ==
  ASSUME ControlInv, UNCHANGED <<commands, okfor>>, carried \subseteq carried', givenup \subseteq givenup'
  PROVE  OkIsEarned'
  BY DEF ControlInv, OkIsEarned

LEMMA ToldStays ==
  ASSUME ControlInv, UNCHANGED <<commands, current, okfor>>,
         \A o \in Operator : pc'[o] \in {"told", "paging"} => pc[o] \in {"told", "paging"}
  PROVE  Told'
  BY DEF ControlInv, Told, Given

LEMMA PromisesStay ==
  ASSUME ControlInv, UNCHANGED commands, Calm' => Calm,
         \A n \in Given : Calm /\ Promised(n)' => Promised(n),
         \A n \in Given : Calm /\ Ready(n) => Ready(n)'
  PROVE  Promises'
  BY DEF ControlInv, Promises, Given

(* what a reply can be, and whose it can be *)
LEMMA DeliveredFacts ==
  ASSUME ControlInv, NEW o \in Operator, NEW r \in replies, Delivered(o, r), pc[o] = "waiting"
  PROVE  /\ r.for \in Given /\ current[o] \in Given /\ r.for <= current[o]
         /\ commands[r.for].by = o /\ commands[current[o]].by = o
         /\ r.for # current[o] => r.for < current[o] /\ GivenUpBefore(r.for) /\ GivenUpBefore(current[o])
         /\ r.for \notin requests /\ ~Born(r.for) /\ ~Earned(r.for)
         /\ \A q \in replies \ {r} : q.for # r.for
         /\ replies' = replies \ {r}
  <1> DEFINE k == r.for
             n == current[o]
  <1>1. k \in Given /\ commands[k].by = o /\ replies' = replies \ {r}
    BY DEF ControlInv, TypeOK, Delivered, Given
  <1>2. n \in Given /\ commands[n].by = o /\ k <= n
    BY <1>1 DEF ControlInv, Issued
  <1>3. Answered(k) /\ OnItsWay(k)
    BY DEF Answered, OnItsWay
  <1>4. k \notin requests /\ ~Born(k) /\ ~Earned(k) /\ \A q \in replies \ {r} : q.for # k
    BY <1>1, <1>3 DEF ControlInv, OneToken
  <1>5. ASSUME k # n PROVE k < n /\ GivenUpBefore(k) /\ GivenUpBefore(n)
    <2>1. GivenUpBefore(k)
      BY <1>1, <1>3, <1>5 DEF ControlInv, Late, WaitsFor
    <2>2. \A g \in Given : g \in Nat /\ k \in Nat /\ n \in Nat
      BY <1>1, <1>2, GivenFacts
    <2>3. GivenUpBefore(n)
      BY <1>1, <1>2, <2>1, <2>2 DEF GivenUpBefore, ControlInv, Late
    <2> QED BY <1>2, <1>5, <2>1, <2>2, <2>3
  <1> QED BY <1>1, <1>2, <1>4, <1>5

(* a reply that is taken leaves the others on their way *)
LEMMA LateAfterReply ==
  ASSUME ControlInv, NEW o \in Operator, NEW r \in replies, Delivered(o, r), pc[o] = "waiting",
         UNCHANGED <<commands, current, givenup, requests, child>>,
         \A p \in Operator \ {o} : pc'[p] = pc[p]
  PROVE  Late'
  <1>1. Given' = Given
    BY DEF Given
  <1>2. SUFFICES ASSUME NEW n \in Given, OnItsWay(n)' PROVE WaitsFor(n)' \/ GivenUpBefore(n)'
    BY <1>1 DEF ControlInv, Late
  <1>3. OnItsWay(n) /\ n # r.for
    <2>1. n \in requests \/ Born(n) \/ \E q \in replies \ {r} : q.for = n
      BY <1>2, DeliveredFacts DEF OnItsWay, Born, Answered
    <2> QED BY <2>1, DeliveredFacts DEF OnItsWay, Answered
  <1>4. CASE GivenUpBefore(n)
    BY <1>4 DEF GivenUpBefore
  <1>5. CASE WaitsFor(n) /\ commands[n].by # o
    BY <1>5, GivenFacts DEF WaitsFor
  <1>6. CASE WaitsFor(n) /\ commands[n].by = o
    BY <1>3, <1>6, DeliveredFacts DEF WaitsFor, GivenUpBefore
  <1> QED BY <1>3, <1>4, <1>5, <1>6 DEF ControlInv, Late

LEMMA ReceiveBadStep ==
  ASSUME ControlInv, NEW o \in Operator, NEW r \in replies, ReceiveBad(o, r) PROVE ControlInv'
  <1>1. /\ pc[o] = "waiting" /\ Delivered(o, r) /\ Goes(o, "prompt")
        /\ UNCHANGED <<commands, current, requests, gld, child, carried, shown, okfor, givenup, upset>>
    BY Frames DEF ReceiveBad
  <1>2. /\ replies' \subseteq replies
        /\ pc'[o] = "prompt" /\ \A p \in Operator \ {o} : pc'[p] = pc[p]
        /\ pc' \in [Operator -> {"prompt", "waiting", "told", "paging"}]
    BY <1>1, Moves, DeliveredFacts
  <1>3. \A p \in Operator : pc'[p] # "prompt" => pc'[p] = pc[p]
    BY <1>2
  <1>4. Given' = Given /\ (Calm' <=> Calm)
    BY <1>1 DEF Given, Calm
  <1>5. TypeOK'
    BY <1>1, <1>2 DEF ControlInv, TypeOK
  <1>6. Issued' /\ Told' /\ OneToken' /\ OkIsEarned'
    BY <1>1, <1>2, <1>3, IssuedStays, ToldStays, OneTokenStays, OkStays
  <1>7. Shape' /\ OneListens' /\ CalmChildren'
    BY <1>1, <1>4 DEF ControlInv, Shape, OneListens, CalmChildren
  <1>8. Kinds'
    BY <1>1, <1>2 DEF ControlInv, Kinds
  <1>9. Late'
    BY <1>1, <1>2, LateAfterReply
  <1>10. Promises'
    <2>1. \A n \in Given : Promised(n)' => Promised(n)
      BY <1>1, <1>2, <1>3 DEF Promised
    <2>2. \A n \in Given : Ready(n) => Ready(n)'
      BY <1>1 DEF Ready
    <2> QED BY <1>1, <1>4, <2>1, <2>2, PromisesStay
  <1>11. Pagers' /\ ShownCalm'
    BY <1>1, <1>3, <1>4 DEF ControlInv, Pagers, ShownCalm, Held
  <1> QED BY <1>5, <1>6, <1>7, <1>8, <1>9, <1>10, <1>11 DEF ControlInv

LEMMA GiveUpStep == ASSUME ControlInv, NEW o \in Operator, GiveUp(o) PROVE ControlInv'
  <1>1. /\ pc[o] = "waiting" /\ Goes(o, "prompt") /\ givenup' = givenup \cup {current[o]}
        /\ UNCHANGED <<commands, current, requests, replies, gld, child, carried, shown, okfor, upset>>
    BY Frames DEF GiveUp
  <1>2. /\ pc'[o] = "prompt" /\ \A p \in Operator \ {o} : pc'[p] = pc[p]
        /\ pc' \in [Operator -> {"prompt", "waiting", "told", "paging"}]
    BY <1>1, Moves
  <1>3. \A p \in Operator : pc'[p] # "prompt" => pc'[p] = pc[p]
    BY <1>2
  <1>4. Given' = Given /\ ~Calm' /\ current[o] \in Given /\ Given \subseteq Command
    BY <1>1, GivenFacts DEF Given, Calm, ControlInv, Issued
  <1>5. TypeOK'
    BY <1>1, <1>2, <1>4 DEF ControlInv, TypeOK
  <1>6. Issued' /\ Told' /\ OneToken' /\ OkIsEarned'
    BY <1>1, <1>2, <1>3, IssuedStays, ToldStays, OneTokenStays, OkStays
  <1>7. Shape' /\ OneListens' /\ Kinds'
    BY <1>1, <1>4 DEF ControlInv, Shape, OneListens, Kinds
  <1>8. CalmChildren' /\ Promises' /\ Pagers' /\ ShownCalm'
    BY <1>4 DEF CalmChildren, Promises, Pagers, ShownCalm
  <1>9. Late'
    <2>1. ASSUME NEW n \in Given, OnItsWay(n) PROVE WaitsFor(n)' \/ GivenUpBefore(n)'
      <3>1. CASE GivenUpBefore(n)
        BY <1>1, <3>1 DEF GivenUpBefore
      <3>2. CASE WaitsFor(n) /\ commands[n].by # o
        BY <1>1, <1>2, <3>2, GivenFacts DEF WaitsFor
      <3>3. CASE WaitsFor(n) /\ commands[n].by = o
        BY <1>1, <3>3, GivenFacts DEF WaitsFor, GivenUpBefore
      <3> QED BY <2>1, <3>1, <3>2, <3>3 DEF ControlInv, Late
    <2>2. \A n \in Given : OnItsWay(n)' => OnItsWay(n)
      BY <1>1 DEF OnItsWay, Born, Answered
    <2> QED BY <1>1, <1>4, <2>1, <2>2 DEF ControlInv, Late
  <1> QED BY <1>5, <1>6, <1>7, <1>8, <1>9 DEF ControlInv

LEMMA ReceiveOkStep ==
  ASSUME ControlInv, NEW o \in Operator, NEW r \in replies, ReceiveOk(o, r) PROVE ControlInv'
  <1> DEFINE n == current[o]
             k == r.for
             w == IF commands[n].kind \in Reports THEN "told" ELSE "prompt"
  <1>1. /\ pc[o] = "waiting" /\ Delivered(o, r) /\ r.type = commands[n].kind /\ Goes(o, w)
        /\ okfor' = [okfor EXCEPT ![n] = k]
        /\ UNCHANGED <<commands, current, requests, gld, child, carried, shown, givenup, upset>>
    BY Frames DEF ReceiveOk
  <1>2. /\ k \in Given /\ n \in Given /\ k <= n /\ commands[k].by = o /\ commands[n].by = o
        /\ k # n => k < n /\ GivenUpBefore(k) /\ GivenUpBefore(n)
        /\ k \notin requests /\ ~Born(k) /\ ~Earned(k)
        /\ \A q \in replies \ {r} : q.for # k
        /\ replies' = replies \ {r}
    BY <1>1, DeliveredFacts
  <1>3. /\ pc'[o] = w /\ \A p \in Operator \ {o} : pc'[p] = pc[p]
        /\ pc' \in [Operator -> {"prompt", "waiting", "told", "paging"}]
    BY <1>1, Moves
  <1>4. Given' = Given /\ (Calm' <=> Calm) /\ n \in Command /\ k \in Command /\ k # NONE
    BY <1>1, <1>2, GivenFacts DEF Given, Calm
  <1>5. okfor'[n] = k /\ (\A l \in Command \ {n} : okfor'[l] = okfor[l]) /\ okfor' \in [Command -> Command \cup {NONE}]
    BY <1>1, <1>4 DEF ControlInv, TypeOK
  <1>6. k \in carried /\ commands[k] = commands[n]
    <2>1. r.type \in Kind /\ r.type # Error
      BY <1>1, <1>2, GivenFacts, ControlNumbers
    <2>2. k \in carried /\ commands[k].kind = commands[n].kind
      BY <1>1, <2>1 DEF ControlInv, Kinds
    <2>3. \A a, b \in [by : Operator, kind : Kind] : a.by = b.by /\ a.kind = b.kind => a = b
      OBVIOUS
    <2> QED BY <1>2, <2>2, <2>3, GivenFacts
  <1>7. \A p \in Operator \ {o} : current[p] # n
    BY <1>2, <1>4, ControlNumbers DEF ControlInv, Issued
  <1> HIDE DEF n, k, w
  <1>8. TypeOK'
    BY <1>1, <1>2, <1>3, <1>5 DEF ControlInv, TypeOK
  <1>9. Issued'
    BY <1>1, <1>3, IssuedStays
  <1>10. Told'
    <2>1. ASSUME NEW p \in Operator, pc'[p] \in {"told", "paging"}
          PROVE  okfor'[current[p]] # NONE /\ commands[current[p]].kind \in Reports
      <3>1. CASE p = o
        BY <1>3, <1>4, <1>5, <2>1, <3>1 DEF n, w
      <3>2. CASE p # o
        <4>1. current[p] # NONE /\ current[p] \in Given /\ pc[p] \in {"told", "paging"}
          BY <1>3, <2>1, <3>2 DEF ControlInv, Issued
        <4> QED BY <1>5, <1>7, <3>2, <4>1, GivenFacts DEF ControlInv, Told
      <3> QED BY <3>1, <3>2
    <2>2. \A l \in Command : okfor'[l] # NONE => l \in Given
      BY <1>2, <1>5 DEF ControlInv, Told
    <2> QED BY <1>1, <1>4, <2>1, <2>2 DEF Told
  <1>11. Shape' /\ OneListens' /\ CalmChildren'
    BY <1>1, <1>4 DEF ControlInv, Shape, OneListens, CalmChildren
  <1>12. Kinds'
    BY <1>1, <1>2 DEF ControlInv, Kinds
  <1>13. OneToken'
    <2>1. \A l : /\ Born(l)' <=> Born(l)
                 /\ Answered(l)' => Answered(l) /\ l # k
                 /\ Earned(l)' => Earned(l) \/ l = k
      BY <1>1, <1>2, <1>5 DEF Born, Answered, Earned
    <2>2. \A l \in Given' : /\ l \in requests' => ~Born(l)' /\ ~Answered(l)' /\ ~Earned(l)'
                            /\ Born(l)' => ~Answered(l)' /\ ~Earned(l)'
                            /\ Answered(l)' => ~Earned(l)'
      BY <1>1, <1>2, <1>4, <2>1 DEF ControlInv, OneToken
    <2>3. \A i, j \in Command : okfor'[i] = okfor'[j] /\ okfor'[i] # NONE => i = j
      <3>1. \A i \in Command : okfor[i] # k
        BY <1>2 DEF Earned
      <3> QED BY <1>5, <3>1 DEF ControlInv, OneToken
    <2>4. \A l \in Command : okfor'[l] \in Given' \cup {NONE}
      BY <1>2, <1>4, <1>5 DEF ControlInv, OneToken
    <2>5. \A q, x \in replies' : q.for = x.for => q = x
      BY <1>2 DEF ControlInv, OneToken
    <2> QED BY <1>1, <2>2, <2>3, <2>4, <2>5 DEF ControlInv, OneToken
  <1>14. Late'
    BY <1>1, <1>3, LateAfterReply
  <1>15. OkIsEarned'
    <2>1. ASSUME NEW l \in Given, okfor'[l] # NONE
          PROVE  /\ okfor'[l] \in carried /\ commands[okfor'[l]] = commands[l]
                 /\ \A j \in Given : okfor'[j] = okfor'[l] => j = l
                 /\ okfor'[l] # l => okfor'[l] < l /\ \E g \in givenup : g <= okfor'[l] /\ commands[g].by = commands[l].by
      <3>1. \A j \in Given : okfor'[j] = okfor'[l] => j = l
        BY <1>4, <2>1, <1>13, GivenFacts DEF OneToken
      <3>2. CASE l = n
        BY <1>2, <1>5, <1>6, <1>4, <3>1, <3>2 DEF GivenUpBefore
      <3>3. CASE l # n
        BY <1>5, <2>1, <3>1, <3>3, GivenFacts DEF ControlInv, OkIsEarned, Given
      <3> QED BY <3>2, <3>3
    <2> QED BY <1>1, <1>4, <2>1 DEF OkIsEarned, Given
  <1>16. Promises'
    <2>1. ASSUME NEW m \in Given, Calm, Promised(m)' PROVE Promised(m)
      <3>1. k = n
        BY <1>2, <2>1 DEF Calm, GivenUpBefore
      <3>2. CASE \E q \in replies' : q.for = m /\ q.type # Error
        BY <1>1, <1>2, <2>1, <3>2 DEF Promised
      <3>3. CASE \E p \in Operator \ {o} : pc'[p] = "told" /\ current[p] = m
        BY <1>1, <1>3, <2>1, <3>3 DEF Promised
      <3>4. CASE pc'[o] = "told" /\ current[o] = m
        <4>1. r.type \in Kind /\ r.for = m
          BY <1>1, <1>2, <3>1, <3>4, GivenFacts DEF n, k
        <4> QED BY <1>1, <2>1, <4>1, ControlNumbers DEF Promised
      <3> QED BY <1>1, <2>1, <3>2, <3>3, <3>4 DEF Promised
    <2>2. \A m \in Given : Ready(m) => Ready(m)'
      BY <1>1 DEF Ready
    <2> QED BY <1>1, <1>4, <2>1, <2>2, PromisesStay
  <1>17. Pagers' /\ ShownCalm'
    <2>1. \A p \in Operator : pc'[p] = "paging" => pc[p] = "paging"
      BY <1>3 DEF w
    <2> QED BY <1>1, <1>4, <2>1 DEF ControlInv, Pagers, ShownCalm, Held
  <1> QED BY <1>8, <1>9, <1>10, <1>11, <1>12, <1>13, <1>14, <1>15, <1>16, <1>17 DEF ControlInv

(* the pager ends, PagerEnds() and Quit(): only its own report is concerned *)
LEMMA ShowStep ==
  ASSUME ControlInv, NEW o \in Operator, pc[o] = "paging", Goes(o, "prompt"),
         NEW h \in {"cut", "left"}, NEW n, n = current[o],
         \/ Sees(n, h)
         \/ UNCHANGED shown,
         Calm => shown'[n] \in {"none", "read", "left"},
         UNCHANGED <<commands, current, talk, server, okfor, ghosts>>
  PROVE  ControlInv'
  <1>1. UNCHANGED <<commands, current, requests, replies, gld, child, carried, okfor, givenup, upset>>
    BY Frames
  <1>2. /\ pc'[o] = "prompt" /\ \A p \in Operator \ {o} : pc'[p] = pc[p]
        /\ pc' \in [Operator -> {"prompt", "waiting", "told", "paging"}]
    BY Moves
  <1>3. \A p \in Operator : pc'[p] # "prompt" => p # o /\ pc'[p] = pc[p]
    BY <1>2
  <1>4. Given' = Given /\ (Calm' <=> Calm) /\ n \in Given /\ n \in Command
    BY <1>1, GivenFacts DEF Given, Calm, ControlInv, Issued
  <1>5. /\ shown' \in [Command -> {"none", "refused", "cut", "left", "read", "other"}]
        /\ \A l \in Command \ {n} : shown'[l] = shown[l]
    BY <1>4 DEF Sees, ControlInv, TypeOK
  <1>6. TypeOK'
    BY <1>1, <1>2, <1>5 DEF ControlInv, TypeOK
  <1>7. Issued' /\ Told' /\ OneToken' /\ OkIsEarned' /\ \A l : OnItsWay(l)' => OnItsWay(l)
    BY <1>1, <1>3, IssuedStays, ToldStays, OneTokenStays, OkStays
  <1>8. Shape' /\ OneListens' /\ Kinds' /\ CalmChildren'
    BY <1>1, <1>4 DEF ControlInv, Shape, OneListens, Kinds, CalmChildren
  <1>9. Late'
    <2>1. \A p \in Operator : pc[p] = "waiting" => pc'[p] = "waiting"
      BY <1>2
    <2> QED BY <1>1, <1>7, <2>1, LateStays
  <1>10. Promises'
    <2>1. \A m \in Given : Promised(m)' => Promised(m)
      BY <1>1, <1>3 DEF Promised
    <2>2. \A m \in Given : Ready(m) => Ready(m)'
      BY <1>1 DEF Ready
    <2> QED BY <1>1, <1>4, <2>1, <2>2, PromisesStay
  <1>11. Pagers'
    <2>1. ASSUME Calm, NEW p \in Operator, pc'[p] = "paging" PROVE Held(current[p])' \/ shown'[current[p]] # "none"
      <3>1. p # o /\ pc[p] = "paging" /\ current[p] \in Given /\ current[p] # n
        BY <1>3, <1>4, <2>1, GivenFacts DEF ControlInv, Issued
      <3>2. Held(current[p]) \/ shown[current[p]] # "none"
        BY <2>1, <3>1 DEF ControlInv, Pagers
      <3>3. Held(current[p]) => Held(current[p])'
        BY <1>1 DEF Held
      <3> QED BY <1>5, <3>1, <3>2, <3>3, GivenFacts
    <2> QED BY <1>1, <1>4, <2>1 DEF Pagers
  <1>12. ShownCalm'
    BY <1>1, <1>4, <1>5 DEF ControlInv, ShownCalm
  <1> QED BY <1>6, <1>7, <1>8, <1>9, <1>10, <1>11, <1>12 DEF ControlInv

LEMMA PagerEndsStep == ASSUME ControlInv, NEW o \in Operator, PagerEnds(o) PROVE ControlInv'
  <1>1. /\ pc[o] = "paging" /\ Goes(o, "prompt") /\ ~Held(current[o])
        /\ IF shown[current[o]] = "none" THEN Sees(current[o], "cut") ELSE UNCHANGED shown
        /\ UNCHANGED <<commands, current, talk, server, okfor, ghosts>>
    BY DEF PagerEnds
  <1>2. current[o] \in Command
    BY <1>1, GivenFacts DEF ControlInv, Issued
  <1>3. Calm => shown[current[o]] # "none" /\ shown'[current[o]] \in {"none", "read", "left"}
    BY <1>1, <1>2 DEF ControlInv, Pagers, ShownCalm
  <1> QED BY <1>1, <1>3, ShowStep

LEMMA QuitStep == ASSUME ControlInv, NEW o \in Operator, Quit(o) PROVE ControlInv'
  <1>1. /\ pc[o] = "paging" /\ Goes(o, "prompt") /\ Sees(current[o], "left")
        /\ UNCHANGED <<commands, current, talk, server, okfor, ghosts>>
    BY DEF Quit
  <1>2. current[o] \in Command
    BY <1>1, GivenFacts DEF ControlInv, Issued
  <1>3. shown'[current[o]] = "left"
    BY <1>1, <1>2 DEF Sees, ControlInv, TypeOK
  <1> QED BY <1>1, <1>3, ShowStep

(* one who was told that the report is ready finds its child listening, *)
(* and it alone, as long as nothing has gone wrong                      *)
LEMMA FindsItsChild ==
  ASSUME ControlInv, Calm, NEW o \in Operator, pc[o] = "told", NEW n, n = current[o]
  PROVE  /\ okfor[n] = n /\ Earned(n) /\ ~Answered(n)
         /\ \E s \in Slot : /\ Listening = {s} /\ child[s].pc = "accepting"
                            /\ child[s].for = n /\ child[s].queue = <<>>
  <1>1. n \in Given /\ n \in Command /\ okfor[n] # NONE /\ commands[n].kind \in Reports
    BY GivenFacts DEF ControlInv, Issued, Told
  <1>2. okfor[n] = n
    BY <1>1 DEF ControlInv, OkIsEarned, Calm, Given
  <1>3. Earned(n) /\ ~Answered(n)
    BY <1>1, <1>2 DEF Earned, ControlInv, OneToken
  <1>4. Ready(n)
    BY <1>1 DEF ControlInv, Promises, Promised
  <1>5. PICK s \in Slot : child[s].pc = "accepting" /\ child[s].for = n /\ child[s].queue = <<>>
    BY <1>4 DEF Ready
  <1>6. child[s].listening
    BY <1>5 DEF ControlInv, CalmChildren
  <1>7. Listening = {s}
    BY <1>6 DEF Listening, ControlInv, OneListens
  <1> QED BY <1>2, <1>3, <1>5, <1>7

LEMMA ConnectStep == ASSUME ControlInv, NEW o \in Operator, Connect(o) PROVE ControlInv'
  <1> DEFINE n == current[o]
  <1>1. pc[o] = "told" /\ UNCHANGED <<commands, current, requests, replies, gld, carried, okfor, givenup, upset>>
    BY Frames DEF Connect
  <1>2. n \in Given /\ n \in Command /\ Given' = Given /\ (Calm' <=> Calm)
    BY <1>1, GivenFacts DEF Given, Calm, ControlInv, Issued
  <1>3. CASE Listening = {}
    <2>1. Goes(o, "prompt") /\ Sees(n, "refused") /\ child' = child
      BY <1>3 DEF Connect
    <2>2. /\ pc'[o] = "prompt" /\ \A p \in Operator \ {o} : pc'[p] = pc[p]
          /\ pc' \in [Operator -> {"prompt", "waiting", "told", "paging"}]
      BY <2>1, Moves
    <2>3. ~Calm'
      BY <1>1, <1>2, <1>3, FindsItsChild
    <2>4. TypeOK'
      <3>1. shown' \in [Command -> {"none", "refused", "cut", "left", "read", "other"}]
        BY <2>1 DEF Sees, ControlInv, TypeOK
      <3> QED BY <1>1, <2>1, <2>2, <3>1 DEF ControlInv, TypeOK
    <2>5. \A p \in Operator : pc'[p] # "prompt" => pc'[p] = pc[p]
      BY <2>2
    <2>6. Issued' /\ Told' /\ OneToken' /\ OkIsEarned' /\ \A l : OnItsWay(l)' => OnItsWay(l)
      BY <1>1, <2>1, <2>5, IssuedStays, ToldStays, OneTokenStays, OkStays
    <2>7. Shape' /\ OneListens' /\ Kinds'
      BY <1>1, <1>2, <2>1 DEF ControlInv, Shape, OneListens, Kinds
    <2>8. Late'
      <3>1. \A p \in Operator : pc[p] = "waiting" => pc'[p] = "waiting"
        BY <1>1, <2>2
      <3> QED BY <1>1, <2>6, <3>1, LateStays
    <2>9. CalmChildren' /\ Promises' /\ Pagers' /\ ShownCalm'
      BY <2>3 DEF CalmChildren, Promises, Pagers, ShownCalm
    <2> QED BY <2>4, <2>6, <2>7, <2>8, <2>9 DEF ControlInv
  <1>4. CASE Listening # {}
    <2>1. PICK s \in Listening : child' = [child EXCEPT ![s].queue = Append(@, n)]
      BY <1>4 DEF Connect
    <2>2. Goes(o, "paging") /\ shown' = shown
      BY <1>4 DEF Connect
    <2>3. /\ pc'[o] = "paging" /\ \A p \in Operator \ {o} : pc'[p] = pc[p]
          /\ pc' \in [Operator -> {"prompt", "waiting", "told", "paging"}]
      BY <2>2, Moves
    <2>4. s \in Slot /\ child[s].listening /\ child[s].pc = "accepting" /\ child[s].conn = NONE
      BY <2>1 DEF Listening, ControlInv, Shape
    <2>5. /\ \A t \in Slot : child[t] \in Child
          /\ child[s].queue \in Seq(Command)
      BY <2>4 DEF ControlInv, TypeOK, Child
    <2>6. /\ child'[s] = [child[s] EXCEPT !.queue = Append(child[s].queue, n)]
          /\ \A t \in Slot \ {s} : child'[t] = child[t]
          /\ child' = [child EXCEPT ![s] = [child[s] EXCEPT !.queue = Append(child[s].queue, n)]]
      BY <2>1, <2>4 DEF ControlInv, TypeOK
    <2>7. Append(child[s].queue, n) \in Seq(Command)
      BY <1>2, <2>5, AppendProperties
    <2>8. child'[s] \in Child
      <3> DEFINE q == Append(child[s].queue, n)
      <3>1. child[s] \in Child /\ q \in Seq(Command) /\ child'[s] = [child[s] EXCEPT !.queue = q]
        BY <2>4, <2>5, <2>6, <2>7
      <3> HIDE DEF q
      <3>2. [child[s] EXCEPT !.queue = q] \in Child
        BY <3>1, QueueSet
      <3> QED BY <3>1, <3>2
    <2>9. child' \in [Slot -> Child]
      BY <2>6, <2>8 DEF ControlInv, TypeOK
    <2>10. /\ child'[s].pc = "accepting" /\ child'[s].for = child[s].for /\ child'[s].listening
           /\ child'[s].conn = NONE /\ child'[s].queue = Append(child[s].queue, n)
      BY <2>4, <2>5, <2>6 DEF Child
    <2>11. \A t \in Slot : /\ child'[t].pc = child[t].pc /\ child'[t].for = child[t].for
                           /\ child'[t].listening = child[t].listening /\ child'[t].conn = child[t].conn
      BY <2>4, <2>6, <2>10
    <2> HIDE DEF n
    <2>12. TypeOK'
      BY <1>1, <2>2, <2>3, <2>9 DEF ControlInv, TypeOK
    <2>13. Issued'
      <3>1. \A p \in Operator : pc'[p] # "prompt" => pc[p] # "prompt"
        BY <1>1, <2>3
      <3> QED BY <1>1, <3>1, IssuedStays
    <2>14. Told'
      <3>1. \A p \in Operator : pc'[p] \in {"told", "paging"} => pc[p] \in {"told", "paging"}
        BY <1>1, <2>3
      <3> QED BY <1>1, <3>1, ToldStays
    <2>15. OneToken' /\ OkIsEarned' /\ \A l : OnItsWay(l)' => OnItsWay(l)
      BY <1>1, <2>11, OneTokenStays, OkStays
    <2>16. Late'
      <3>1. \A p \in Operator : pc[p] = "waiting" => pc'[p] = "waiting"
        BY <1>1, <2>3
      <3> QED BY <1>1, <2>15, <3>1, LateStays
    <2>17. Shape'
      <3>1. \A t \in Slot : child'[t].pc \in {"none", "born", "writing"} => child'[t] = child[t]
        BY <2>6, <2>10
      <3> QED BY <1>1, <1>2, <2>11, <3>1 DEF ControlInv, Shape
    <2>18. OneListens' /\ Kinds' /\ ShownCalm'
      BY <1>1, <1>2, <2>2, <2>11 DEF ControlInv, OneListens, Kinds, ShownCalm
    <2>19. ASSUME Calm
           PROVE  /\ child[s].for = n /\ child[s].queue = <<>> /\ child'[s].queue = <<n>>
                  /\ ~Answered(n)
      <3>1. child[s].for = n /\ child[s].queue = <<>> /\ ~Answered(n)
        BY <1>1, <2>1, <2>19, FindsItsChild DEF n
      <3> QED BY <1>2, <2>10, <3>1
    <2>20. CalmChildren'
      BY <1>2, <2>6, <2>10, <2>19 DEF ControlInv, CalmChildren
    <2>21. Promises'
      <3>1. ASSUME NEW m \in Given, Promised(m)' PROVE Promised(m) /\ (Calm => m # n)
        <4>1. Promised(m)
          BY <1>1, <2>3, <3>1 DEF Promised
        <4>2. ASSUME Calm, m = n PROVE FALSE
          <5>1. PICK p \in Operator : pc'[p] = "told" /\ current[p] = n
            BY <1>1, <2>19, <3>1, <4>2 DEF Promised, Answered
          <5>2. p # o /\ commands[n].by = p /\ commands[n].by = o
            BY <1>2, <2>3, <5>1, GivenFacts DEF ControlInv, Issued, n
          <5> QED BY <5>2
        <4> QED BY <4>1, <4>2
      <3>2. ASSUME NEW m \in Given, Calm, Promised(m)' PROVE Ready(m)'
        <4>1. PICK t \in Slot : child[t].pc = "accepting" /\ child[t].for = m /\ child[t].queue = <<>>
          BY <3>1, <3>2 DEF ControlInv, Promises, Ready
        <4>2. t # s
          BY <2>19, <3>1, <3>2, <4>1
        <4> QED BY <2>6, <4>1, <4>2 DEF Ready
      <3> QED BY <1>2, <3>2 DEF Promises
    <2>22. Pagers'
      <3>1. ASSUME NEW x, Held(x) PROVE Held(x)'
        <4>1. PICK t \in Slot : child[t].conn = x \/ \E i \in DOMAIN child[t].queue : child[t].queue[i] = x
          BY <3>1 DEF Held
        <4>2. CASE t # s
          BY <2>6, <4>1, <4>2 DEF Held
        <4>3. CASE t = s /\ child[t].conn = x
          BY <2>4, <2>11, <4>3 DEF Held
        <4>4. CASE t = s /\ \E i \in DOMAIN child[t].queue : child[t].queue[i] = x
          <5>1. PICK i \in DOMAIN child[s].queue : child[s].queue[i] = x
            BY <4>4
          <5>2. i \in DOMAIN child'[s].queue /\ child'[s].queue[i] = x
            BY <1>2, <2>5, <2>10, <5>1, AppendProperties
          <5> QED BY <2>4, <5>2 DEF Held
        <4> QED BY <4>1, <4>2, <4>3, <4>4
      <3>2. Held(n)'
        <4>1. Len(child'[s].queue) \in DOMAIN child'[s].queue /\ child'[s].queue[Len(child'[s].queue)] = n
          BY <1>2, <2>5, <2>10, AppendProperties
        <4>2. n' = n
          BY <1>1 DEF n
        <4> QED BY <2>4, <4>1, <4>2 DEF Held
      <3>3. \A p \in Operator : pc'[p] = "paging" => p = o \/ pc[p] = "paging"
        BY <2>3
      <3> QED BY <1>1, <1>2, <2>2, <3>1, <3>2, <3>3 DEF ControlInv, Pagers, n
    <2> QED BY <2>12, <2>13, <2>14, <2>15, <2>16, <2>17, <2>18, <2>20, <2>21, <2>22 DEF ControlInv
  <1> QED BY <1>3, <1>4
-----------------------------------------------------------------------------
(* gld takes a request *)
LEMMA TurnFacts ==
  ASSUME ControlInv, NEW n, Turn(n)
  PROVE  /\ n \in requests /\ n \in Given /\ n \in Command /\ requests' = requests \ {n}
         /\ gld' \in {"loop", "noted", "reaping", "again"}
         /\ ~Born(n) /\ ~Answered(n) /\ ~Earned(n)
  <1>1. n \in requests /\ requests' = requests \ {n} /\ gld' \in {"loop", "noted", "reaping", "again"}
    BY DEF Turn
  <1>2. n \in Given /\ n \in Command
    BY <1>1, GivenFacts DEF ControlInv, TypeOK, Given
  <1> QED BY <1>1, <1>2 DEF ControlInv, OneToken

(* gld answers at once: Serve() and Refuse() *)
LEMMA AnswerStep ==
  ASSUME ControlInv, NEW n, Turn(n), NEW type \in Kind \cup {Error}, Reply(n, type),
         carried \subseteq carried', carried' \subseteq Command,
         type # Error => n \in carried' /\ type = commands[n].kind /\ type \notin Reports,
         UNCHANGED <<commands, pc, current, child, shown, okfor, ghosts>>
  PROVE  ControlInv'
  <1> DEFINE a == [for |-> n, type |-> type]
  <1>1. /\ UNCHANGED <<commands, pc, current, child, shown, okfor, givenup, upset>>
        /\ replies' = replies \cup {a} /\ a.for = n /\ a.type = type
        /\ a \in [for : {n}, type : Kind \cup {Error}]
    BY Frames DEF Reply
  <1>2. /\ n \in requests /\ n \in Given /\ n \in Command /\ requests' = requests \ {n}
        /\ gld' \in {"loop", "noted", "reaping", "again"}
        /\ ~Born(n) /\ ~Answered(n) /\ ~Earned(n)
    BY TurnFacts
  <1>3. Given' = Given /\ (Calm' <=> Calm)
    BY <1>1 DEF Given, Calm
  <1> HIDE DEF a
  <1>4. TypeOK'
    <2>1. replies \subseteq [for : Given, type : Kind \cup {Error}] /\ requests \subseteq Given
      BY DEF ControlInv, TypeOK, Given
    <2>2. replies' \subseteq [for : Given, type : Kind \cup {Error}] /\ requests' \subseteq Given
      BY <1>1, <1>2, <2>1
    <2> QED BY <1>1, <1>2, <2>2 DEF ControlInv, TypeOK, Given
  <1>5. Issued' /\ Told' /\ OkIsEarned'
    BY <1>1, IssuedStays, ToldStays, OkStays
  <1>6. Shape' /\ OneListens' /\ CalmChildren' /\ ShownCalm'
    BY <1>1, <1>3 DEF ControlInv, Shape, OneListens, CalmChildren, ShownCalm
  <1>7. Kinds'
    BY <1>1 DEF ControlInv, Kinds
  <1>8. \A m : /\ Born(m)' <=> Born(m)
               /\ Answered(m)' <=> Answered(m) \/ m = n
               /\ Earned(m)' <=> Earned(m)
    BY <1>1 DEF Born, Answered, Earned
  <1>9. OneToken'
    <2>1. \A m \in Given' : /\ m \in requests' => ~Born(m)' /\ ~Answered(m)' /\ ~Earned(m)'
                            /\ Born(m)' => ~Answered(m)' /\ ~Earned(m)'
                            /\ Answered(m)' => ~Earned(m)'
      BY <1>2, <1>3, <1>8 DEF ControlInv, OneToken
    <2>2. \A q, r \in replies' : q.for = r.for => q = r
      BY <1>1, <1>2 DEF ControlInv, OneToken, Answered
    <2> QED BY <1>1, <1>3, <2>1, <2>2 DEF ControlInv, OneToken
  <1>10. Late'
    <2>1. \A m \in Given : OnItsWay(m)' => OnItsWay(m)
      BY <1>2, <1>8 DEF OnItsWay
    <2> QED BY <1>1, <2>1, LateStays
  <1>11. Promises'
    <2>1. \A m \in Given : Promised(m)' => Promised(m)
      BY <1>1 DEF Promised
    <2>2. \A m \in Given : Ready(m) => Ready(m)'
      BY <1>1 DEF Ready
    <2> QED BY <1>1, <1>3, <2>1, <2>2, PromisesStay
  <1>12. Pagers'
    BY <1>1, <1>3 DEF ControlInv, Pagers, Held
  <1> QED BY <1>4, <1>5, <1>6, <1>7, <1>9, <1>10, <1>11, <1>12 DEF ControlInv

LEMMA ServeStep == ASSUME ControlInv, NEW n, Serve(n) PROVE ControlInv'
  <1>1. /\ Turn(n) /\ commands[n].kind \in Immediate /\ carried' = carried \cup {n}
        /\ Reply(n, commands[n].kind)
        /\ UNCHANGED <<commands, pc, current, child, shown, okfor, ghosts>>
    BY DEF Serve
  <1>2. n \in Command /\ carried \subseteq Command
    BY <1>1, TurnFacts DEF ControlInv, TypeOK
  <1>3. commands[n].kind \in Kind /\ commands[n].kind \notin Reports
    BY <1>1, ControlNumbers
  <1> QED BY <1>1, <1>2, <1>3, AnswerStep

LEMMA RefuseStep == ASSUME ControlInv, NEW n, Refuse(n) PROVE ControlInv'
  <1>1. Turn(n) /\ Reply(n, Error) /\ UNCHANGED <<commands, pc, current, child, carried, shown, okfor, ghosts>>
    BY DEF Refuse
  <1> QED BY <1>1, AnswerStep DEF ControlInv, TypeOK

LEMMA StartReportStep == ASSUME ControlInv, NEW n, StartReport(n) PROVE ControlInv'
  <1> DEFINE c == [NoChild EXCEPT !.pc = "born", !.for = n]
  <1>1. /\ Turn(n) /\ commands[n].kind \in Reports /\ Listening = {}
        /\ UNCHANGED <<commands, pc, current, replies, carried, shown, okfor, givenup, upset>>
    BY Frames DEF StartReport, Fork
  <1>2. PICK s \in Children("none") : child' = [child EXCEPT ![s] = c]
    BY DEF StartReport, Fork
  <1>3. s \in Slot /\ child[s].pc = "none" /\ child[s].queue = <<>> /\ child[s].conn = NONE
    BY <1>2 DEF Children, ControlInv, Shape
  <1>4. /\ n \in requests /\ n \in Given /\ n \in Command /\ requests' = requests \ {n}
        /\ gld' \in {"loop", "noted", "reaping", "again"}
        /\ ~Born(n) /\ ~Answered(n) /\ ~Earned(n)
    BY <1>1, TurnFacts
  <1>5. /\ c.pc = "born" /\ c.for = n /\ c.listening = FALSE /\ c.queue = <<>> /\ c.conn = NONE /\ c \in Child
    <2>1. NoChild \in Child
      BY NoChildFacts
    <2>2. c.pc = "born" /\ c.for = n /\ c.listening = FALSE /\ c.queue = <<>> /\ c.conn = NONE
      BY <2>1, NoChildFacts DEF Child
    <2>3. c \in Child
      <3> DEFINE S == Seq(Command)
      <3>1. NoChild \in [pc : {"none", "born", "accepting", "writing"}, for : Command \cup {NONE},
                         listening : BOOLEAN, queue : S, conn : Command \cup {NONE}]
        BY <2>1 DEF Child
      <3> HIDE DEF S
      <3>2. c \in [pc : {"none", "born", "accepting", "writing"}, for : Command \cup {NONE},
                   listening : BOOLEAN, queue : S, conn : Command \cup {NONE}]
        BY <1>4, <3>1
      <3> QED BY <3>2 DEF S, Child
    <2> QED BY <2>2, <2>3
  <1> HIDE DEF c
  <1>6. /\ child'[s] = c /\ \A t \in Slot \ {s} : child'[t] = child[t]
        /\ child' \in [Slot -> Child]
    BY <1>2, <1>3, <1>5 DEF ControlInv, TypeOK
  <1>7. Given' = Given /\ (Calm' <=> Calm)
    BY <1>1 DEF Given, Calm
  <1>8. TypeOK'
    BY <1>1, <1>4, <1>6 DEF ControlInv, TypeOK
  <1>9. Issued' /\ Told' /\ OkIsEarned'
    BY <1>1, IssuedStays, ToldStays, OkStays
  <1>10. Shape'
    BY <1>1, <1>4, <1>5, <1>6, <1>7 DEF ControlInv, Shape
  <1>11. OneListens' /\ CalmChildren'
    BY <1>1, <1>5, <1>6, <1>7 DEF ControlInv, OneListens, CalmChildren
  <1>12. Kinds' /\ ShownCalm'
    BY <1>1, <1>7 DEF ControlInv, Kinds, ShownCalm
  <1>13. \A m : /\ Born(m)' <=> Born(m) \/ m = n
                /\ Answered(m)' <=> Answered(m)
                /\ Earned(m)' <=> Earned(m)
    <2>1. \A m : Born(m)' <=> Born(m) \/ m = n
      BY <1>3, <1>5, <1>6 DEF Born
    <2> QED BY <1>1, <2>1 DEF Answered, Earned
  <1>14. OneToken'
    <2>1. \A m \in Given' : /\ m \in requests' => ~Born(m)' /\ ~Answered(m)' /\ ~Earned(m)'
                            /\ Born(m)' => ~Answered(m)' /\ ~Earned(m)'
                            /\ Answered(m)' => ~Earned(m)'
      BY <1>4, <1>7, <1>13 DEF ControlInv, OneToken
    <2>2. \A t, u \in Slot : child'[t].pc = "born" /\ child'[u].pc = "born" /\ child'[t].for = child'[u].for => t = u
      BY <1>4, <1>5, <1>6 DEF ControlInv, OneToken, Born
    <2> QED BY <1>1, <1>7, <2>1, <2>2 DEF ControlInv, OneToken
  <1>15. Late'
    <2>1. \A m \in Given : OnItsWay(m)' => OnItsWay(m)
      BY <1>4, <1>13 DEF OnItsWay
    <2> QED BY <1>1, <2>1, LateStays
  <1>16. Promises'
    <2>1. \A m \in Given : Promised(m)' => Promised(m)
      BY <1>1 DEF Promised
    <2>2. \A m \in Given : Ready(m) => Ready(m)'
      BY <1>3, <1>6 DEF Ready
    <2> QED BY <1>1, <1>7, <2>1, <2>2, PromisesStay
  <1>17. Pagers'
    <2>1. ASSUME NEW p \in Operator, pc[p] = "paging", Held(current[p]) PROVE Held(current[p])'
      <3>1. current[p] # NONE
        BY <2>1 DEF ControlInv, Issued
      <3>2. PICK t \in Slot : \/ child[t].conn = current[p]
                              \/ \E i \in DOMAIN child[t].queue : child[t].queue[i] = current[p]
        BY <2>1 DEF Held
      <3>3. t # s
        BY <1>3, <3>1, <3>2
      <3> QED BY <1>1, <1>6, <3>2, <3>3 DEF Held
    <2> QED BY <1>1, <1>7, <2>1 DEF ControlInv, Pagers
  <1> QED BY <1>8, <1>9, <1>10, <1>11, <1>12, <1>14, <1>15, <1>16, <1>17 DEF ControlInv

(* what the children do not see: gld comes back to its loop, or nothing happens *)
LEMMA ReapEndsStep == ASSUME ControlInv, ReapEnds \/ UNCHANGED vars PROVE ControlInv'
  <1>1. UNCHANGED <<commands, pc, current, requests, replies, child, carried, shown, okfor, givenup, upset>>
    BY Frames DEF ReapEnds, vars
  <1>2. gld' \in {"loop", "noted", "reaping", "again"}
    BY DEF ReapEnds, vars, server, ControlInv, TypeOK
  <1>3. Given' = Given /\ (Calm' <=> Calm)
    BY <1>1 DEF Given, Calm
  <1>4. TypeOK'
    BY <1>1, <1>2 DEF ControlInv, TypeOK
  <1>5. Issued' /\ Told' /\ OneToken' /\ OkIsEarned' /\ \A n : OnItsWay(n)' => OnItsWay(n)
    BY <1>1, IssuedStays, ToldStays, OneTokenStays, OkStays
  <1>6. Late'
    BY <1>1, <1>5, LateStays
  <1>7. Shape' /\ OneListens' /\ Kinds' /\ CalmChildren' /\ ShownCalm'
    BY <1>1, <1>3 DEF ControlInv, Shape, OneListens, Kinds, CalmChildren, ShownCalm
  <1>8. Promises' /\ Pagers'
    BY <1>1, <1>3 DEF ControlInv, Promises, Promised, Ready, Pagers, Held
  <1> QED BY <1>4, <1>5, <1>6, <1>7, <1>8 DEF ControlInv
-----------------------------------------------------------------------------
(* the child says OK, which is then on its way instead of the request *)
LEMMA ListenStep == ASSUME ControlInv, NEW s \in Slot, Listen(s) PROVE ControlInv'
  <1> DEFINE n == child[s].for
             k == commands[n].kind
             a == [for |-> n, type |-> k]
             c == [child[s] EXCEPT !.pc = "accepting", !.listening = (Listening = {})]
  <1>1. /\ child[s].pc = "born" /\ child' = [child EXCEPT ![s] = c]
        /\ upset' = (upset \/ Listening # {}) /\ carried' = carried \cup {n} /\ replies' = replies \cup {a}
        /\ UNCHANGED <<commands, pc, current, requests, gld, shown, okfor, givenup>>
    BY DEF Listen, Reply
  <1>2. /\ n \in Given /\ n \in Command /\ k \in Reports /\ k \in Kind
        /\ child[s].queue = <<>> /\ child[s].conn = NONE
    BY <1>1, GivenFacts, ControlNumbers DEF ControlInv, Shape
  <1>3. child[s] \in Child
    BY DEF ControlInv, TypeOK
  <1>4. /\ c.pc = "accepting" /\ c.for = n /\ c.queue = <<>> /\ c.conn = NONE
        /\ c.listening = (Listening = {}) /\ c \in Child
    <2>1. (Listening = {}) \in BOOLEAN
      OBVIOUS
    <2>2. c \in Child
      <3> DEFINE S == Seq(Command)
                 b == (Listening = {})
      <3>1. child[s] \in [pc : {"none", "born", "accepting", "writing"}, for : Command \cup {NONE},
                          listening : BOOLEAN, queue : S, conn : Command \cup {NONE}]
        BY <1>3 DEF Child
      <3>2. c = [child[s] EXCEPT !.pc = "accepting", !.listening = b] /\ b \in BOOLEAN
        OBVIOUS
      <3> HIDE DEF S, b, c
      <3>3. c \in [pc : {"none", "born", "accepting", "writing"}, for : Command \cup {NONE},
                   listening : BOOLEAN, queue : S, conn : Command \cup {NONE}]
        BY <3>1, <3>2
      <3> QED BY <3>3 DEF S, Child
    <2> QED BY <1>2, <1>3, <2>2 DEF Child
  <1>5. a.for = n /\ a.type = k /\ a \in [for : {n}, type : Kind \cup {Error}]
    BY <1>2
  <1> HIDE DEF a, c, n, k
  <1>6. /\ child'[s] = c /\ \A t \in Slot \ {s} : child'[t] = child[t]
        /\ child' \in [Slot -> Child]
    BY <1>1, <1>4 DEF ControlInv, TypeOK
  <1>7. Given' = Given /\ (Calm' => Calm /\ Listening = {})
    BY <1>1 DEF Given, Calm, ControlInv, TypeOK
  <1>8. TypeOK'
    <2>1. replies \subseteq [for : Given, type : Kind \cup {Error}]
      BY DEF ControlInv, TypeOK, Given
    <2>2. replies' \subseteq [for : Given, type : Kind \cup {Error}]
      BY <1>1, <1>2, <1>5, <2>1
    <2>3. upset' \in BOOLEAN
      BY <1>1 DEF ControlInv, TypeOK
    <2> QED BY <1>1, <1>2, <1>6, <2>2, <2>3 DEF ControlInv, TypeOK, Given
  <1>9. Issued' /\ Told' /\ OkIsEarned'
    BY <1>1, IssuedStays, ToldStays, OkStays
  <1>10. Shape'
    BY <1>1, <1>2, <1>4, <1>6, <1>7 DEF ControlInv, Shape, k
  <1>11. OneListens' /\ CalmChildren'
    BY <1>1, <1>4, <1>6, <1>7 DEF ControlInv, OneListens, CalmChildren, Listening
  <1>12. Kinds' /\ ShownCalm'
    BY <1>1, <1>5, <1>7 DEF ControlInv, Kinds, ShownCalm, k
  <1>13. Born(n) /\ ~Answered(n) /\ ~Earned(n) /\ n \notin requests
    BY <1>1, <1>2 DEF Born, n, ControlInv, OneToken
  <1>14. \A m : /\ Born(m)' <=> Born(m) /\ m # n
                /\ Answered(m)' <=> Answered(m) \/ m = n
                /\ Earned(m)' <=> Earned(m)
    <2>1. \A t \in Slot : child[t].pc = "born" /\ child[t].for = n => t = s
      BY <1>1 DEF n, ControlInv, OneToken
    <2>2. \A m : Born(m)' <=> Born(m) /\ m # n
      BY <1>1, <1>4, <1>6, <2>1 DEF Born, n
    <2> QED BY <1>1, <1>5, <2>2 DEF Answered, Earned
  <1>15. OneToken'
    <2>1. \A m \in Given' : /\ m \in requests' => ~Born(m)' /\ ~Answered(m)' /\ ~Earned(m)'
                            /\ Born(m)' => ~Answered(m)' /\ ~Earned(m)'
                            /\ Answered(m)' => ~Earned(m)'
      BY <1>1, <1>7, <1>13, <1>14 DEF ControlInv, OneToken
    <2>2. \A t, u \in Slot : child'[t].pc = "born" /\ child'[u].pc = "born" /\ child'[t].for = child'[u].for => t = u
      BY <1>4, <1>6 DEF ControlInv, OneToken
    <2>3. \A q, r \in replies' : q.for = r.for => q = r
      BY <1>1, <1>5, <1>13 DEF ControlInv, OneToken, Answered
    <2> QED BY <1>1, <1>7, <2>1, <2>2, <2>3 DEF ControlInv, OneToken
  <1>16. Late'
    <2>1. \A m \in Given : OnItsWay(m)' => OnItsWay(m)
      BY <1>1, <1>13, <1>14 DEF OnItsWay
    <2> QED BY <1>1, <2>1, LateStays
  <1>17. Promises'
    <2>1. ASSUME NEW m \in Given, Promised(m)', Calm PROVE Ready(m)'
      <3>1. CASE m = n
        BY <1>4, <1>6, <3>1 DEF Ready
      <3>2. CASE m # n
        <4>1. Promised(m)
          BY <1>1, <1>5, <2>1, <3>2 DEF Promised
        <4>2. Ready(m)
          BY <2>1, <4>1 DEF ControlInv, Promises
        <4> QED BY <1>1, <1>6, <4>2 DEF Ready
      <3> QED BY <3>1, <3>2
    <2> QED BY <1>7, <2>1 DEF Promises
  <1>18. Pagers'
    <2>1. ASSUME NEW p \in Operator, pc[p] = "paging", Held(current[p]) PROVE Held(current[p])'
      <3>1. current[p] # NONE
        BY <2>1 DEF ControlInv, Issued
      <3>2. PICK t \in Slot : \/ child[t].conn = current[p]
                              \/ \E i \in DOMAIN child[t].queue : child[t].queue[i] = current[p]
        BY <2>1 DEF Held
      <3>3. t # s
        BY <1>2, <3>1, <3>2
      <3> QED BY <1>1, <1>6, <3>2, <3>3 DEF Held
    <2> QED BY <1>1, <1>7, <2>1 DEF ControlInv, Pagers
  <1> QED BY <1>8, <1>9, <1>10, <1>11, <1>12, <1>15, <1>16, <1>17, <1>18 DEF ControlInv

LEMMA AcceptStep == ASSUME ControlInv, NEW s \in Slot, Accept(s) PROVE ControlInv'
  <1> DEFINE h == Head(child[s].queue)
             c == [child[s] EXCEPT !.pc = "writing", !.listening = FALSE, !.conn = h, !.queue = <<>>]
  <1>1. /\ child[s].pc = "accepting" /\ child[s].queue # <<>> /\ child[s].listening
        /\ child' = [child EXCEPT ![s] = c]
        /\ UNCHANGED <<commands, pc, current, requests, replies, gld, carried, shown, okfor, givenup, upset>>
    BY Frames DEF Accept
  <1>2. child[s] \in Child
    BY DEF ControlInv, TypeOK
  <1>3. h \in Command
    <2>1. child[s].queue \in Seq(Command)
      BY <1>2 DEF Child
    <2> QED BY <1>1, <2>1, HeadTailProperties
  <1>4. /\ c.pc = "writing" /\ c.for = child[s].for /\ c.queue = <<>> /\ c.conn = h /\ c.listening = FALSE
        /\ c \in Child
    <2> DEFINE S == Seq(Command)
    <2>1. child[s] \in [pc : {"none", "born", "accepting", "writing"}, for : Command \cup {NONE},
                        listening : BOOLEAN, queue : S, conn : Command \cup {NONE}] /\ <<>> \in S
      BY <1>2 DEF Child
    <2> HIDE DEF S, h
    <2>2. c \in [pc : {"none", "born", "accepting", "writing"}, for : Command \cup {NONE},
                 listening : BOOLEAN, queue : S, conn : Command \cup {NONE}]
      BY <1>3, <2>1
    <2>3. c.pc = "writing" /\ c.for = child[s].for /\ c.queue = <<>> /\ c.conn = h /\ c.listening = FALSE
      BY <2>1
    <2> QED BY <2>2, <2>3 DEF S, Child
  <1> HIDE DEF c, h
  <1>5. /\ child'[s] = c /\ \A t \in Slot \ {s} : child'[t] = child[t]
        /\ child' \in [Slot -> Child]
    BY <1>1, <1>4 DEF ControlInv, TypeOK
  <1>6. Given' = Given /\ (Calm' <=> Calm)
    BY <1>1 DEF Given, Calm
  <1>7. TypeOK'
    BY <1>1, <1>5 DEF ControlInv, TypeOK
  <1>8. Issued' /\ Told' /\ OkIsEarned'
    BY <1>1, IssuedStays, ToldStays, OkStays
  <1>9. OneToken' /\ \A m : OnItsWay(m)' => OnItsWay(m)
    BY <1>1, <1>4, <1>5, OneTokenStays
  <1>10. Late'
    BY <1>1, <1>9, LateStays
  <1>11. Shape' /\ OneListens'
    BY <1>1, <1>4, <1>5, <1>6 DEF ControlInv, Shape, OneListens
  <1>12. Calm => child[s].queue = <<h>> /\ h = child[s].for
    BY <1>1 DEF ControlInv, CalmChildren, h
  <1>13. CalmChildren'
    BY <1>4, <1>5, <1>6, <1>12 DEF ControlInv, CalmChildren
  <1>14. Kinds' /\ ShownCalm'
    BY <1>1, <1>6 DEF ControlInv, Kinds, ShownCalm
  <1>15. Promises'
    <2>1. \A m \in Given : Promised(m)' => Promised(m)
      BY <1>1 DEF Promised
    <2>2. \A m \in Given : Ready(m) => Ready(m)'
      BY <1>1, <1>5 DEF Ready
    <2> QED BY <1>1, <1>6, <2>1, <2>2, PromisesStay
  <1>16. Pagers'
    <2>1. ASSUME Calm, NEW p \in Operator, pc[p] = "paging", Held(current[p]) PROVE Held(current[p])'
      <3>1. current[p] # NONE
        BY <2>1 DEF ControlInv, Issued
      <3>2. PICK t \in Slot : \/ child[t].conn = current[p]
                              \/ \E i \in DOMAIN child[t].queue : child[t].queue[i] = current[p]
        BY <2>1 DEF Held
      <3>3. CASE t = s
        <4>1. child[s].conn = NONE
          BY <1>1 DEF ControlInv, Shape
        <4>2. current[p] = h
          BY <1>12, <2>1, <3>1, <3>2, <3>3, <4>1
        <4> QED BY <1>1, <1>4, <1>5, <4>2 DEF Held
      <3>4. CASE t # s
        BY <1>1, <1>5, <3>2, <3>4 DEF Held
      <3> QED BY <3>3, <3>4
    <2> QED BY <1>1, <1>6, <2>1 DEF ControlInv, Pagers
  <1> QED BY <1>7, <1>8, <1>9, <1>10, <1>11, <1>13, <1>14, <1>15, <1>16 DEF ControlInv

(***************************************************************************)
(* A child that ends was waiting for nobody, or had its connection; what   *)
(* was in its queue is lost, but then something has gone wrong.            *)
(***************************************************************************)
LEMMA ExitStep ==
  ASSUME ControlInv, NEW s \in Slot, Exits(s), child[s].pc \in {"accepting", "writing"},
         child[s].pc = "accepting" => ~Calm',
         UNCHANGED <<commands, pc, current, requests, replies, carried, okfor, givenup>>,
         Calm' => Calm, upset' \in BOOLEAN,
         shown' \in [Command -> {"none", "refused", "cut", "left", "read", "other"}],
         \A n \in Command : Calm' /\ shown'[n] # shown[n] => shown'[n] = "read",
         \A n \in Command : child[s].pc = "writing" /\ child[s].conn = n => shown'[n] # "none"
  PROVE  ControlInv'
  <1>1. /\ child'[s] = NoChild /\ \A t \in Slot \ {s} : child'[t] = child[t]
        /\ child' \in [Slot -> Child] /\ gld' \in {"loop", "noted", "reaping", "again"}
    BY NoChildFacts DEF Exits, ControlInv, TypeOK
  <1>2. /\ NoChild.pc = "none" /\ NoChild.for = NONE /\ NoChild.listening = FALSE
        /\ NoChild.queue = <<>> /\ NoChild.conn = NONE
    BY NoChildFacts
  <1>3. Given' = Given
    BY DEF Given
  <1>4. TypeOK'
    BY <1>1 DEF ControlInv, TypeOK
  <1>5. Issued' /\ Told' /\ OkIsEarned'
    BY IssuedStays, ToldStays, OkStays
  <1>6. OneToken' /\ \A m : OnItsWay(m)' => OnItsWay(m)
    BY <1>1, <1>2, OneTokenStays
  <1>7. Late'
    BY <1>6, LateStays
  <1>8. Shape' /\ OneListens' /\ Kinds'
    <2>1. Shape'
      BY <1>1, <1>2, <1>3 DEF ControlInv, Shape
    <2>2. OneListens'
      BY <1>1, <1>2 DEF ControlInv, OneListens
    <2> QED BY <2>1, <2>2 DEF ControlInv, Kinds
  <1>9. CalmChildren'
    BY <1>1, <1>2 DEF ControlInv, CalmChildren
  <1>10. ShownCalm'
    BY DEF ControlInv, ShownCalm
  <1>11. Promises'
    <2>1. ASSUME NEW m \in Given, Calm', Promised(m)' PROVE Ready(m)'
      <3>1. Promised(m) /\ Calm
        BY <2>1 DEF Promised
      <3>2. Ready(m)
        BY <3>1 DEF ControlInv, Promises
      <3> QED BY <1>1, <2>1, <3>2 DEF Ready
    <2> QED BY <1>3, <2>1 DEF Promises
  <1>12. Pagers'
    <2>1. ASSUME Calm', NEW p \in Operator, pc[p] = "paging" PROVE Held(current[p])' \/ shown'[current[p]] # "none"
      <3>1. current[p] \in Given /\ current[p] \in Command
        BY <2>1, GivenFacts DEF ControlInv, Issued
      <3>2. CASE shown[current[p]] # "none"
        BY <2>1, <3>1, <3>2
      <3>3. CASE Held(current[p])
        <4>1. PICK t \in Slot : \/ child[t].conn = current[p]
                                \/ \E i \in DOMAIN child[t].queue : child[t].queue[i] = current[p]
          BY <3>3 DEF Held
        <4>2. CASE t # s
          BY <1>1, <4>1, <4>2 DEF Held
        <4>3. CASE t = s
          <5>1. child[s].pc = "writing" /\ child[s].queue = <<>>
            BY <2>1 DEF ControlInv, Shape
          <5> QED BY <3>1, <4>1, <4>3, <5>1
        <4> QED BY <4>2, <4>3
      <3> QED BY <2>1, <3>2, <3>3 DEF ControlInv, Pagers
    <2> QED BY <2>1 DEF Pagers
  <1> QED BY <1>4, <1>5, <1>6, <1>7, <1>8, <1>9, <1>10, <1>11, <1>12 DEF ControlInv

LEMMA AcceptFailsStep == ASSUME ControlInv, NEW s \in Slot, AcceptFails(s) PROVE ControlInv'
  <1>1. /\ child[s].pc = "accepting" /\ ~child[s].listening /\ Exits(s)
        /\ UNCHANGED <<commands, pc, current, requests, replies, carried, shown, okfor, givenup, upset>>
    BY Frames DEF AcceptFails
  <1>2. ~Calm /\ ~Calm'
    BY <1>1 DEF ControlInv, CalmChildren, Calm
  <1>3. upset \in BOOLEAN
    BY DEF ControlInv, TypeOK
  <1> QED BY <1>1, <1>2, <1>3, ExitStep DEF ControlInv, TypeOK

LEMMA ExpireStep == ASSUME ControlInv, NEW s \in Slot, Expire(s) PROVE ControlInv'
  <1>1. /\ child[s].pc = "accepting" /\ Exits(s) /\ upset' = TRUE
        /\ UNCHANGED <<commands, pc, current, requests, replies, carried, shown, okfor, givenup>>
    BY Frames DEF Expire
  <1>2. ~Calm'
    BY <1>1 DEF Calm
  <1> QED BY <1>1, <1>2, ExitStep DEF ControlInv, TypeOK

LEMMA WriteStep == ASSUME ControlInv, NEW s \in Slot, Write(s) PROVE ControlInv'
  <1> DEFINE n == child[s].conn
             how == IF child[s].for = n THEN "read" ELSE "other"
  <1>1. /\ child[s].pc = "writing" /\ Exits(s)
        /\ IF shown[n] = "none" THEN Sees(n, how) ELSE UNCHANGED shown
        /\ UNCHANGED <<commands, pc, current, requests, replies, carried, okfor, givenup, upset>>
    BY Frames DEF Write
  <1>2. (Calm' <=> Calm) /\ upset' \in BOOLEAN
    BY <1>1 DEF Calm, ControlInv, TypeOK
  <1>3. Calm => how = "read"
    BY <1>1 DEF ControlInv, CalmChildren
  <1>4. how \in {"read", "other"}
    OBVIOUS
  <1> HIDE DEF n, how
  <1>5. /\ shown' \in [Command -> {"none", "refused", "cut", "left", "read", "other"}]
        /\ \A m \in Command \ {n} : shown'[m] = shown[m]
        /\ n \in Command => shown'[n] # "none" /\ (shown'[n] # shown[n] => shown'[n] = how)
    BY <1>1, <1>4 DEF Sees, ControlInv, TypeOK
  <1>6. \A m \in Command : Calm' /\ shown'[m] # shown[m] => shown'[m] = "read"
    BY <1>2, <1>3, <1>5
  <1>7. \A m \in Command : child[s].conn = m => shown'[m] # "none"
    BY <1>5 DEF n
  <1> QED BY <1>1, <1>2, <1>5, <1>6, <1>7, ExitStep

LEMMA ControlStep == ControlInv /\ [Next]_vars => ControlInv'
  <1> SUFFICES ASSUME ControlInv, [Next]_vars PROVE ControlInv'
    OBVIOUS
  <1>1. ASSUME NEW o \in Operator, OperatorSteps(o) \/ Quit(o) PROVE ControlInv'
    BY <1>1, GiveUpStep, ConnectStep, PagerEndsStep, QuitStep DEF OperatorSteps
  <1>2. ASSUME NEW o \in Operator, NEW k \in Kind, Ask(o, k) \/ AskFails(o, k) PROVE ControlInv'
    BY <1>2, AskStep
  <1>3. ASSUME NEW n \in requests, Serve(n) \/ Refuse(n) \/ StartReport(n) PROVE ControlInv'
    BY <1>3, ServeStep, RefuseStep, StartReportStep
  <1>4. ASSUME NEW o \in Operator, NEW r \in replies, ReceiveOk(o, r) \/ ReceiveBad(o, r) PROVE ControlInv'
    BY <1>4, ReceiveOkStep, ReceiveBadStep
  <1>5. CASE ReapEnds \/ UNCHANGED vars
    BY <1>5, ReapEndsStep
  <1>6. ASSUME NEW s \in Slot, ChildSteps(s) PROVE ControlInv'
    BY <1>6, ListenStep, AcceptStep, AcceptFailsStep, ExpireStep, WriteStep DEF ChildSteps
  <1> QED BY <1>1, <1>2, <1>3, <1>4, <1>5, <1>6 DEF Next, Arrives

LEMMA ControlInvariance == Spec => []ControlInv
  BY ControlInit, ControlStep, PTL DEF Spec

(***************************************************************************)
(* The state of gld-mcp, gld and its report children keeps its types, for  *)
(* any number of operators, commands and children, and any kinds of them.  *)
(***************************************************************************)
THEOREM ControlTypeCorrect == Spec => []TypeOK
  <1>1. ControlInv => TypeOK
    BY DEF ControlInv
  <1> QED BY <1>1, ControlInvariance, PTL

(***************************************************************************)
(* send_request() takes a reply that names no command for the OK of the    *)
(* last one: it is the OK of something gld has done for this operator, and *)
(* of nothing else told before; another's only after a command given up.   *)
(***************************************************************************)
THEOREM OkIsAlwaysEarned == Spec => []OkIsEarned
  <1>1. ControlInv => OkIsEarned
    BY DEF ControlInv
  <1> QED BY <1>1, ControlInvariance, PTL

(***************************************************************************)
(* A report that cmd_mcp_report() has promised is there for show_report(), *)
(* and is the one asked for, as long as nothing timed out and no two       *)
(* children have begun to listen at once.                                  *)
(***************************************************************************)
THEOREM PromisesAreKept == Spec => []PromisedReportIsRead
  <1>1. ControlInv => PromisedReportIsRead
    BY GivenFacts DEF ControlInv, ShownCalm, PromisedReportIsRead, Given
  <1> QED BY <1>1, ControlInvariance, PTL
=============================================================================
