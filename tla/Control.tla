------------------------------- MODULE Control -------------------------------
(***************************************************************************)
(* The operator's side: gld-mcp (control/gld-mcp.c), what gld does with    *)
(* its requests, and the children that hand out reports                    *)
(* (cmd_mcp_report() in server/gld.c).                                     *)
(*                                                                         *)
(* A command is one datagram there and one back.  A report takes more:     *)
(* gld binds a TCP socket to its own port and forks a child, which         *)
(* listens, says OK, waits for one connection and writes the report.       *)
(* gld-mcp connects when it is told OK.  As the port is fixed, whoever     *)
(* listens there gets the connection.                                      *)
(*                                                                         *)
(* A reply carries the type of the command it answers, nothing else.       *)
(* Commands are numbered in the order in which they are given.             *)
(***************************************************************************)
EXTENDS Integers, Sequences, FiniteSets

CONSTANTS
  Operator,     \* processes of gld-mcp, each with a socket of its own
  Immediate,    \* commands that one reply settles: changes, stats, config
  Reports,      \* commands that ask for a report
  MaxCommands,  \* bound
  MaxChildren   \* bound: report children at a time

Kind    == Immediate \cup Reports
Command == 1 .. MaxCommands
Slot    == 1 .. MaxChildren
Error   == "error"           \* CMD_NONE_RESP, the answer to no kind of command
NONE    == 0                 \* no command

ASSUME ControlAssumption ==
  /\ Operator # {} /\ Immediate \cap Reports = {} /\ Error \notin Kind
  /\ MaxCommands \in Nat /\ MaxChildren \in Nat

VARIABLES
  commands,   \* given so far: by whom, and of which kind
  pc,         \* where each operator is
  current,    \* the last command of each operator, or NONE
  requests,   \* datagrams on their way to gld
  replies,    \* datagrams on their way back
  gld,        \* in its "loop", in it with SIGCHLD "noted" too late for this turn, or
              \* in handle_sigchld(): "reaping", or with SIGCHLD noted "again" meanwhile
  child,      \* the report children
  shown,      \* what came of each report for its operator
  okfor,      \* ghost: the command whose OK it was told
  carried,    \* ghost: the commands gld has carried out
  givenup,    \* ghost: the commands whose reply did not come in time
  upset       \* ghost: a child waited in vain, or two shared the port

talk   == <<requests, replies>>
server == <<gld, child, carried>>
ghosts == <<givenup, upset>>
vars   == <<commands, pc, current, talk, server, shown, okfor, ghosts>>

Child == [pc : {"none", "born", "accepting", "writing"}, for : Command \cup {NONE},
          listening : BOOLEAN, queue : Seq(Command), conn : Command \cup {NONE}]

NoChild == [pc |-> "none", for |-> NONE, listening |-> FALSE, queue |-> <<>>, conn |-> NONE]

Children(where) == {s \in Slot : child[s].pc = where}
Listening       == {s \in Slot : child[s].listening}
Handling        == gld \in {"reaping", "again"}
Held(n)         == \E s \in Slot : child[s].conn = n \/ \E i \in DOMAIN child[s].queue : child[s].queue[i] = n

Init ==
  /\ commands = <<>> /\ pc = [o \in Operator |-> "prompt"]
  /\ current = [o \in Operator |-> NONE]
  /\ requests = {} /\ replies = {}
  /\ gld = "loop" /\ child = [s \in Slot |-> NoChild]
  /\ shown = [n \in Command |-> "none"] /\ okfor = [n \in Command |-> NONE]
  /\ carried = {} /\ givenup = {} /\ upset = FALSE
-----------------------------------------------------------------------------
(***************************************************************************)
(* gld-mcp: a command line becomes a request; the lines of a file become   *)
(* one request each, and the next is sent whatever came of the last.       *)
(***************************************************************************)
Goes(o, where) == pc' = [pc EXCEPT ![o] = where]
Sees(n, how)   == shown' = [shown EXCEPT ![n] = how]

Give(o, k) ==
  /\ pc[o] = "prompt" /\ Len(commands) < MaxCommands
  /\ commands' = Append(commands, [by |-> o, kind |-> k])
  /\ current' = [current EXCEPT ![o] = Len(commands')]

(* send_request(): the request is sent, the alarm is set *)
Ask(o, k) ==
  /\ Give(o, k) /\ Goes(o, "waiting")
  /\ requests' = requests \cup {Len(commands')}
  /\ UNCHANGED <<replies, server, shown, okfor, ghosts>>

(* ERR_ERR: sendto() fails, no alarm is set *)
AskFails(o, k) ==
  /\ Give(o, k)
  /\ UNCHANGED <<pc, talk, server, shown, okfor, ghosts>>

(***************************************************************************)
(* recvfrom() takes what comes first.  A reply of the type that the        *)
(* command expects is its OK.                                              *)
(***************************************************************************)
Delivered(o, r) ==
  /\ r \in replies /\ replies' = replies \ {r}
  /\ commands[r.for].by = o

(* a mistake: any reply that is not an error is an OK *)
ReceiveAnyType(o, r) ==
  LET n == current[o] IN
  /\ pc[o] = "waiting" /\ Delivered(o, r) /\ r.type # Error
  /\ okfor' = [okfor EXCEPT ![n] = r.for]
  /\ Goes(o, IF commands[n].kind \in Reports THEN "told" ELSE "prompt")
  /\ UNCHANGED <<commands, current, requests, server, shown, ghosts>>

ReceiveOk(o, r) ==
  LET n == current[o] IN
  /\ pc[o] = "waiting" /\ Delivered(o, r) /\ r.type = commands[n].kind
  /\ okfor' = [okfor EXCEPT ![n] = r.for]
  /\ Goes(o, IF commands[n].kind \in Reports THEN "told" ELSE "prompt")
  /\ UNCHANGED <<commands, current, requests, server, shown, ghosts>>

ReceiveBad(o, r) ==
  LET n == current[o] IN
  /\ pc[o] = "waiting" /\ Delivered(o, r) /\ r.type # commands[n].kind
  /\ Goes(o, "prompt")
  /\ UNCHANGED <<commands, current, requests, server, shown, okfor, ghosts>>

(* a mistake: the alarm does not interrupt recvfrom() *)
GiveUpNever(o) ==
  /\ pc[o] = "waiting" /\ UNCHANGED vars

(* EINTR after c_timeout seconds *)
GiveUp(o) ==
  /\ pc[o] = "waiting" /\ Goes(o, "prompt")
  /\ givenup' = givenup \cup {current[o]}
  /\ UNCHANGED <<commands, current, talk, server, shown, okfor, upset>>

(***************************************************************************)
(* show_report(): the connection goes to whoever listens on the port; the  *)
(* pager shows what comes, to the end or until the operator has enough.    *)
(***************************************************************************)
Connect(o) ==
  LET n == current[o] IN
  /\ pc[o] = "told"
  /\ IF Listening = {}
     THEN Goes(o, "prompt") /\ Sees(n, "refused") /\ UNCHANGED child
     ELSE /\ Goes(o, "paging") /\ UNCHANGED shown
          /\ \E s \in Listening : child' = [child EXCEPT ![s].queue = Append(@, n)]
  /\ UNCHANGED <<commands, current, talk, gld, carried, okfor, ghosts>>

PagerEnds(o) ==
  LET n == current[o] IN
  /\ pc[o] = "paging" /\ ~Held(n) /\ Goes(o, "prompt")
  /\ IF shown[n] = "none" THEN Sees(n, "cut") ELSE UNCHANGED shown
  /\ UNCHANGED <<commands, current, talk, server, okfor, ghosts>>

Quit(o) ==
  LET n == current[o] IN
  /\ pc[o] = "paging" /\ Held(n) /\ Goes(o, "prompt")
  /\ Sees(n, "left")
  /\ UNCHANGED <<commands, current, talk, server, okfor, ghosts>>
-----------------------------------------------------------------------------
(***************************************************************************)
(* gld: the dispatch in gld(), one request per turn of its loop.           *)
(***************************************************************************)
Reply(n, type) == replies' = replies \cup {[for |-> n, type |-> type]}

Turn(n) ==
  /\ ~Handling /\ gld' = IF gld = "noted" THEN "reaping" ELSE "loop"
  /\ n \in requests /\ requests' = requests \ {n}

(* a change is made, or figures are sent *)
Serve(n) ==
  /\ Turn(n) /\ commands[n].kind \in Immediate
  /\ carried' = carried \cup {n} /\ Reply(n, commands[n].kind)
  /\ UNCHANGED <<commands, pc, current, child, shown, okfor, ghosts>>

(* GLERR_CANT_GENERATE_REPORT: bind() or fork() has failed *)
Refuse(n) ==
  /\ Turn(n) /\ commands[n].kind \in Reports
  /\ Reply(n, Error)
  /\ UNCHANGED <<commands, pc, current, child, carried, shown, okfor, ghosts>>

(* bind() succeeds beside sockets that do not listen *)
Fork(n) ==
  /\ Listening = {}
  /\ \E s \in Children("none") :
       /\ \A t \in Children("none") : s <= t
       /\ child' = [child EXCEPT ![s] = [NoChild EXCEPT !.pc = "born", !.for = n]]

(* a mistake: gld itself says OK, before the child listens *)
StartReportTellsFirst(n) ==
  /\ Turn(n) /\ commands[n].kind \in Reports
  /\ Fork(n) /\ Reply(n, commands[n].kind)
  /\ UNCHANGED <<commands, pc, current, carried, shown, okfor, ghosts>>

StartReport(n) ==
  /\ Turn(n) /\ commands[n].kind \in Reports
  /\ Fork(n)
  /\ UNCHANGED <<commands, pc, current, replies, carried, shown, okfor, ghosts>>

(* handle_sigchld() stays until no child is left; what it reaps is in Daemon.tla *)
ReapEnds ==
  /\ Handling /\ \A s \in Slot : child[s].pc = "none"
  /\ gld' = IF gld = "again" THEN "noted" ELSE "loop"
  /\ UNCHANGED <<commands, pc, current, talk, child, carried, shown, okfor, ghosts>>
-----------------------------------------------------------------------------
(***************************************************************************)
(* A report child.  Its end raises SIGCHLD, which interrupts recvfrom()    *)
(* unless gld is just on its way into it; in handle_sigchld(), which       *)
(* clears the flag as it begins, it is noted for the next turn.  What      *)
(* waited in the queue of the child's socket is cut off.                   *)
(***************************************************************************)
Exits(s) ==
  /\ child' = [child EXCEPT ![s] = NoChild]
  /\ gld' \in IF Handling THEN {gld, "again"} ELSE {"noted", "reaping"}

(* listen(), whose result nobody looks at, alarm(10), and the OK *)
Listen(s) ==
  LET n == child[s].for IN
  /\ child[s].pc = "born"
  /\ child' = [child EXCEPT ![s].pc = "accepting", ![s].listening = (Listening = {})]
  /\ upset' = (upset \/ Listening # {})
  /\ carried' = carried \cup {n} /\ Reply(n, commands[n].kind)
  /\ UNCHANGED <<commands, pc, current, requests, gld, shown, okfor, givenup>>

(* accept(), alarm(0), and the listening socket is closed *)
Accept(s) ==
  /\ child[s].pc = "accepting" /\ child[s].listening /\ child[s].queue # <<>>
  /\ child' = [child EXCEPT ![s].pc = "writing", ![s].listening = FALSE,
                            ![s].conn = Head(child[s].queue), ![s].queue = <<>>]
  /\ UNCHANGED <<commands, pc, current, talk, gld, carried, shown, okfor, ghosts>>

(* a mistake: a failed accept() is not noticed, and -1 is written to *)
AcceptFailsUnnoticed(s) ==
  /\ child[s].pc = "accepting" /\ ~child[s].listening
  /\ child' = [child EXCEPT ![s].pc = "writing", ![s].conn = -1]
  /\ UNCHANGED <<commands, pc, current, talk, gld, carried, shown, okfor, ghosts>>

(* accept() on a socket that does not listen *)
AcceptFails(s) ==
  /\ child[s].pc = "accepting" /\ ~child[s].listening
  /\ Exits(s)
  /\ UNCHANGED <<commands, pc, current, talk, carried, shown, okfor, ghosts>>

(* a mistake: accept() is tried again after EINTR, as it once was *)
ExpireTriesAgain(s) ==
  /\ child[s].pc = "accepting" /\ child[s].listening
  /\ upset' = TRUE
  /\ UNCHANGED <<commands, pc, current, talk, server, shown, okfor, givenup>>

(* EINTR after 10 seconds *)
Expire(s) ==
  /\ child[s].pc = "accepting" /\ child[s].listening
  /\ Exits(s)
  /\ upset' = TRUE
  /\ UNCHANGED <<commands, pc, current, talk, carried, shown, okfor, givenup>>

(* the report, or SIGPIPE if the pager is gone *)
Write(s) ==
  LET n == child[s].conn IN
  /\ child[s].pc = "writing"
  /\ Exits(s)
  /\ IF shown[n] = "none"
     THEN Sees(n, IF child[s].for = n THEN "read" ELSE "other")
     ELSE UNCHANGED shown
  /\ UNCHANGED <<commands, pc, current, talk, carried, okfor, ghosts>>
-----------------------------------------------------------------------------
(***************************************************************************)
(* The network delivers in any order, and late.  A lost datagram is one    *)
(* that stays on its way: nothing says that it arrives.                    *)
(***************************************************************************)
Arrives ==
  \/ \E n \in requests : Serve(n) \/ Refuse(n) \/ StartReport(n)
  \/ \E o \in Operator, r \in replies : ReceiveOk(o, r) \/ ReceiveBad(o, r)

OperatorSteps(o) == GiveUp(o) \/ Connect(o) \/ PagerEnds(o)

ChildSteps(s) == Listen(s) \/ Accept(s) \/ AcceptFails(s) \/ Expire(s) \/ Write(s)

Next ==
  \/ \E o \in Operator : OperatorSteps(o) \/ Quit(o)
  \/ \E o \in Operator, k \in Kind : Ask(o, k) \/ AskFails(o, k)
  \/ Arrives \/ ReapEnds
  \/ \E s \in Slot : ChildSteps(s)

(***************************************************************************)
(* Processes run and timers expire; that Write() comes to its end is an    *)
(* assumption about operators: they read on, or quit the pager.            *)
(***************************************************************************)
Fairness ==
  /\ \A o \in Operator : WF_vars(OperatorSteps(o))
  /\ \A s \in Slot : WF_vars(ChildSteps(s))
  /\ WF_vars(ReapEnds)

Spec == Init /\ [][Next]_vars /\ Fairness
-----------------------------------------------------------------------------
(* the types of the state *)
TypeOK ==
  /\ commands \in Seq([by : Operator, kind : Kind])
  /\ pc \in [Operator -> {"prompt", "waiting", "told", "paging"}]
  /\ current \in [Operator -> Command \cup {NONE}]
  /\ requests \subseteq DOMAIN commands
  /\ replies \subseteq [for : DOMAIN commands, type : Kind \cup {Error}]
  /\ gld \in {"loop", "noted", "reaping", "again"}
  /\ child \in [Slot -> Child]
  /\ shown \in [Command -> {"none", "refused", "cut", "left", "read", "other"}]
  /\ okfor \in [Command -> Command \cup {NONE}]
  /\ carried \subseteq Command /\ givenup \subseteq Command
  /\ upset \in BOOLEAN

(***************************************************************************)
(* What an operator is told was done has been done, of the kind and for    *)
(* the operator that asked; no two commands are told the same OK; and an   *)
(* OK is the command's own, unless an earlier one of the same gld-mcp was  *)
(* given up.  Nothing else can shift the replies, although they do not say *)
(* what they answer.                                                       *)
(***************************************************************************)
OkIsEarned ==
  \A n \in DOMAIN commands :
    LET m == okfor[n] IN
    m # NONE =>
      /\ m \in carried /\ commands[m] = commands[n]
      /\ \A l \in DOMAIN commands : okfor[l] = m => l = n
      /\ m # n => m < n /\ \E g \in givenup : g <= m /\ commands[g].by = commands[n].by

(***************************************************************************)
(* BUGS:40-44 (a report used to fail when gld-mcp was faster than the      *)
(* child): an operator who is told that the report is ready can connect,   *)
(* and reads it and no other, as long as no command was given up,          *)
(* no child has waited in vain, and no two children have begun to listen   *)
(* at the same time.                                                       *)
(***************************************************************************)
Calm == givenup = {} /\ ~upset

PromisedReportIsRead ==
  Calm => \A n \in DOMAIN commands :
            commands[n].kind \in Reports /\ okfor[n] # NONE => shown[n] \in {"none", "read", "left"}

(* Whatever is lost, and whoever gets whose connection, the prompt comes back. *)
EveryCommandReturns == \A o \in Operator : pc[o] # "prompt" ~> pc[o] = "prompt"

(***************************************************************************)
(* While gld waits for its children it answers nobody; no child that is    *)
(* left without its reader keeps it there.                                 *)
(***************************************************************************)
GldServesAgain == Handling ~> ~Handling
=============================================================================
