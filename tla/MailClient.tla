----------------------------- MODULE MailClient -----------------------------
(***************************************************************************)
(* check_greylist() of the clients of gld (postfix/pfc.c, sendmail/smc.c): *)
(* a question is sent in one datagram, the answer is whatever datagram     *)
(* arrives next, and an alarm ends the waiting.  Datagrams may be delayed, *)
(* reordered and duplicated, and nothing in a reply says which question it *)
(* answers.  A lost datagram is one that never arrives: nothing says that  *)
(* any does.                                                               *)
(*                                                                         *)
(* pfc has one thread.  smc has one per mail connection (libmilter), and   *)
(* they share the socket and the process's only timer.                     *)
(***************************************************************************)
EXTENDS Integers, FiniteSets

CONSTANTS
  Thread,
  Says,           \* what gld may answer
  MaxQuestions,   \* bound
  MaxDuplicates   \* bound: datagrams the network delivers twice

Verdict  == {"greylist", "accept", "reject"}
Unusable == "unusable"    \* a damaged reply, an error, another version or MTA

ASSUME ClientAssumption ==
  /\ Thread # {} /\ Says \subseteq Verdict \cup {Unusable}
  /\ MaxQuestions \in Nat /\ MaxDuplicates \in Nat

NONE     == "none"
Question == 1 .. MaxQuestions

VARIABLES
  pc,         \* of each thread
  question,   \* its last question, or 0
  questions,  \* asked so far
  asks,       \* questions on their way to gld
  replies,    \* replies on their way back
  copies,     \* datagrams doubled so far
  alarm,      \* the timer of the process is running
  answer,     \* what each thread has got, before it returns
  told,       \* what the mail server was told about each question
  source,     \* the question whose answer that was, or 0 if nobody's
  said,       \* ghost: all that gld has answered, as <<question, verdict>>
  disturbed,  \* ghost: the questions that timed out, whose recvfrom() failed, or
              \*        that had a datagram doubled
  crossed     \* ghost: the questions open while another thread's was, or while
              \*        another thread took the SIGALRM

net    == <<asks, replies, copies>>
ghosts == <<said, disturbed, crossed>>
vars   == <<pc, question, questions, net, alarm, answer, told, source, ghosts>>

Ask   == [q : Question, copy : 0 .. MaxDuplicates]
Reply == [q : Question, copy : 0 .. MaxDuplicates, says : Says]
Answer == [verdict : Verdict, of : Question \cup {0}]

(* "better to err on the side of caution": whatever goes wrong, the mail passes *)
FailOpen == [verdict |-> "accept", of |-> 0]

Init ==
  /\ pc = [t \in Thread |-> "idle"] /\ question = [t \in Thread |-> 0] /\ questions = 0
  /\ asks = {} /\ replies = {} /\ copies = 0 /\ alarm = FALSE
  /\ answer = [t \in Thread |-> FailOpen]
  /\ told = [q \in Question |-> NONE] /\ source = [q \in Question |-> 0]
  /\ said = {} /\ disturbed = {} /\ crossed = {}
-----------------------------------------------------------------------------
(***************************************************************************)
(* check_greylist(), one action per call that others can see.              *)
(***************************************************************************)
Goes(t, where) == pc' = [pc EXCEPT ![t] = where]

OpenBut(T) == {question[u] : u \in {v \in Thread \ T : pc[v] # "idle"}}
Open       == OpenBut({})

Begin(t) ==
  /\ pc[t] = "idle" /\ questions < MaxQuestions
  /\ questions' = questions + 1
  /\ question' = [question EXCEPT ![t] = questions']
  /\ crossed' = IF Open = {} THEN crossed ELSE crossed \cup Open \cup {questions'}

(* a mistake: the question is sent twice, to be safe *)
SendTwice(t) ==
  /\ Begin(t) /\ Goes(t, "sent")
  /\ asks' = asks \cup {[q |-> questions', copy |-> c] : c \in {0, MaxDuplicates}}
  /\ UNCHANGED <<replies, copies, alarm, answer, told, source, said, disturbed>>

Send(t) ==
  /\ Begin(t) /\ Goes(t, "sent")
  /\ asks' = asks \cup {[q |-> questions', copy |-> 0]}
  /\ UNCHANGED <<replies, copies, alarm, answer, told, source, said, disturbed>>

(* sendto() fails: return(IFT_ACCEPT), no timer is set *)
SendFails(t) ==
  /\ Begin(t)
  /\ told' = [told EXCEPT ![questions'] = "accept"]
  /\ UNCHANGED <<pc, net, alarm, answer, source, said, disturbed>>

(***************************************************************************)
(* alarm(c_timeout) and recvfrom().  The timer of a thread cannot expire   *)
(* between the two, unless they are c_timeout seconds apart.               *)
(***************************************************************************)
(* a mistake: no alarm *)
WaitNoAlarm(t) ==
  /\ pc[t] = "sent" /\ Goes(t, "waiting")
  /\ UNCHANGED <<question, questions, net, alarm, answer, told, source, ghosts>>

Wait(t) ==
  /\ pc[t] = "sent" /\ Goes(t, "waiting")
  /\ alarm' = TRUE
  /\ UNCHANGED <<question, questions, net, answer, told, source, ghosts>>

(* a mistake: the reply is not checked *)
ReceiveUnchecked(t, r) ==
  /\ pc[t] = "waiting" /\ r \in replies /\ Goes(t, "received")
  /\ replies' = replies \ {r}
  /\ answer' = [answer EXCEPT ![t] = [verdict |-> r.says, of |-> r.q]]
  /\ UNCHANGED <<question, questions, asks, copies, alarm, told, source, ghosts>>

(* recvfrom() takes any datagram; one that cannot be used lets the mail pass *)
Receive(t, r) ==
  /\ pc[t] = "waiting" /\ r \in replies /\ Goes(t, "received")
  /\ replies' = replies \ {r}
  /\ answer' = [answer EXCEPT ![t] =
                  [verdict |-> IF r.says = Unusable THEN "accept" ELSE r.says, of |-> r.q]]
  /\ UNCHANGED <<question, questions, asks, copies, alarm, told, source, ghosts>>

(* recvfrom() fails, and not because of the alarm *)
ReceiveFails(t) ==
  /\ pc[t] = "waiting" /\ Goes(t, "received")
  /\ answer' = [answer EXCEPT ![t] = FailOpen]
  /\ disturbed' = disturbed \cup {question[t]}
  /\ UNCHANGED <<question, questions, net, alarm, told, source, said, crossed>>

(***************************************************************************)
(* SIGALRM is delivered to one thread, whichever it is, and does something *)
(* only if that thread is in recvfrom().                                   *)
(***************************************************************************)
(* a mistake: a question that timed out is answered with a temporary failure *)
ExpireDefers(t) ==
  /\ alarm /\ alarm' = FALSE
  /\ pc[t] = "waiting" /\ Goes(t, "received")
  /\ answer' = [answer EXCEPT ![t] = [FailOpen EXCEPT !.verdict = "greylist"]]
  /\ disturbed' = disturbed \cup {question[t]}
  /\ UNCHANGED <<question, questions, net, told, source, said, crossed>>

Expire(t) ==
  /\ alarm /\ alarm' = FALSE
  /\ pc[t] = "waiting" /\ Goes(t, "received")
  /\ answer' = [answer EXCEPT ![t] = FailOpen]
  /\ disturbed' = disturbed \cup {question[t]}
  /\ UNCHANGED <<question, questions, net, told, source, said, crossed>>

ExpireElsewhere(t) ==
  /\ alarm /\ alarm' = FALSE
  /\ pc[t] # "waiting"
  /\ crossed' = crossed \cup OpenBut({t})
  /\ UNCHANGED <<pc, question, questions, net, answer, told, source, said, disturbed>>

(* alarm(0), for the whole process, and the answer is passed on *)
Return(t) ==
  /\ pc[t] = "received" /\ Goes(t, "idle")
  /\ alarm' = FALSE
  /\ told' = [told EXCEPT ![question[t]] = answer[t].verdict]
  /\ source' = [source EXCEPT ![question[t]] = answer[t].of]
  /\ answer' = [answer EXCEPT ![t] = FailOpen]
  /\ UNCHANGED <<question, questions, net, ghosts>>
-----------------------------------------------------------------------------
(***************************************************************************)
(* gld answers a question (type_greylist(), send_reply()), whichever way.  *)
(***************************************************************************)
Serve(a, says) ==
  /\ asks' = asks \ {a}
  /\ replies' = replies \cup {[q |-> a.q, copy |-> a.copy, says |-> says]}
  /\ said' = said \cup {<<a.q, says>>}
  /\ UNCHANGED <<pc, question, questions, copies, alarm, answer, told, source, disturbed, crossed>>

Duplicate ==
  /\ copies < MaxDuplicates /\ copies' = copies + 1
  /\ \/ \E a \in asks : /\ asks' = asks \cup {[a EXCEPT !.copy = copies']}
                          /\ disturbed' = disturbed \cup {a.q} /\ UNCHANGED replies
     \/ \E r \in replies : /\ replies' = replies \cup {[r EXCEPT !.copy = copies']}
                             /\ disturbed' = disturbed \cup {r.q} /\ UNCHANGED asks
  /\ UNCHANGED <<pc, question, questions, alarm, answer, told, source, said, crossed>>

Runs(t) == Wait(t) \/ (\E r \in replies : Receive(t, r)) \/ Return(t)

AlarmFires == \E t \in Thread : Expire(t) \/ ExpireElsewhere(t)

Next ==
  \/ \E t \in Thread : Send(t) \/ SendFails(t) \/ Runs(t) \/ ReceiveFails(t)
  \/ AlarmFires
  \/ \E a \in asks, says \in Says : Serve(a, says)
  \/ Duplicate

(* threads run and timers expire; nothing is assumed of gld or of the network *)
Spec ==
  /\ Init /\ [][Next]_vars
  /\ \A t \in Thread : WF_vars(Runs(t))
  /\ WF_vars(AlarmFires)
-----------------------------------------------------------------------------
(* the types of the state *)
TypeOK ==
  /\ pc \in [Thread -> {"idle", "sent", "waiting", "received"}]
  /\ question \in [Thread -> Question \cup {0}] /\ questions \in 0 .. MaxQuestions
  /\ asks \subseteq Ask /\ replies \subseteq Reply /\ copies \in 0 .. MaxDuplicates
  /\ alarm \in BOOLEAN /\ answer \in [Thread -> Answer]
  /\ told \in [Question -> Verdict \cup {NONE}] /\ source \in [Question -> Question \cup {0}]
  /\ said \subseteq Question \X Says
  /\ disturbed \subseteq Question /\ crossed \subseteq Question

(***************************************************************************)
(* An answer is to the question asked, unless a question up to that one    *)
(* was disturbed or shared its time with another: nothing else shifts the  *)
(* answers, although they do not say what they answer.  (Once they are     *)
(* shifted, they stay so: nothing tells a late reply from the right one.)  *)
(***************************************************************************)
OffOnlyIfDisturbed ==
  \A q \in Question :
    source[q] \in {0, q} \/ \E d \in disturbed \cup crossed : d <= source[q] /\ d <= q

(***************************************************************************)
(* A mail is deferred or refused only if gld has said so, of a question    *)
(* of these clients; never because of a timeout or of a reply that cannot  *)
(* be used.                                                                *)
(***************************************************************************)
RefusedByGldOnly ==
  \A q \in Question : told[q] \in {"greylist", "reject"} => <<source[q], told[q]>> \in said

(***************************************************************************)
(* conf.h:163-166 and :195-198: without a reply, the client answers after  *)
(* its timeout.  pfc, with its one thread, always does.  A thread of smc   *)
(* does unless another has a question open meanwhile, whose alarm(0) ends  *)
(* this one's timer, or takes the SIGALRM.                                 *)
(***************************************************************************)
AnsweredUnlessCrossed ==
  \A q \in Question : questions >= q ~> told[q] # NONE \/ q \in crossed
=============================================================================
