------------------------------- MODULE Milter -------------------------------
(***************************************************************************)
(* What smc (sendmail/smc.c) keeps of a mail connection between the        *)
(* milter's callbacks: the sender, in a buffer of the connection's own,    *)
(* from MAIL FROM to the questions asked at each RCPT TO.  A connection    *)
(* may carry any number of messages, and the buffer is cleared only when   *)
(* the connection opens.                                                   *)
(*                                                                         *)
(* Connections share nothing here; what their threads share is in          *)
(* MailClient.tla.                                                         *)
(***************************************************************************)
EXTENDS OrderedArray, Sequences

CONSTANTS
  Sender,     \* the texts senders may have, without brackets
  Capacity    \* sizeof(data->sender), 200

(* characters: the end of a string, the brackets, and all others *)
NUL     == 0
Bracket == {1, 2}
Letter  == Nat \ {0, 1, 2}

MilterConstants == Sender \subseteq Seq(Letter) /\ Capacity \in Nat \ {0}

Cells == 0 .. Capacity - 1

VARIABLES
  stage,     \* "closed", "open", in a "message", or one "accepted" without further questions
  sender,    \* data->sender
  given,     \* the sender of the message
  asked,     \* the senders that gld was asked about for this message
  longest    \* ghost: the length of the longest sender on this connection

milterVars == <<stage, sender, given, asked, longest>>
-----------------------------------------------------------------------------
(* strlen(), and the text that a string function sees *)
End(b)  == CHOOSE i \in Cells : b[i] = NUL /\ \A j \in Cells : j < i => b[j] # NUL
Text(b) == [i \in 1 .. End(b) |-> b[i-1]]

(* remove_char(b,isbracket): what lies behind the new end of the string stays *)
Strip(b) ==
  LET kept == {i \in 0 .. End(b) - 1 : b[i] \notin Bracket}
      n    == Cardinality(kept)
  IN [i \in Cells |-> IF i < n THEN b[Nth(kept, i)] ELSE IF i = n THEN NUL ELSE b[i]]

(* memcpy() without the terminating NUL, and at most Capacity - 1 characters *)
Copied(b, text) == [i \in Cells |-> IF i < Capacity - 1 /\ i < Len(text) THEN text[i+1] ELSE b[i]]

(* how sendmail hands a sender over: as it was given, most often in brackets *)
Handed(s) == {s, <<1>> \o s \o <<2>>} \ {<<>>}

Zeros == [i \in Cells |-> NUL]
Longer(m, n) == IF m < n THEN n ELSE m

MilterInit ==
  /\ stage = "closed" /\ sender = Zeros /\ given = <<>> /\ asked = {} /\ longest = 0

(* mf_connect() *)
Connect ==
  /\ stage = "closed" /\ stage' = "open"
  /\ sender' = Zeros /\ given' = <<>> /\ asked' = {} /\ longest' = 0

(* mf_mail_from(): someone who has authenticated is not asked about *)
MailFromAuthenticated ==
  /\ stage = "open" /\ stage' = "accepted"
  /\ asked' = {}
  /\ UNCHANGED <<sender, given, longest>>

MailFrom(s, text) ==
  /\ stage = "open" /\ stage' = "message"
  /\ sender' = Strip(Copied(sender, text))
  /\ given' = s /\ asked' = {}
  /\ longest' = Longer(longest, Len(s))

(* mf_rcpt_to(): SMFIS_ACCEPT settles the whole message, other answers this recipient *)
RcptTo ==
  /\ stage = "message" /\ stage' \in {"message", "accepted"}
  /\ asked' = asked \cup {Text(sender)}
  /\ UNCHANGED <<sender, given, longest>>

(* sendmail begins another message on the connection; smc is not told *)
MessageEnds ==
  /\ stage \in {"message", "accepted"} /\ stage' = "open"
  /\ UNCHANGED <<sender, given, asked, longest>>

(* mf_close() *)
Close ==
  /\ stage # "closed" /\ stage' = "closed"
  /\ UNCHANGED <<sender, given, asked, longest>>

MilterNext ==
  \/ Connect \/ MailFromAuthenticated
  \/ \E s \in Sender : \E text \in Handed(s) : MailFrom(s, text)
  \/ RcptTo \/ MessageEnds \/ Close

MilterSpec == MilterInit /\ [][MilterNext]_milterVars
-----------------------------------------------------------------------------
(* the types of the state; the last cell always ends the string *)
MilterTypeOK ==
  /\ stage \in {"closed", "open", "message", "accepted"}
  /\ sender \in [Cells -> Nat] /\ sender[Capacity - 1] = NUL
  /\ given \in Seq(Letter) /\ asked \subseteq Seq(Nat) /\ longest \in Nat

(***************************************************************************)
(* RUNNING:4-10: a request "consists of a tuple" of the address, the       *)
(* sender's email address and the recipient's: the sender asked about is   *)
(* the one that was given.                                                 *)
(***************************************************************************)
AskedAboutSender == asked \subseteq {given}

(***************************************************************************)
(* So it is if the sender fits the buffer and none before it on the        *)
(* connection was longer.                                                  *)
(***************************************************************************)
RightIfLongest ==
  Len(given) = longest /\ longest + 2 < Capacity => asked \subseteq {given}
=============================================================================
