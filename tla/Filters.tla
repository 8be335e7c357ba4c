------------------------------ MODULE Filters ------------------------------
(***************************************************************************)
(* The filters in type_greylist() (server/gld.c): a request passes the IP  *)
(* list and the four rule lists before its tuple is looked up, and every   *)
(* filter counts what it said.  One action per filter; nothing else        *)
(* happens during a request, because gld is one thread.                    *)
(*                                                                         *)
(* The lists are the maps that RuleList.tla implements, and the request    *)
(* carries the verdict that IPList.tla finds for its address.              *)
(***************************************************************************)
EXTENDS Integers, FiniteSets

CONSTANTS
  Sender, Recipient,  \* the addresses requests are about
  Domain,             \* the domains of some of them
  DomainOf,           \* what follows the '@', or NoDomain
  NoDomain,
  MaxRequests,        \* bound: requests answered
  MaxChanges          \* bound: rules changed by the operator

NONE     == "none"
Verdicts == {"greylist", "accept", "reject"}
Lists    == {"from", "fromd", "to", "tod"}
Stages   == Lists \cup {"ip"}

KeysOf  == [from |-> Sender, fromd |-> Domain, to |-> Recipient, tod |-> Domain]

ASSUME DomainAssumption == /\ NoDomain \notin Domain
                           /\ DomainOf \in [Sender \cup Recipient -> Domain \cup {NoDomain}]
ASSUME BoundAssumption  == MaxRequests \in Nat /\ MaxChanges \in Nat

VARIABLES
  rules,       \* g_from, g_fromd, g_to, g_tod: the command of each key, or NONE
  default,     \* g_deffrom, g_deffromdomain, g_defto, g_deftodomain
  cmdcnt,      \* g_ip_cmdcnt, g_from_cmdcnt, g_fromd_cmdcnt, g_to_cmdcnt, g_tod_cmdcnt
  requests,    \* g_requests
  lookups,     \* requests that reached the tuple space
  req,         \* the request at hand, or the last one
  at,          \* the filter it has come to
  answer,      \* the verdict it was sent, and the reason
  changes

counts     == <<cmdcnt, requests, lookups>>
filterVars == <<rules, default, cmdcnt, requests, lookups, req, at, answer, changes>>

Request == [ip : Verdicts, from : Sender, to : Recipient]
Nothing == [verdict |-> NONE, why |-> "none"]
Pending == Stages \cup {"tuple"}

FilterInit ==
  /\ rules = [l \in Lists |-> [k \in KeysOf[l] |-> NONE]]
  /\ default = [l \in Lists |-> "greylist"]
  /\ cmdcnt = [s \in Stages |-> [v \in Verdicts |-> 0]]
  /\ requests = 0 /\ lookups = 0
  /\ req \in Request
  /\ at = "idle" /\ answer = Nothing /\ changes = 0
-----------------------------------------------------------------------------
Count(stage, v) == cmdcnt' = [cmdcnt EXCEPT ![stage][v] = @ + 1]

(* send_reply() and return *)
Reply(v, why) == at' = "idle" /\ answer' = [verdict |-> v, why |-> why]

GoOn(next) == at' = next /\ UNCHANGED answer

(* a mistake: one answer for every rule that is not to greylist *)
StageAccepts(stage, v, next) ==
  /\ Count(stage, v)
  /\ IF v = "greylist" THEN GoOn(next) ELSE Reply("accept", stage)
  /\ UNCHANGED <<rules, default, requests, lookups, req, changes>>

(* What a filter says, and where the request goes if that is GREYLIST. *)
Stage(stage, v, next) ==
  /\ Count(stage, v)
  /\ IF v = "greylist" THEN GoOn(next) ELSE Reply(v, stage)
  /\ UNCHANGED <<rules, default, requests, lookups, req, changes>>

Receive(r) ==
  /\ at = "idle" /\ requests < MaxRequests
  /\ req' = r /\ at' = "ip" /\ answer' = Nothing
  /\ requests' = requests + 1
  /\ UNCHANGED <<rules, default, cmdcnt, lookups, changes>>

CheckIP == at = "ip" /\ Stage("ip", req.ip, "from")

(***************************************************************************)
(* A rule for the address itself decides, and if it says GREYLIST the      *)
(* domain is not asked (goto type_greylist_check_to and                    *)
(* type_greylist_check_tuple).  Without one the default applies, and if    *)
(* that says GREYLIST the domain is asked, unless the address has no '@'.  *)
(***************************************************************************)
Explicit(list, key) == rules[list][key] # NONE

(* a mistake: the default is forgotten *)
SaysOwn(list, key) == rules[list][key]
Says(list, key) == IF Explicit(list, key) THEN rules[list][key] ELSE default[list]

(* a mistake: a rule for the address does not keep the domain from being asked *)
AfterAddressAsks(list, key, domains, next) ==
  IF DomainOf[key] = NoDomain THEN next ELSE domains

AfterAddress(list, key, domains, next) ==
  IF Explicit(list, key) \/ DomainOf[key] = NoDomain THEN next ELSE domains

CheckFrom ==
  /\ at = "from"
  /\ Stage("from", Says("from", req.from), AfterAddress("from", req.from, "fromd", "to"))

CheckFromDomain ==
  /\ at = "fromd"
  /\ Stage("fromd", Says("fromd", DomainOf[req.from]), "to")

CheckTo ==
  /\ at = "to"
  /\ Stage("to", Says("to", req.to), AfterAddress("to", req.to, "tod", "tuple"))

(* a mistake: a rejection by the domain is counted, but the request goes on *)
CheckToDomainGoesOn ==
  /\ at = "tod"
  /\ Count("tod", Says("tod", DomainOf[req.to])) /\ GoOn("tuple")
  /\ UNCHANGED <<rules, default, requests, lookups, req, changes>>

CheckToDomain ==
  /\ at = "tod"
  /\ Stage("tod", Says("tod", DomainOf[req.to]), "tuple")

(* the tuple space: TupleSpace.tla shows which of the two answers it gives *)
CheckTuple ==
  /\ at = "tuple"
  /\ lookups' = lookups + 1
  /\ Reply("accept", "whitelist") \/ Reply("greylist", "greylist")
  /\ UNCHANGED <<rules, default, cmdcnt, requests, req, changes>>
-----------------------------------------------------------------------------
(***************************************************************************)
(* cmd_mcp_tofrom(): a rule is set or removed, or a default is set.        *)
(***************************************************************************)
Change(list, k, v) ==
  /\ at = "idle" /\ changes < MaxChanges
  /\ rules' = [rules EXCEPT ![list][k] = v]
  /\ changes' = changes + 1
  /\ answer' = Nothing
  /\ UNCHANGED <<default, counts, req, at>>

ChangeDefault(list, v) ==
  /\ at = "idle" /\ changes < MaxChanges
  /\ default' = [default EXCEPT ![list] = v]
  /\ changes' = changes + 1
  /\ answer' = Nothing
  /\ UNCHANGED <<rules, counts, req, at>>

(***************************************************************************)
(* SIGTERM and a new start: the lists come back from their files, the      *)
(* counts start at 0.  (RuleList.tla has the crashes that lose changes.)   *)
(***************************************************************************)
StartOver ==
  /\ at = "idle"
  /\ cmdcnt' = [s \in Stages |-> [v \in Verdicts |-> 0]]
  /\ requests' = 0 /\ lookups' = 0
  /\ at' = "idle" /\ answer' = Nothing
  /\ UNCHANGED <<rules, default, req, changes>>

Filtering == CheckIP \/ CheckFrom \/ CheckFromDomain \/ CheckTo \/ CheckToDomain \/ CheckTuple

FilterNext ==
  \/ \E r \in Request : Receive(r)
  \/ Filtering
  \/ \E list \in Lists :
       \/ \E k \in KeysOf[list], v \in Verdicts \cup {NONE} : Change(list, k, v)
       \/ \E v \in Verdicts : ChangeDefault(list, v)
  \/ StartOver

FilterSpec == FilterInit /\ [][FilterNext]_filterVars /\ WF_filterVars(Filtering)
-----------------------------------------------------------------------------
(* the types of the state; no filter is ever asked for a verdict out of range *)
FilterTypeOK ==
  /\ DOMAIN rules = Lists
  /\ \A l \in Lists : rules[l] \in [KeysOf[l] -> Verdicts \cup {NONE}]
  /\ default \in [Lists -> Verdicts]
  /\ cmdcnt \in [Stages -> [Verdicts -> Nat]]
  /\ requests \in 0 .. MaxRequests /\ lookups \in 0 .. requests
  /\ req \in Request
  /\ at \in Pending \cup {"idle"}
  /\ answer \in [verdict : Verdicts, why : Stages \cup {"whitelist", "greylist"}]
               \cup {Nothing}
  /\ changes \in 0 .. MaxChanges

(***************************************************************************)
(* RUNNING:90-99 as one formula: of the filters in their order, the first  *)
(* that accepts or rejects is the reason, and the answer is what its rule  *)
(* for the key says, or its default.  An explicit rule for an address      *)
(* bypasses the filter of its domain, whatever either says.  What every    *)
(* filter lets pass is answered by the tuple space: known or not yet.      *)
(***************************************************************************)
Order == [ip |-> 1, from |-> 2, fromd |-> 3, to |-> 4, tod |-> 5]

HasDomainAsked(list, key) == ~Explicit(list, key) /\ DomainOf[key] # NoDomain

VerdictOf(stage) ==
  CASE stage = "ip"    -> req.ip
    [] stage = "from"  -> Says("from", req.from)
    [] stage = "fromd" -> Says("fromd", DomainOf[req.from])
    [] stage = "to"    -> Says("to", req.to)
    [] stage = "tod"   -> Says("tod", DomainOf[req.to])

Objects(stage) ==
  /\ stage = "fromd" => HasDomainAsked("from", req.from)
  /\ stage = "tod" => HasDomainAsked("to", req.to)
  /\ VerdictOf(stage) # "greylist"

TupleAnswers == { [verdict |-> "accept", why |-> "whitelist"],
                  [verdict |-> "greylist", why |-> "greylist"] }

FilteredAsDocumented ==
  at = "idle" /\ answer # Nothing =>
    LET objecting == {s \in Stages : Objects(s)} IN
      IF objecting = {}
      THEN answer \in TupleAnswers
      ELSE /\ answer.why \in objecting
           /\ \A s \in objecting : Order[answer.why] <= Order[s]
           /\ answer.verdict = VerdictOf(answer.why)

(***************************************************************************)
(* The counts of the report (gld-mcp show stats) add up: what a filter     *)
(* counts is what the filters before it let pass, at every moment of a     *)
(* request, so no request is counted twice or answered by two filters.     *)
(***************************************************************************)
Arrived(stage) == cmdcnt[stage]["greylist"] + cmdcnt[stage]["accept"] + cmdcnt[stage]["reject"]
Passed(stage)  == cmdcnt[stage]["greylist"]
Stopped(stage) == cmdcnt[stage]["accept"] + cmdcnt[stage]["reject"]
On(stages)     == IF at \in stages THEN 1 ELSE 0

CountsConserved ==
  /\ requests = Arrived("ip") + On({"ip"})
  /\ Passed("ip") = Arrived("from") + On({"from"})
  /\ Passed("from") = Arrived("to") + Stopped("fromd") + On({"fromd", "to"})
  /\ Passed("to") = lookups + Stopped("tod") + On({"tod", "tuple"})
  /\ Arrived("fromd") <= Passed("from") /\ Arrived("tod") <= Passed("to")
=============================================================================
