--------------------------- MODULE RequestProofs ---------------------------
(***************************************************************************)
(* What a request gets.  First from the filters: they give the documented  *)
(* answer, and their counts add up, for any addresses, domains and rules   *)
(* and any number of requests.  Then, for one that reaches the tuples,     *)
(* from what its sender did before: nobody gets in early and persistence   *)
(* is rewarded, for any keys, timeouts and size of the pool.               *)
(***************************************************************************)
EXTENDS Filters, SenderView, FiniteSetTheorems, TLAPS

(***************************************************************************)
(* The inductive invariant: what a request has passed on its way, none of  *)
(* it objected to, and a domain is asked only if its address had no rule.  *)
(***************************************************************************)
Unobjected ==
  /\ at \in Pending => answer = Nothing
  /\ at \in Pending \ {"ip"} => req.ip = "greylist"
  /\ at \in Pending \ {"ip", "from"} => Says("from", req.from) = "greylist"
  /\ at = "fromd" => HasDomainAsked("from", req.from)
  /\ at \in {"to", "tod", "tuple"} => ~Objects("fromd")
  /\ at \in {"tod", "tuple"} => Says("to", req.to) = "greylist"
  /\ at = "tod" => HasDomainAsked("to", req.to)
  /\ at = "tuple" => ~Objects("tod")

(* what the filter of a domain lets pass goes straight on *)
DomainsPassed ==
  /\ Passed("fromd") <= Arrived("to") + On({"to"})
  /\ Passed("tod") <= lookups + On({"tuple"})

IInv == FilterTypeOK /\ CountsConserved /\ DomainsPassed /\ Unobjected /\ FilteredAsDocumented
-----------------------------------------------------------------------------
(***************************************************************************)
(* What is asked of a list has a verdict.                                  *)
(***************************************************************************)
LEMMA SaysVerdict ==
  ASSUME FilterTypeOK, NEW l \in Lists, NEW k \in KeysOf[l]
  PROVE  Says(l, k) \in Verdicts
  BY DEF FilterTypeOK, Says, Explicit

LEMMA KeysAsked ==
  ASSUME FilterTypeOK
  PROVE  /\ req.ip \in Verdicts
         /\ req.from \in KeysOf["from"] /\ req.to \in KeysOf["to"]
         /\ DomainOf[req.from] # NoDomain => DomainOf[req.from] \in KeysOf["fromd"]
         /\ DomainOf[req.to] # NoDomain => DomainOf[req.to] \in KeysOf["tod"]
  <1>1. req.ip \in Verdicts /\ req.from \in Sender /\ req.to \in Recipient
    BY DEF FilterTypeOK, Request
  <1>2. DomainOf[req.from] \in Domain \cup {NoDomain} /\ DomainOf[req.to] \in Domain \cup {NoDomain}
    BY <1>1, DomainAssumption
  <1> QED BY <1>1, <1>2 DEF KeysOf

LEMMA InitIInv == FilterInit => IInv
  <1> SUFFICES ASSUME FilterInit PROVE IInv
    OBVIOUS
  <1>1. FilterTypeOK
    BY BoundAssumption DEF FilterInit, FilterTypeOK, Nothing, Lists, KeysOf, Verdicts, NONE, Pending
  <1>2. CountsConserved /\ DomainsPassed
    BY DEF FilterInit, CountsConserved, DomainsPassed, Arrived, Passed, Stopped, On, Stages, Verdicts, Lists
  <1>3. Unobjected /\ FilteredAsDocumented
    BY DEF FilterInit, Unobjected, FilteredAsDocumented, Pending, Stages, Lists
  <1> QED BY <1>1, <1>2, <1>3 DEF IInv
-----------------------------------------------------------------------------
(***************************************************************************)
(* Counting a verdict of one filter                                        *)
(***************************************************************************)
LEMMA CountedCells ==
  ASSUME FilterTypeOK, NEW s \in Stages, NEW v \in Verdicts, Count(s, v)
  PROVE  /\ cmdcnt' \in [Stages -> [Verdicts -> Nat]]
         /\ \A x \in Stages, w \in Verdicts :
              /\ cmdcnt[x][w] \in Nat
              /\ cmdcnt'[x][w] = IF x = s /\ w = v THEN cmdcnt[x][w] + 1 ELSE cmdcnt[x][w]
  BY DEF FilterTypeOK, Count

LEMMA CountTypes ==
  ASSUME FilterTypeOK, NEW x \in Stages
  PROVE  /\ Arrived(x) \in Nat /\ Passed(x) \in Nat /\ Stopped(x) \in Nat
         /\ Arrived(x) = Passed(x) + Stopped(x)
  <1>1. \A w \in Verdicts : cmdcnt[x][w] \in Nat
    BY DEF FilterTypeOK
  <1>2. cmdcnt[x]["greylist"] \in Nat /\ cmdcnt[x]["accept"] \in Nat /\ cmdcnt[x]["reject"] \in Nat
    BY <1>1 DEF Verdicts
  <1> QED BY <1>2 DEF Arrived, Passed, Stopped

LEMMA CountedHere ==
  ASSUME FilterTypeOK, NEW s \in Stages, NEW v \in Verdicts, Count(s, v)
  PROVE  /\ Arrived(s)' = Arrived(s) + 1
         /\ v = "greylist" => Passed(s)' = Passed(s) + 1 /\ Stopped(s)' = Stopped(s)
         /\ v # "greylist" => Passed(s)' = Passed(s) /\ Stopped(s)' = Stopped(s) + 1
  <1>1. /\ cmdcnt[s]["greylist"] \in Nat /\ cmdcnt[s]["accept"] \in Nat /\ cmdcnt[s]["reject"] \in Nat
        /\ cmdcnt'[s]["greylist"] = IF v = "greylist" THEN cmdcnt[s]["greylist"] + 1 ELSE cmdcnt[s]["greylist"]
        /\ cmdcnt'[s]["accept"] = IF v = "accept" THEN cmdcnt[s]["accept"] + 1 ELSE cmdcnt[s]["accept"]
        /\ cmdcnt'[s]["reject"] = IF v = "reject" THEN cmdcnt[s]["reject"] + 1 ELSE cmdcnt[s]["reject"]
    BY CountedCells DEF Verdicts
  <1>2. v = "greylist" \/ v = "accept" \/ v = "reject"
    BY DEF Verdicts
  <1> QED BY <1>1, <1>2 DEF Arrived, Passed, Stopped

LEMMA CountedElsewhere ==
  ASSUME FilterTypeOK, NEW s \in Stages, NEW v \in Verdicts, Count(s, v), NEW x \in Stages, x # s
  PROVE  Arrived(x)' = Arrived(x) /\ Passed(x)' = Passed(x) /\ Stopped(x)' = Stopped(x)
  <1>1. /\ cmdcnt'[x]["greylist"] = cmdcnt[x]["greylist"]
        /\ cmdcnt'[x]["accept"] = cmdcnt[x]["accept"]
        /\ cmdcnt'[x]["reject"] = cmdcnt[x]["reject"]
    BY CountedCells DEF Verdicts
  <1> QED BY <1>1 DEF Arrived, Passed, Stopped
-----------------------------------------------------------------------------
(***************************************************************************)
(* No more tuples are looked up than requests came in.                     *)
(***************************************************************************)
LEMMA LookupsBounded ==
  ASSUME cmdcnt' \in [Stages -> [Verdicts -> Nat]], requests' \in Nat, lookups' \in Nat,
         CountsConserved'
  PROVE  lookups' <= requests'
  <1>1. \A x \in Stages, w \in Verdicts : cmdcnt'[x][w] \in Nat
    OBVIOUS
  <1>2. \A x \in Stages : /\ cmdcnt'[x]["greylist"] \in Nat
                           /\ cmdcnt'[x]["accept"] \in Nat /\ cmdcnt'[x]["reject"] \in Nat
    BY <1>1 DEF Verdicts
  <1>3. "ip" \in Stages /\ "from" \in Stages /\ "fromd" \in Stages
        /\ "to" \in Stages /\ "tod" \in Stages
    BY DEF Stages, Lists
  <1>4. Passed("ip")' <= requests' /\ Passed("from")' <= Passed("ip")'
        /\ Passed("to")' <= Passed("from")' /\ lookups' <= Passed("to")'
    BY <1>2, <1>3 DEF CountsConserved, Arrived, Passed, Stopped, On
  <1>5. Passed("ip")' \in Nat /\ Passed("from")' \in Nat /\ Passed("to")' \in Nat
    BY <1>2, <1>3 DEF Passed
  <1> QED BY <1>4, <1>5

LEMMA StageType ==
  ASSUME FilterTypeOK, NEW s \in Stages, NEW v \in Verdicts, NEW next \in Pending,
         Stage(s, v, next), CountsConserved'
  PROVE  FilterTypeOK'
  <1>1. cmdcnt' \in [Stages -> [Verdicts -> Nat]]
    BY CountedCells DEF Stage
  <1>2. UNCHANGED <<rules, default, requests, lookups, req, changes>>
    BY DEF Stage
  <1>3. at' \in Pending \cup {"idle"}
    BY DEF Stage, GoOn, Reply
  <1>4. answer' \in [verdict : Verdicts, why : Stages \cup {"whitelist", "greylist"}] \cup {Nothing}
    BY DEF Stage, GoOn, Reply, FilterTypeOK
  <1> QED BY <1>1, <1>2, <1>3, <1>4 DEF FilterTypeOK

(***************************************************************************)
(* The counts after the filter s has said v, as numbers                    *)
(***************************************************************************)
Sums(s, v) ==
  /\ \A x \in {"ip", "from", "fromd", "to", "tod"} :
       /\ Arrived(x) \in Nat /\ Passed(x) \in Nat /\ Stopped(x) \in Nat
       /\ Arrived(x) = Passed(x) + Stopped(x)
       /\ x # s => Arrived(x)' = Arrived(x) /\ Passed(x)' = Passed(x) /\ Stopped(x)' = Stopped(x)
  /\ Arrived(s)' = Arrived(s) + 1
  /\ Passed(s)' = Passed(s) + (IF v = "greylist" THEN 1 ELSE 0)
  /\ Stopped(s)' = Stopped(s) + (IF v = "greylist" THEN 0 ELSE 1)

LEMMA Counted ==
  ASSUME FilterTypeOK, NEW s \in Stages, NEW v \in Verdicts, Count(s, v)
  PROVE  Sums(s, v)
  <1>1. \A x \in {"ip", "from", "fromd", "to", "tod"} : x \in Stages
    BY DEF Stages, Lists
  <1>2. Arrived(s) \in Nat /\ Passed(s) \in Nat /\ Stopped(s) \in Nat
    BY CountTypes
  <1> QED BY <1>1, <1>2, CountTypes, CountedHere, CountedElsewhere DEF Sums

(***************************************************************************)
(* A request arrives.                                                      *)
(***************************************************************************)
LEMMA ReceiveStep ==
  ASSUME IInv, NEW r \in Request, Receive(r)
  PROVE  IInv'
  <1>1. FilterTypeOK'
    <2>1. FilterTypeOK /\ requests < MaxRequests /\ requests' = requests + 1
      BY DEF IInv, Receive
    <2>2. requests' \in 0 .. MaxRequests /\ lookups \in 0 .. requests'
      BY <2>1, BoundAssumption DEF FilterTypeOK
    <2>3. at' \in Pending /\ req' \in Request /\ answer' = Nothing
          /\ UNCHANGED <<rules, default, cmdcnt, lookups, changes>>
      BY DEF Receive, Pending, Stages
    <2> QED BY <2>1, <2>2, <2>3 DEF FilterTypeOK
  <1>2. CountsConserved' /\ DomainsPassed'
    <2>1. requests \in Nat /\ \A x \in Stages : Arrived(x) \in Nat
      BY CountTypes, BoundAssumption DEF IInv, FilterTypeOK
    <2>2. "ip" \in Stages
      BY DEF Stages
    <2>3. at = "idle" /\ at' = "ip" /\ requests' = requests + 1 /\ UNCHANGED <<cmdcnt, lookups>>
      BY DEF Receive
    <2>4. \A x : Arrived(x)' = Arrived(x) /\ Passed(x)' = Passed(x) /\ Stopped(x)' = Stopped(x)
      BY <2>3 DEF Arrived, Passed, Stopped
    <2> QED BY <2>1, <2>2, <2>3, <2>4 DEF IInv, CountsConserved, DomainsPassed, On
  <1>3. Unobjected' /\ FilteredAsDocumented'
    BY DEF Receive, Unobjected, FilteredAsDocumented, Pending, Stages, Lists
  <1> QED BY <1>1, <1>2, <1>3 DEF IInv
-----------------------------------------------------------------------------
(***************************************************************************)
(* The filter that has the last word is the first that objects.            *)
(***************************************************************************)
LEMMA ObjectsAs ==
  /\ Objects("ip") <=> req.ip # "greylist"
  /\ Objects("from") <=> Says("from", req.from) # "greylist"
  /\ Objects("fromd") <=> /\ HasDomainAsked("from", req.from)
                          /\ Says("fromd", DomainOf[req.from]) # "greylist"
  /\ Objects("to") <=> Says("to", req.to) # "greylist"
  /\ Objects("tod") <=> /\ HasDomainAsked("to", req.to)
                        /\ Says("tod", DomainOf[req.to]) # "greylist"
  BY DEF Objects, VerdictOf

LEMMA VerdictAs ==
  /\ VerdictOf("ip") = req.ip
  /\ VerdictOf("from") = Says("from", req.from)
  /\ VerdictOf("fromd") = Says("fromd", DomainOf[req.from])
  /\ VerdictOf("to") = Says("to", req.to)
  /\ VerdictOf("tod") = Says("tod", DomainOf[req.to])
  BY DEF VerdictOf

LEMMA SameObjections ==
  ASSUME UNCHANGED <<rules, default, req>>
  PROVE  \A x : (Objects(x)' <=> Objects(x)) /\ VerdictOf(x)' = VerdictOf(x)
  BY DEF Objects, VerdictOf, Says, HasDomainAsked, Explicit

LEMMA InOrder ==
  Order["ip"] = 1 /\ Order["from"] = 2 /\ Order["fromd"] = 3 /\ Order["to"] = 4 /\ Order["tod"] = 5
  BY DEF Order

LEMMA FirstObjection ==
  ASSUME NEW s \in Stages, NEW v, NEW next, Stage(s, v, next), v # "greylist",
         v = VerdictOf(s), Objects(s),
         \A x \in Stages : Objects(x) => Order[s] <= Order[x]
  PROVE  FilteredAsDocumented'
  <1>1. answer' = [verdict |-> v, why |-> s] /\ UNCHANGED <<rules, default, req>>
    BY DEF Stage, Reply
  <1>2. \A x : (Objects(x)' <=> Objects(x)) /\ VerdictOf(x)' = VerdictOf(x)
    BY <1>1, SameObjections
  <1>3. answer'.why = s /\ answer'.verdict = VerdictOf(s)'
    BY <1>1, <1>2
  <1> DEFINE objecting == {x \in Stages : Objects(x)'}
  <1>4. s \in objecting /\ \A x \in objecting : Order[s] <= Order[x]
    BY <1>2
  <1> QED BY <1>3, <1>4 DEF FilteredAsDocumented

LEMMA GoesOn ==
  ASSUME NEW s, NEW next \in Pending, Stage(s, "greylist", next)
  PROVE  at' = next /\ answer' = answer /\ FilteredAsDocumented'
  BY DEF Stage, GoOn, FilteredAsDocumented, Pending, Stages, Lists
-----------------------------------------------------------------------------
(***************************************************************************)
(* The filters: each lets the request go on, or has the last word.         *)
(***************************************************************************)
LEMMA CheckIPStep ==
  ASSUME IInv, CheckIP
  PROVE  IInv'
  <1>1. at = "ip" /\ Stage("ip", req.ip, "from") /\ Count("ip", req.ip)
    BY DEF CheckIP, Stage
  <1>2. "ip" \in Stages /\ req.ip \in Verdicts /\ "from" \in Pending
    BY KeysAsked DEF IInv, Stages, Lists, Pending
  <1>3. CountsConserved' /\ DomainsPassed'
    <2>1. UNCHANGED <<requests, lookups>> /\ at' \in {"from", "idle"}
          /\ (at' = "from" <=> req.ip = "greylist")
      BY <1>1 DEF Stage, GoOn, Reply
    <2>2. Sums("ip", req.ip)
      BY <1>1, <1>2, Counted DEF IInv
    <2> QED BY <1>1, <2>1, <2>2 DEF IInv, CountsConserved, DomainsPassed, On, Sums
  <1>4. FilterTypeOK'
    BY <1>1, <1>2, <1>3, StageType DEF IInv
  <1>5. Unobjected'
    BY <1>1 DEF Stage, IInv, Unobjected, GoOn, Reply, Pending, Stages, Lists
  <1>6. CASE req.ip = "greylist"
    BY <1>1, <1>2, <1>3, <1>4, <1>5, <1>6, GoesOn DEF IInv
  <1>7. CASE req.ip # "greylist"
    <2>1. \A x \in Stages : Order["ip"] <= Order[x]
      BY InOrder DEF Stages, Lists
    <2>2. FilteredAsDocumented'
      BY <1>1, <1>2, <1>7, <2>1, ObjectsAs, VerdictAs, FirstObjection
    <2> QED BY <1>3, <1>4, <1>5, <2>2 DEF IInv
  <1> QED BY <1>6, <1>7

LEMMA CheckFromStep ==
  ASSUME IInv, CheckFrom
  PROVE  IInv'
  <1> DEFINE v == Says("from", req.from)
             next == AfterAddress("from", req.from, "fromd", "to")
  <1>1. at = "from" /\ Stage("from", v, next) /\ Count("from", v)
    BY DEF CheckFrom, Stage
  <1>2. "from" \in Stages /\ v \in Verdicts /\ next \in {"fromd", "to"} /\ next \in Pending
    BY KeysAsked, SaysVerdict DEF IInv, Stages, Lists, Pending, AfterAddress
  <1>3. /\ UNCHANGED <<rules, default, requests, lookups, req>>
        /\ v = "greylist" => at' = next /\ answer' = answer
        /\ v # "greylist" => at' = "idle"
    BY <1>1 DEF Stage, GoOn, Reply
  <1>4. CountsConserved' /\ DomainsPassed'
    <2>1. Sums("from", v)
      BY <1>1, <1>2, Counted DEF IInv
    <2>2. at' \in {"fromd", "to", "idle"} /\ (at' = "idle" <=> v # "greylist")
      BY <1>2, <1>3
    <2>3. /\ On({"ip"}) = 0 /\ On({"from"}) = 1 /\ On({"fromd", "to"}) = 0
          /\ On({"tod", "tuple"}) = 0 /\ On({"to"}) = 0 /\ On({"tuple"}) = 0
      BY <1>1 DEF On
    <2>4. /\ On({"ip"})' = 0
          /\ On({"from"})' = 0
          /\ On({"fromd", "to"})' = (IF v = "greylist" THEN 1 ELSE 0)
          /\ On({"tod", "tuple"})' = 0
          /\ On({"to"})' \in {0, 1}
          /\ On({"tuple"})' = 0
      BY <2>2 DEF On
    <2> HIDE DEF v, next
    <2>5. CountsConserved /\ DomainsPassed
      BY DEF IInv
    <2>6. lookups \in Nat /\ UNCHANGED <<requests, lookups>>
      BY <1>3, BoundAssumption DEF IInv, FilterTypeOK
    <2> QED BY <2>1, <2>3, <2>4, <2>5, <2>6 DEF CountsConserved, DomainsPassed, Sums
  <1>5. FilterTypeOK'
    BY <1>1, <1>2, <1>4, StageType DEF IInv
  <1>6. next = "fromd" <=> HasDomainAsked("from", req.from)
    BY DEF AfterAddress, HasDomainAsked
  <1>7. Unobjected'
    <2>1. \A x : Objects(x)' <=> Objects(x)
      BY <1>3, SameObjections
    <2>2. /\ Says("from", req.from)' = Says("from", req.from)
          /\ Says("to", req.to)' = Says("to", req.to)
          /\ HasDomainAsked("from", req.from)' <=> HasDomainAsked("from", req.from)
          /\ HasDomainAsked("to", req.to)' <=> HasDomainAsked("to", req.to)
      BY <1>3 DEF Says, HasDomainAsked, Explicit
    <2>3. at' = "to" => ~Objects("fromd")
      BY <1>2, <1>3, <1>6, ObjectsAs
    <2>4. at' = "fromd" => HasDomainAsked("from", req.from)
      BY <1>2, <1>3, <1>6
    <2>5. at' \in {"fromd", "to"} => v = "greylist" /\ answer' = answer
      BY <1>3
    <2>6. at' \in {"fromd", "to", "idle"}
      BY <1>2, <1>3
    <2>7. Unobjected /\ at = "from" /\ req' = req
      BY <1>1, <1>3 DEF IInv
    <2> QED BY <2>1, <2>2, <2>3, <2>4, <2>5, <2>6, <2>7 DEF Unobjected, Pending, Stages, Lists
  <1>8. FilteredAsDocumented'
    <2>1. CASE v = "greylist"
      BY <1>1, <1>2, <2>1, GoesOn
    <2>2. CASE v # "greylist"
      <3>1. ~Objects("ip")
        BY <1>1, ObjectsAs DEF IInv, Unobjected, Pending, Stages, Lists
      <3>2. \A x \in Stages : Objects(x) => Order["from"] <= Order[x]
        BY <3>1, InOrder DEF Stages, Lists
      <3>3. Objects("from")
        BY <2>2, ObjectsAs
      <3> QED BY <1>1, <1>2, <2>2, <3>2, <3>3, VerdictAs, FirstObjection
    <2> QED BY <2>1, <2>2
  <1> QED BY <1>4, <1>5, <1>7, <1>8 DEF IInv

LEMMA CheckFromDomainStep ==
  ASSUME IInv, CheckFromDomain
  PROVE  IInv'
  <1> DEFINE v == Says("fromd", DomainOf[req.from])
  <1>1. at = "fromd" /\ Stage("fromd", v, "to") /\ Count("fromd", v)
    BY DEF CheckFromDomain, Stage
  <1>2. "fromd" \in Stages /\ "to" \in Pending /\ HasDomainAsked("from", req.from)
    BY <1>1 DEF IInv, Unobjected, Stages, Lists, Pending
  <1>3. v \in Verdicts
    BY <1>2, KeysAsked, SaysVerdict DEF IInv, HasDomainAsked, Lists
  <1>4. /\ UNCHANGED <<rules, default, requests, lookups, req>>
        /\ v = "greylist" => at' = "to" /\ answer' = answer
        /\ v # "greylist" => at' = "idle"
    BY <1>1 DEF Stage, GoOn, Reply
  <1>5. CountsConserved' /\ DomainsPassed'
    <2>1. Sums("fromd", v)
      BY <1>1, <1>2, <1>3, Counted DEF IInv
    <2>2. at' \in {"to", "idle"} /\ (at' = "idle" <=> v # "greylist")
      BY <1>4
    <2>3. /\ On({"ip"}) = 0 /\ On({"from"}) = 0 /\ On({"fromd", "to"}) = 1
          /\ On({"tod", "tuple"}) = 0 /\ On({"to"}) = 0 /\ On({"tuple"}) = 0
      BY <1>1 DEF On
    <2>4. /\ On({"ip"})' = 0
          /\ On({"from"})' = 0
          /\ On({"fromd", "to"})' = (IF v = "greylist" THEN 1 ELSE 0)
          /\ On({"tod", "tuple"})' = 0
          /\ On({"to"})' = (IF v = "greylist" THEN 1 ELSE 0)
          /\ On({"tuple"})' = 0
      BY <2>2 DEF On
    <2> HIDE DEF v
    <2>5. CountsConserved /\ DomainsPassed
      BY DEF IInv
    <2>6. lookups \in Nat /\ UNCHANGED <<requests, lookups>>
      BY <1>4, BoundAssumption DEF IInv, FilterTypeOK
    <2> QED BY <2>1, <2>3, <2>4, <2>5, <2>6 DEF CountsConserved, DomainsPassed, Sums
  <1>6. FilterTypeOK'
    BY <1>1, <1>2, <1>3, <1>5, StageType DEF IInv
  <1>7. Unobjected'
    <2>1. \A x : Objects(x)' <=> Objects(x)
      BY <1>4, SameObjections
    <2>2. /\ Says("from", req.from)' = Says("from", req.from)
          /\ Says("to", req.to)' = Says("to", req.to)
      BY <1>4 DEF Says, Explicit
    <2>3. at' = "to" => ~Objects("fromd")
      BY <1>4, ObjectsAs
    <2>4. at' = "to" => answer' = answer
      BY <1>4
    <2>5. at' \in {"to", "idle"} /\ Unobjected /\ at = "fromd" /\ req' = req
      BY <1>1, <1>4 DEF IInv
    <2> QED BY <2>1, <2>2, <2>3, <2>4, <2>5 DEF Unobjected, Pending, Stages, Lists
  <1>8. FilteredAsDocumented'
    <2>1. CASE v = "greylist"
      BY <1>1, <1>2, <2>1, GoesOn
    <2>2. CASE v # "greylist"
      <3>1. ~Objects("ip") /\ ~Objects("from")
        BY <1>1, ObjectsAs DEF IInv, Unobjected, Pending, Stages, Lists
      <3>2. \A x \in Stages : Objects(x) => Order["fromd"] <= Order[x]
        BY <3>1, InOrder DEF Stages, Lists
      <3>3. Objects("fromd")
        BY <1>2, <2>2, ObjectsAs
      <3> QED BY <1>1, <1>2, <2>2, <3>2, <3>3, VerdictAs, FirstObjection
    <2> QED BY <2>1, <2>2
  <1> QED BY <1>5, <1>6, <1>7, <1>8 DEF IInv

LEMMA CheckToStep ==
  ASSUME IInv, CheckTo
  PROVE  IInv'
  <1> DEFINE v == Says("to", req.to)
             next == AfterAddress("to", req.to, "tod", "tuple")
  <1>1. at = "to" /\ Stage("to", v, next) /\ Count("to", v)
    BY DEF CheckTo, Stage
  <1>2. "to" \in Stages /\ v \in Verdicts /\ next \in {"tod", "tuple"} /\ next \in Pending
    BY KeysAsked, SaysVerdict DEF IInv, Stages, Lists, Pending, AfterAddress
  <1>3. /\ UNCHANGED <<rules, default, requests, lookups, req>>
        /\ v = "greylist" => at' = next /\ answer' = answer
        /\ v # "greylist" => at' = "idle"
    BY <1>1 DEF Stage, GoOn, Reply
  <1>4. CountsConserved' /\ DomainsPassed'
    <2>1. Sums("to", v)
      BY <1>1, <1>2, Counted DEF IInv
    <2>2. at' \in {"tod", "tuple", "idle"} /\ (at' = "idle" <=> v # "greylist")
      BY <1>2, <1>3
    <2>3. /\ On({"ip"}) = 0 /\ On({"from"}) = 0 /\ On({"fromd", "to"}) = 1
          /\ On({"tod", "tuple"}) = 0 /\ On({"to"}) = 1 /\ On({"tuple"}) = 0
      BY <1>1 DEF On
    <2>4. /\ On({"ip"})' = 0
          /\ On({"from"})' = 0
          /\ On({"fromd", "to"})' = 0
          /\ On({"tod", "tuple"})' = (IF v = "greylist" THEN 1 ELSE 0)
          /\ On({"to"})' = 0
          /\ On({"tuple"})' \in {0, 1}
      BY <2>2 DEF On
    <2> HIDE DEF v, next
    <2>5. CountsConserved /\ DomainsPassed
      BY DEF IInv
    <2>6. lookups \in Nat /\ UNCHANGED <<requests, lookups>>
      BY <1>3, BoundAssumption DEF IInv, FilterTypeOK
    <2> QED BY <2>1, <2>3, <2>4, <2>5, <2>6 DEF CountsConserved, DomainsPassed, Sums
  <1>5. FilterTypeOK'
    BY <1>1, <1>2, <1>4, StageType DEF IInv
  <1>6. next = "tod" <=> HasDomainAsked("to", req.to)
    BY DEF AfterAddress, HasDomainAsked
  <1>7. Unobjected'
    <2>1. \A x : Objects(x)' <=> Objects(x)
      BY <1>3, SameObjections
    <2>2. /\ Says("from", req.from)' = Says("from", req.from)
          /\ Says("to", req.to)' = Says("to", req.to)
          /\ HasDomainAsked("from", req.from)' <=> HasDomainAsked("from", req.from)
          /\ HasDomainAsked("to", req.to)' <=> HasDomainAsked("to", req.to)
      BY <1>3 DEF Says, HasDomainAsked, Explicit
    <2>3. at' = "tuple" => ~Objects("tod")
      BY <1>2, <1>3, <1>6, ObjectsAs
    <2>4. at' = "tod" => HasDomainAsked("to", req.to)
      BY <1>2, <1>3, <1>6
    <2>5. at' \in {"tod", "tuple"} => v = "greylist" /\ answer' = answer
      BY <1>3
    <2>6. at' \in {"tod", "tuple", "idle"}
      BY <1>2, <1>3
    <2>7. Unobjected /\ at = "to" /\ req' = req
      BY <1>1, <1>3 DEF IInv
    <2> QED BY <2>1, <2>2, <2>3, <2>4, <2>5, <2>6, <2>7 DEF Unobjected, Pending, Stages, Lists
  <1>8. FilteredAsDocumented'
    <2>1. CASE v = "greylist"
      BY <1>1, <1>2, <2>1, GoesOn
    <2>2. CASE v # "greylist"
      <3>1. ~Objects("ip") /\ ~Objects("from") /\ ~Objects("fromd")
        BY <1>1, ObjectsAs DEF IInv, Unobjected, Pending, Stages, Lists
      <3>2. \A x \in Stages : Objects(x) => Order["to"] <= Order[x]
        BY <3>1, InOrder DEF Stages, Lists
      <3>3. Objects("to")
        BY <2>2, ObjectsAs
      <3> QED BY <1>1, <1>2, <2>2, <3>2, <3>3, VerdictAs, FirstObjection
    <2> QED BY <2>1, <2>2
  <1> QED BY <1>4, <1>5, <1>7, <1>8 DEF IInv

LEMMA CheckToDomainStep ==
  ASSUME IInv, CheckToDomain
  PROVE  IInv'
  <1> DEFINE v == Says("tod", DomainOf[req.to])
  <1>1. at = "tod" /\ Stage("tod", v, "tuple") /\ Count("tod", v)
    BY DEF CheckToDomain, Stage
  <1>2. "tod" \in Stages /\ "tuple" \in Pending /\ HasDomainAsked("to", req.to)
    BY <1>1 DEF IInv, Unobjected, Stages, Lists, Pending
  <1>3. v \in Verdicts
    BY <1>2, KeysAsked, SaysVerdict DEF IInv, HasDomainAsked, Lists
  <1>4. /\ UNCHANGED <<rules, default, requests, lookups, req>>
        /\ v = "greylist" => at' = "tuple" /\ answer' = answer
        /\ v # "greylist" => at' = "idle"
    BY <1>1 DEF Stage, GoOn, Reply
  <1>5. CountsConserved' /\ DomainsPassed'
    <2>1. Sums("tod", v)
      BY <1>1, <1>2, <1>3, Counted DEF IInv
    <2>2. at' \in {"tuple", "idle"} /\ (at' = "idle" <=> v # "greylist")
      BY <1>4
    <2>3. /\ On({"ip"}) = 0 /\ On({"from"}) = 0 /\ On({"fromd", "to"}) = 0
          /\ On({"tod", "tuple"}) = 1 /\ On({"to"}) = 0 /\ On({"tuple"}) = 0
      BY <1>1 DEF On
    <2>4. /\ On({"ip"})' = 0
          /\ On({"from"})' = 0
          /\ On({"fromd", "to"})' = 0
          /\ On({"tod", "tuple"})' = (IF v = "greylist" THEN 1 ELSE 0)
          /\ On({"to"})' = 0
          /\ On({"tuple"})' = (IF v = "greylist" THEN 1 ELSE 0)
      BY <2>2 DEF On
    <2> HIDE DEF v
    <2>5. CountsConserved /\ DomainsPassed
      BY DEF IInv
    <2>6. lookups \in Nat /\ UNCHANGED <<requests, lookups>>
      BY <1>4, BoundAssumption DEF IInv, FilterTypeOK
    <2> QED BY <2>1, <2>3, <2>4, <2>5, <2>6 DEF CountsConserved, DomainsPassed, Sums
  <1>6. FilterTypeOK'
    BY <1>1, <1>2, <1>3, <1>5, StageType DEF IInv
  <1>7. Unobjected'
    <2>1. \A x : Objects(x)' <=> Objects(x)
      BY <1>4, SameObjections
    <2>2. /\ Says("from", req.from)' = Says("from", req.from)
          /\ Says("to", req.to)' = Says("to", req.to)
      BY <1>4 DEF Says, Explicit
    <2>3. at' = "tuple" => ~Objects("tod")
      BY <1>4, ObjectsAs
    <2>4. at' = "tuple" => answer' = answer
      BY <1>4
    <2>5. at' \in {"tuple", "idle"} /\ Unobjected /\ at = "tod" /\ req' = req
      BY <1>1, <1>4 DEF IInv
    <2> QED BY <2>1, <2>2, <2>3, <2>4, <2>5 DEF Unobjected, Pending, Stages, Lists
  <1>8. FilteredAsDocumented'
    <2>1. CASE v = "greylist"
      BY <1>1, <1>2, <2>1, GoesOn
    <2>2. CASE v # "greylist"
      <3>1. ~Objects("ip") /\ ~Objects("from") /\ ~Objects("fromd") /\ ~Objects("to")
        BY <1>1, ObjectsAs DEF IInv, Unobjected, Pending, Stages, Lists
      <3>2. \A x \in Stages : Objects(x) => Order["tod"] <= Order[x]
        BY <3>1, InOrder DEF Stages, Lists
      <3>3. Objects("tod")
        BY <1>2, <2>2, ObjectsAs
      <3> QED BY <1>1, <1>2, <2>2, <3>2, <3>3, VerdictAs, FirstObjection
    <2> QED BY <2>1, <2>2
  <1> QED BY <1>5, <1>6, <1>7, <1>8 DEF IInv

LEMMA CheckTupleStep ==
  ASSUME IInv, CheckTuple
  PROVE  IInv'
  <1>1. /\ at = "tuple" /\ at' = "idle" /\ lookups' = lookups + 1
        /\ answer' \in TupleAnswers
        /\ answer' \in [verdict : Verdicts, why : Stages \cup {"whitelist", "greylist"}]
        /\ UNCHANGED <<rules, default, cmdcnt, requests, req, changes>>
    BY DEF CheckTuple, Reply, Verdicts, TupleAnswers
  <1>2. /\ FilterTypeOK /\ CountsConserved /\ DomainsPassed
        /\ requests \in Nat /\ requests \in 0 .. MaxRequests /\ lookups \in Nat
    BY BoundAssumption DEF IInv, FilterTypeOK
  <1>3. CountsConserved' /\ DomainsPassed'
    <2>1. \A x \in {"ip", "from", "fromd", "to", "tod"} :
            /\ Arrived(x) \in Nat /\ Passed(x) \in Nat /\ Stopped(x) \in Nat
            /\ Arrived(x)' = Arrived(x) /\ Passed(x)' = Passed(x) /\ Stopped(x)' = Stopped(x)
      BY <1>1, <1>2, CountTypes DEF Stages, Lists, Arrived, Passed, Stopped
    <2>2. /\ On({"ip"}) = 0 /\ On({"from"}) = 0 /\ On({"fromd", "to"}) = 0
          /\ On({"tod", "tuple"}) = 1 /\ On({"to"}) = 0 /\ On({"tuple"}) = 1
          /\ On({"ip"})' = 0 /\ On({"from"})' = 0 /\ On({"fromd", "to"})' = 0
          /\ On({"tod", "tuple"})' = 0 /\ On({"to"})' = 0 /\ On({"tuple"})' = 0
      BY <1>1 DEF On
    <2> QED BY <1>1, <1>2, <2>1, <2>2 DEF CountsConserved, DomainsPassed
  <1>4. FilterTypeOK'
    <2>1. cmdcnt' \in [Stages -> [Verdicts -> Nat]] /\ requests' \in Nat /\ lookups' \in Nat
      BY <1>1, <1>2 DEF FilterTypeOK
    <2>2. lookups' \in 0 .. requests'
      BY <1>3, <2>1, LookupsBounded
    <2> QED BY <1>1, <1>2, <2>2 DEF FilterTypeOK
  <1>5. Unobjected'
    BY <1>1 DEF Unobjected, Pending, Stages, Lists
  <1>6. FilteredAsDocumented'
    <2>1. ~Objects("ip") /\ ~Objects("from") /\ ~Objects("fromd") /\ ~Objects("to") /\ ~Objects("tod")
      BY <1>1, ObjectsAs DEF IInv, Unobjected, Pending, Stages, Lists
    <2>2. \A x \in Stages : ~Objects(x)'
      BY <1>1, <2>1, SameObjections DEF Stages, Lists
    <2>3. {x \in Stages : Objects(x)'} = {}
      BY <2>2
    <2> QED BY <1>1, <2>3 DEF FilteredAsDocumented
  <1> QED BY <1>3, <1>4, <1>5, <1>6 DEF IInv
-----------------------------------------------------------------------------
(***************************************************************************)
(* Between requests: nothing is pending and no answer is there to judge.   *)
(***************************************************************************)
LEMMA BetweenRequests ==
  ASSUME at' = "idle", answer' = Nothing
  PROVE  Unobjected' /\ FilteredAsDocumented'
  BY DEF Unobjected, FilteredAsDocumented, Pending, Stages, Lists

LEMMA SameCounts ==
  ASSUME CountsConserved, DomainsPassed, UNCHANGED <<counts, at>>
  PROVE  CountsConserved' /\ DomainsPassed'
  BY DEF CountsConserved, DomainsPassed, Arrived, Passed, Stopped, On, counts

LEMMA ChangeStep ==
  ASSUME IInv, NEW list \in Lists, NEW k \in KeysOf[list], NEW v \in Verdicts \cup {NONE},
         Change(list, k, v)
  PROVE  IInv'
  <1>1. /\ at = "idle" /\ at' = "idle" /\ answer' = Nothing
        /\ rules' = [rules EXCEPT ![list][k] = v]
        /\ changes < MaxChanges /\ changes' = changes + 1
        /\ UNCHANGED <<default, counts, cmdcnt, requests, lookups, req, at>>
    BY DEF Change, counts
  <1>2. FilterTypeOK'
    <2>1. FilterTypeOK /\ changes' \in 0 .. MaxChanges
      BY <1>1, BoundAssumption DEF IInv, FilterTypeOK
    <2>2. DOMAIN rules' = Lists
      BY <1>1, <2>1 DEF FilterTypeOK
    <2>3. ASSUME NEW l \in Lists
          PROVE  rules'[l] \in [KeysOf[l] -> Verdicts \cup {NONE}]
      <3>1. CASE l = list
        BY <1>1, <2>1, <3>1 DEF FilterTypeOK
      <3>2. CASE l # list
        BY <1>1, <2>1, <3>2 DEF FilterTypeOK
      <3> QED BY <3>1, <3>2
    <2> QED BY <1>1, <2>1, <2>2, <2>3 DEF FilterTypeOK
  <1> QED BY <1>1, <1>2, BetweenRequests, SameCounts DEF IInv

LEMMA ChangeDefaultStep ==
  ASSUME IInv, NEW list \in Lists, NEW v \in Verdicts, ChangeDefault(list, v)
  PROVE  IInv'
  <1>1. /\ at = "idle" /\ at' = "idle" /\ answer' = Nothing
        /\ default' = [default EXCEPT ![list] = v]
        /\ changes < MaxChanges /\ changes' = changes + 1
        /\ UNCHANGED <<rules, counts, cmdcnt, requests, lookups, req, at>>
    BY DEF ChangeDefault, counts
  <1>2. FilterTypeOK'
    <2>1. FilterTypeOK /\ changes' \in 0 .. MaxChanges
      BY <1>1, BoundAssumption DEF IInv, FilterTypeOK
    <2>2. default' \in [Lists -> Verdicts]
      BY <1>1, <2>1 DEF FilterTypeOK
    <2> QED BY <1>1, <2>1, <2>2 DEF FilterTypeOK
  <1> QED BY <1>1, <1>2, BetweenRequests, SameCounts DEF IInv

LEMMA RestartStep ==
  ASSUME IInv, StartOver
  PROVE  IInv'
  <1>1. /\ at' = "idle" /\ answer' = Nothing /\ requests' = 0 /\ lookups' = 0
        /\ cmdcnt' = [s \in Stages |-> [v \in Verdicts |-> 0]]
        /\ UNCHANGED <<rules, default, req, changes>>
    BY DEF StartOver
  <1>2. FilterTypeOK'
    <2>1. FilterTypeOK
      BY DEF IInv
    <2>2. requests' \in 0 .. MaxRequests /\ lookups' \in 0 .. requests'
      BY <1>1, BoundAssumption
    <2>3. cmdcnt' \in [Stages -> [Verdicts -> Nat]]
      BY <1>1
    <2> QED BY <1>1, <2>1, <2>2, <2>3 DEF FilterTypeOK
  <1>3. CountsConserved' /\ DomainsPassed'
    <2>1. \A x \in {"ip", "from", "fromd", "to", "tod"} :
            Arrived(x)' = 0 /\ Passed(x)' = 0 /\ Stopped(x)' = 0
      BY <1>1 DEF Arrived, Passed, Stopped, Stages, Lists, Verdicts
    <2>2. /\ On({"ip"})' = 0 /\ On({"from"})' = 0 /\ On({"fromd", "to"})' = 0
          /\ On({"tod", "tuple"})' = 0 /\ On({"to"})' = 0 /\ On({"tuple"})' = 0
      BY <1>1 DEF On
    <2> QED BY <1>1, <2>1, <2>2 DEF CountsConserved, DomainsPassed
  <1> QED BY <1>1, <1>2, <1>3, BetweenRequests DEF IInv
-----------------------------------------------------------------------------
(***************************************************************************)
(* Every action preserves the invariant.                                   *)
(***************************************************************************)
LEMMA StepIInv == IInv /\ [FilterNext]_filterVars => IInv'
  <1> SUFFICES ASSUME IInv, [FilterNext]_filterVars PROVE IInv'
    OBVIOUS
  <1>1. CASE \E r \in Request : Receive(r)
    BY <1>1, ReceiveStep
  <1>2. CASE Filtering
    BY <1>2, CheckIPStep, CheckFromStep, CheckFromDomainStep, CheckToStep, CheckToDomainStep,
       CheckTupleStep DEF Filtering
  <1>3. CASE \E list \in Lists : \E k \in KeysOf[list], v \in Verdicts \cup {NONE} :
               Change(list, k, v)
    BY <1>3, ChangeStep
  <1>4. CASE \E list \in Lists, v \in Verdicts : ChangeDefault(list, v)
    BY <1>4, ChangeDefaultStep
  <1>5. CASE StartOver
    BY <1>5, RestartStep
  <1>6. CASE UNCHANGED filterVars
    <2>1. UNCHANGED <<rules, default, cmdcnt, requests, lookups, req, at, answer, changes>>
      BY <1>6 DEF filterVars
    <2>2. FilterTypeOK' /\ CountsConserved' /\ DomainsPassed'
      BY <2>1, SameCounts DEF IInv, FilterTypeOK, counts
    <2>3. \A x : (Objects(x)' <=> Objects(x)) /\ VerdictOf(x)' = VerdictOf(x)
      BY <2>1, SameObjections
    <2>4. Unobjected'
      BY <2>1, <2>3 DEF IInv, Unobjected, Says, HasDomainAsked, Explicit
    <2>5. FilteredAsDocumented'
      BY <2>1, <2>3 DEF IInv, FilteredAsDocumented
    <2> QED BY <2>2, <2>4, <2>5 DEF IInv
  <1> QED BY <1>1, <1>2, <1>3, <1>4, <1>5, <1>6 DEF FilterNext

LEMMA Invariance == FilterSpec => []IInv
  BY InitIInv, StepIInv, PTL DEF FilterSpec

(***************************************************************************)
(* Every verdict is in range and no more tuples are looked up than         *)
(* requests came in.                                                       *)
(***************************************************************************)
THEOREM FiltersTypeCorrect == FilterSpec => []FilterTypeOK
  <1>1. IInv => FilterTypeOK
    BY DEF IInv
  <1> QED BY <1>1, Invariance, PTL

(***************************************************************************)
(* Whatever the rules, the defaults and the request, type_greylist()       *)
(* answers with the very verdict - accept or reject - of the first filter  *)
(* that objects, with a rule for an address keeping its domain from being  *)
(* asked (RUNNING:90-99), and with the tuple's answer if none objects.     *)
(***************************************************************************)
THEOREM AlwaysFilteredAsDocumented == FilterSpec => []FilteredAsDocumented
  <1>1. IInv => FilteredAsDocumented
    BY DEF IInv
  <1> QED BY <1>1, Invariance, PTL

(***************************************************************************)
(* At every moment of a request the counts of type_greylist() add up: what *)
(* a filter counted is what the filters before it let pass.                *)
(***************************************************************************)
THEOREM CountsAlwaysConserved == FilterSpec => []CountsConserved
  <1>1. IInv => CountsConserved
    BY DEF IInv
  <1> QED BY <1>1, Invariance, PTL
-----------------------------------------------------------------------------
(***************************************************************************)
(* The map of tuples that a request reaches, and its invariant: finitely   *)
(* many tuples, none of them from the future.                              *)
(***************************************************************************)
MapInv ==
  /\ TypeOK
  /\ IsFiniteSet(DOMAIN db) /\ db = [k \in DOMAIN db |-> db[k]]
  /\ \A k \in DOMAIN db : db[k].ctime <= now

LEMMA EmptyMap ==
  DOMAIN NoTuple = {} /\ IsFiniteSet({}) /\ Cardinality({}) = 0
  BY FS_EmptySet DEF NoTuple

LEMMA SurvivorFacts ==
  /\ DOMAIN Survivors = {x \in DOMAIN db : ~db[x].doomed /\ ~Stale(db[x])}
  /\ \A k \in DOMAIN Survivors : Survivors[k] = db[k]
  /\ Survivors = [k \in DOMAIN Survivors |-> Survivors[k]]
  BY DEF Survivors

(***************************************************************************)
(* When the map is full, making room leaves fewer tuples, all unchanged.   *)
(***************************************************************************)
LEMMA RoomFacts ==
  ASSUME MapInv
  PROVE  /\ DOMAIN MadeRoom \subseteq DOMAIN db
         /\ \A k \in DOMAIN MadeRoom : MadeRoom[k] = db[k]
         /\ IsFiniteSet(DOMAIN MadeRoom) /\ Cardinality(DOMAIN MadeRoom) < Capacity
  <1>0. /\ IsFiniteSet(DOMAIN db) /\ Cardinality(DOMAIN db) \in Nat
        /\ Cardinality(DOMAIN db) <= Capacity /\ Capacity \in Nat \ {0}
    BY FS_CardinalityType, SizeAssumption DEF MapInv, TypeOK, Sized
  <1>1. CASE ~Full
    BY <1>0, <1>1 DEF MadeRoom, Full
  <1>2. CASE Full /\ Survivors = db
    BY <1>0, <1>2, EmptyMap DEF MadeRoom
  <1>3. CASE Full /\ Survivors # db
    <2>1. MadeRoom = Survivors
      BY <1>3 DEF MadeRoom
    <2>2. DOMAIN Survivors \subseteq DOMAIN db /\ \A k \in DOMAIN Survivors : Survivors[k] = db[k]
      BY SurvivorFacts
    <2>3. DOMAIN Survivors # DOMAIN db
      BY <1>3, <2>2, SurvivorFacts DEF MapInv
    <2>4. /\ IsFiniteSet(DOMAIN Survivors)
          /\ Cardinality(DOMAIN Survivors) < Cardinality(DOMAIN db)
      BY <1>0, <2>2, <2>3, FS_Subset, FS_CardinalityType
    <2> QED BY <1>0, <2>1, <2>2, <2>4, FS_CardinalityType
  <1> QED BY <1>1, <1>2, <1>3

(***************************************************************************)
(* A tuple is added where there is room.                                   *)
(***************************************************************************)
LEMMA AddFacts ==
  ASSUME MapInv, NEW k \in Key, NEW t \in Tuple, t.ctime = now, db' = Put(MadeRoom, k, t),
         now' = now
  PROVE  /\ k \in DOMAIN db' /\ db'[k] = t
         /\ \A x \in DOMAIN db' : x # k => x \in DOMAIN db /\ db'[x] = db[x]
         /\ IsFiniteSet(DOMAIN db') /\ Cardinality(DOMAIN db') <= Capacity
         /\ DOMAIN db' \subseteq Key /\ db' = [x \in DOMAIN db' |-> db'[x]]
         /\ \A x \in DOMAIN db' : db'[x] \in Tuple /\ db'[x].ctime <= now
  <1> DEFINE d == MadeRoom
  <1>1. /\ DOMAIN d \subseteq DOMAIN db /\ \A x \in DOMAIN d : d[x] = db[x]
        /\ IsFiniteSet(DOMAIN d) /\ Cardinality(DOMAIN d) < Capacity
    BY RoomFacts
  <1> HIDE DEF d
  <1>2. db' = [x \in DOMAIN d \cup {k} |-> IF x = k THEN t ELSE d[x]]
    BY DEF Put, d
  <1>3. DOMAIN db' = DOMAIN d \cup {k}
    BY <1>2
  <1>4. IsFiniteSet(DOMAIN db') /\ Cardinality(DOMAIN db') <= Capacity
    <2>1. /\ IsFiniteSet(DOMAIN d \cup {k})
          /\ Cardinality(DOMAIN d \cup {k}) = Cardinality(DOMAIN d)
               \/ Cardinality(DOMAIN d \cup {k}) = Cardinality(DOMAIN d) + 1
      BY <1>1, FS_AddElement
    <2>2. Cardinality(DOMAIN d) \in Nat /\ Capacity \in Nat
      BY <1>1, FS_CardinalityType, SizeAssumption DEF Sized
    <2> QED BY <1>1, <1>3, <2>1, <2>2
  <1>5. /\ k \in DOMAIN db' /\ db'[k] = t
        /\ \A x \in DOMAIN db' : x # k => x \in DOMAIN db /\ db'[x] = db[x]
    BY <1>1, <1>2, <1>3
  <1>6. now \in Int /\ now <= now
    BY SizeAssumption DEF MapInv, TypeOK, Time, Sized
  <1>7. \A x \in DOMAIN db' : db'[x] \in Tuple /\ db'[x].ctime <= now
    BY <1>5, <1>6 DEF MapInv, TypeOK
  <1>8. db' = [x \in DOMAIN db' |-> db'[x]]
    BY <1>2
  <1> QED BY <1>3, <1>4, <1>5, <1>7, <1>8 DEF MapInv, TypeOK

(***************************************************************************)
(* The invariant of the map                                                *)
(***************************************************************************)
LEMMA SavedRecord ==
  ASSUME NEW A \in SUBSET Key, NEW b \in BOOLEAN
  PROVE  [keys |-> A, whole |-> b] \in SavedFile
  BY DEF SavedFile

LEMMA InitMap == Init => MapInv
  <1> SUFFICES ASSUME Init PROVE MapInv
    OBVIOUS
  <1>1. Capacity \in Nat /\ 0 \in Time
    BY SizeAssumption DEF Sized, Time
  <1>2. saved \in SavedFile /\ pending \in SUBSET Key
    BY DEF Init, SavedFile
  <1> QED BY <1>1, <1>2, EmptyMap DEF Init, MapInv, TypeOK, NoTuple

LEMMA FreshTuple ==
  ASSUME TypeOK, NEW w \in BOOLEAN
  PROVE  [ctime |-> now, atime |-> now, white |-> w, doomed |-> FALSE] \in Tuple
  BY DEF TypeOK, Tuple

(* a tuple is rewritten, its creation time stays *)
LEMMA RewriteFacts ==
  ASSUME MapInv, NEW k \in DOMAIN db, NEW t \in Tuple, t.ctime = db[k].ctime,
         db' = [db EXCEPT ![k] = t], now' = now
  PROVE  /\ DOMAIN db' = DOMAIN db /\ db'[k] = t
         /\ \A x \in DOMAIN db : x # k => db'[x] = db[x]
         /\ db' = [x \in DOMAIN db' |-> db'[x]]
         /\ \A x \in DOMAIN db' : db'[x] \in Tuple /\ db'[x].ctime <= now
  BY DEF MapInv, TypeOK

LEMMA LoadMap == ASSUME MapInv, NEW k \in Key, Load(k) PROVE MapInv'
  <1>1. /\ TypeOK /\ now' = now /\ UNCHANGED <<saved, serving, reply>>
        /\ pending' \subseteq pending
    BY DEF MapInv, Load
  <1>2. CASE Has(k)
    <2> DEFINE t == [db[k] EXCEPT !.atime = now, !.white = TRUE]
    <2>1. t \in Tuple /\ t.ctime = db[k].ctime
      BY <1>1, <1>2 DEF TypeOK, Tuple, Has
    <2>2. db' = [db EXCEPT ![k] = t]
      BY <1>2 DEF Load
    <2> HIDE DEF t
    <2> QED BY <1>1, <1>2, <2>1, <2>2, RewriteFacts DEF MapInv, TypeOK, Has
  <1>3. CASE ~Has(k)
    <2> DEFINE t == [ctime |-> now, atime |-> now, white |-> TRUE, doomed |-> FALSE]
    <2>1. t \in Tuple /\ t.ctime = now
      BY <1>1, FreshTuple
    <2>2. db' = Put(MadeRoom, k, t)
      BY <1>3 DEF Load
    <2> HIDE DEF t
    <2> QED BY <1>1, <2>1, <2>2, AddFacts DEF MapInv, TypeOK
  <1> QED BY <1>2, <1>3

LEMMA AskAgainMap ==
  ASSUME MapInv, NEW k \in Key, NEW cmd, AskAgain(k, cmd)
  PROVE  /\ MapInv' /\ DOMAIN db' = DOMAIN db /\ now' = now /\ serving' = serving
         /\ db'[k].ctime = db[k].ctime /\ db'[k].atime = now
         /\ db'[k].white = Promoted(k, cmd)
         /\ \A x \in DOMAIN db : x # k => db'[x] = db[x]
  <1> DEFINE w == Promoted(k, cmd)
             t == [db[k] EXCEPT !.atime = now, !.white = w]
  <1>1. w \in BOOLEAN
    BY DEF Promoted
  <1>2. /\ k \in DOMAIN db /\ db' = [db EXCEPT ![k] = t]
        /\ UNCHANGED <<now, saved, pending, serving>> /\ reply' \in {"accept", "greylist"}
    BY DEF AskAgain, Has
  <1> HIDE DEF w
  <1>3. t \in Tuple /\ t.ctime = db[k].ctime /\ t.atime = now /\ t.white = w
    BY <1>1, <1>2 DEF MapInv, TypeOK, Tuple
  <1> HIDE DEF t
  <1>4. /\ DOMAIN db' = DOMAIN db /\ db'[k] = t
        /\ \A x \in DOMAIN db : x # k => db'[x] = db[x]
        /\ db' = [x \in DOMAIN db' |-> db'[x]]
        /\ \A x \in DOMAIN db' : db'[x] \in Tuple /\ db'[x].ctime <= now
    BY <1>2, <1>3, RewriteFacts
  <1>5. MapInv'
    BY <1>2, <1>4 DEF MapInv, TypeOK
  <1> QED BY <1>2, <1>3, <1>4, <1>5 DEF w

LEMMA AskFirstMap ==
  ASSUME MapInv, NEW k \in Key, NEW cmd, AskFirst(k, cmd)
  PROVE  /\ MapInv' /\ now' = now /\ serving' = serving
         /\ k \in DOMAIN db' /\ db'[k].ctime = now /\ db'[k].atime = now
         /\ db'[k].white <=> cmd = "CMD_WHITELIST"
         /\ \A x \in DOMAIN db' : x # k => x \in DOMAIN db /\ db'[x] = db[x]
  <1> DEFINE w == cmd = "CMD_WHITELIST"
             t == [ctime |-> now, atime |-> now, white |-> w, doomed |-> FALSE]
  <1>1. t \in Tuple /\ t.ctime = now
    <2>1. w \in BOOLEAN
      OBVIOUS
    <2> HIDE DEF w
    <2> QED BY <2>1, FreshTuple DEF MapInv
  <1>2. /\ db' = Put(MadeRoom, k, t)
        /\ UNCHANGED <<now, saved, pending, serving>> /\ reply' \in {"accept", "greylist"}
    BY DEF AskFirst
  <1>3. t.atime = now /\ t.white = w
    OBVIOUS
  <1> HIDE DEF t
  <1>4. /\ k \in DOMAIN db' /\ db'[k] = t
        /\ \A x \in DOMAIN db' : x # k => x \in DOMAIN db /\ db'[x] = db[x]
        /\ IsFiniteSet(DOMAIN db') /\ Cardinality(DOMAIN db') <= Capacity
        /\ DOMAIN db' \subseteq Key /\ db' = [x \in DOMAIN db' |-> db'[x]]
        /\ \A x \in DOMAIN db' : db'[x] \in Tuple /\ db'[x].ctime <= now
    BY <1>1, <1>2, AddFacts
  <1>5. MapInv'
    BY <1>2, <1>4 DEF MapInv, TypeOK
  <1> QED BY <1>1, <1>2, <1>3, <1>4, <1>5

LEMMA SweepMap == ASSUME MapInv, Sweep PROVE MapInv'
  <1>1. /\ DOMAIN Survivors \subseteq DOMAIN db
        /\ \A k \in DOMAIN Survivors : Survivors[k] = db[k]
        /\ Survivors = [k \in DOMAIN Survivors |-> Survivors[k]]
    BY SurvivorFacts
  <1>2. IsFiniteSet(DOMAIN Survivors) /\ Cardinality(DOMAIN Survivors) <= Cardinality(DOMAIN db)
    BY <1>1, FS_Subset DEF MapInv
  <1>3. /\ Cardinality(DOMAIN Survivors) \in Nat /\ Cardinality(DOMAIN db) \in Nat
        /\ Capacity \in Nat /\ Cardinality(DOMAIN db) <= Capacity
    BY <1>2, FS_CardinalityType, SizeAssumption DEF MapInv, TypeOK, Sized
  <1>4. db' = Survivors /\ UNCHANGED <<now, saved, pending, serving>> /\ reply' = "none"
    BY DEF Sweep
  <1>5. Cardinality(DOMAIN Survivors) <= Capacity
    BY <1>2, <1>3
  <1> HIDE DEF Survivors
  <1> QED BY <1>1, <1>2, <1>4, <1>5 DEF MapInv, TypeOK

LEMMA RemoveMap ==
  ASSUME MapInv, NEW k \in Key, Remove(k)
  PROVE  /\ MapInv' /\ DOMAIN db' = DOMAIN db /\ UNCHANGED <<now, serving>>
         /\ \A x \in DOMAIN db : /\ db'[x].ctime = db[x].ctime /\ db'[x].atime = db[x].atime
                                 /\ db'[x].white = db[x].white
  <1> DEFINE t == [db[k] EXCEPT !.doomed = TRUE]
  <1>1. /\ k \in DOMAIN db /\ db' = [db EXCEPT ![k] = t]
        /\ UNCHANGED <<now, saved, pending, serving>> /\ reply' = "none"
    BY DEF Remove, Has
  <1>2. /\ t \in Tuple /\ t.ctime = db[k].ctime /\ t.atime = db[k].atime
        /\ t.white = db[k].white
    BY <1>1 DEF MapInv, TypeOK, Tuple
  <1> HIDE DEF t
  <1>3. /\ DOMAIN db' = DOMAIN db /\ db'[k] = t
        /\ \A x \in DOMAIN db : x # k => db'[x] = db[x]
        /\ db' = [x \in DOMAIN db' |-> db'[x]]
        /\ \A x \in DOMAIN db' : db'[x] \in Tuple /\ db'[x].ctime <= now
    BY <1>1, <1>2, RewriteFacts
  <1>4. MapInv'
    BY <1>1, <1>3 DEF MapInv, TypeOK
  <1> QED BY <1>1, <1>2, <1>3, <1>4

LEMMA StopMap == ASSUME MapInv, Stop PROVE MapInv' /\ db' = NoTuple /\ serving' = "down" /\ now' = now
  <1>1. /\ db' = NoTuple /\ pending' = {} /\ reply' = "none" /\ serving' = "down" /\ now' = now
        /\ saved' = saved \/ saved' = [keys |-> Worthy, whole |-> TRUE]
    BY DEF Stop
  <1>2. Worthy \in SUBSET Key /\ Capacity \in Nat
    BY SizeAssumption DEF Worthy, MapInv, TypeOK, Sized
  <1>3. saved' \in SavedFile
    BY <1>1, <1>2, SavedRecord DEF MapInv, TypeOK
  <1> QED BY <1>1, <1>2, <1>3, EmptyMap DEF MapInv, TypeOK, NoTuple

LEMMA IdleMap ==
  ASSUME MapInv, Ready \/ Save \/ SaveCut \/ Restart \/ UNCHANGED vars
  PROVE  MapInv' /\ UNCHANGED <<db, now>>
  <1>1. Worthy \in SUBSET Key /\ saved.keys \in SUBSET Key
    BY DEF Worthy, MapInv, TypeOK, SavedFile
  <1>2. /\ UNCHANGED <<db, now>>
        /\ serving' \in {"loading", "up", "down"} /\ reply' \in {"none", "accept", "greylist"}
    BY DEF MapInv, TypeOK, Ready, Save, SaveCut, Restart, vars
  <1>3. pending' \in SUBSET Key
    BY <1>1 DEF MapInv, TypeOK, Ready, Save, SaveCut, Restart, vars
  <1>4. saved' \in SavedFile
    BY <1>1, SavedRecord DEF MapInv, TypeOK, Ready, Save, SaveCut, Restart, vars
  <1> QED BY <1>2, <1>3, <1>4 DEF MapInv, TypeOK

LEMMA TickMap ==
  ASSUME MapInv, Tick
  PROVE  MapInv' /\ now \in Nat /\ now' = now + 1 /\ UNCHANGED <<db, serving>> /\ serving = "up"
  <1>1. UNCHANGED <<db, saved, pending, serving, reply>> /\ now' = now + 1 /\ now < MaxTime /\ serving = "up"
    BY DEF Tick
  <1>2. now \in Nat /\ now' \in Time
    BY <1>1, SizeAssumption DEF MapInv, TypeOK, Time, Sized
  <1>3. \A k \in DOMAIN db : db[k].ctime \in Nat /\ db[k].ctime <= now'
    BY <1>1, <1>2, SizeAssumption DEF MapInv, TypeOK, Time, Tuple, Sized
  <1>4. MapInv'
    BY <1>1, <1>2, <1>3 DEF MapInv, TypeOK
  <1> QED BY <1>1, <1>2, <1>4

LEMMA StepMap == MapInv /\ [Next]_vars => MapInv'
  <1> SUFFICES ASSUME MapInv, [Next]_vars PROVE MapInv'
    OBVIOUS
  <1>1. ASSUME NEW k \in Key, Load(k) \/ Remove(k) PROVE MapInv'
    BY <1>1, LoadMap, RemoveMap
  <1>2. ASSUME NEW k \in Key, NEW cmd \in Command, AskAgain(k, cmd) \/ AskFirst(k, cmd) PROVE MapInv'
    BY <1>2, AskAgainMap, AskFirstMap
  <1>3. CASE Sweep \/ Stop \/ Tick
    BY <1>3, SweepMap, StopMap, TickMap
  <1>4. CASE Ready \/ Save \/ SaveCut \/ Restart \/ UNCHANGED vars
    BY <1>4, IdleMap
  <1> QED BY <1>1, <1>2, <1>3, <1>4 DEF Next

LEMMA MapInvariance == Spec => []MapInv
  BY InitMap, StepMap, PTL DEF Spec

(***************************************************************************)
(* The map never outgrows the pool.                                        *)
(***************************************************************************)
THEOREM TypeCorrect == Spec => []TypeOK
  <1>1. MapInv => TypeOK
    BY DEF MapInv
  <1> QED BY <1>1, MapInvariance, PTL
-----------------------------------------------------------------------------
(***************************************************************************)
(* The inductive invariant that ties what a sender did to what is stored   *)
(* about it.                                                               *)
(***************************************************************************)
Dates == Time \cup {Never}

(* no attempt is remembered that is still to come *)
Dated ==
  /\ first \in [Key -> Dates] /\ last \in [Key -> Dates] /\ ever \in [Key -> Dates]
  /\ \A k \in Key : ever[k] <= now

(* a tuple nobody vouched for is no older than its first attempt, and is   *)
(* white only when that was an embargo ago                                 *)
KnownSinceEver ==
  \A k \in DOMAIN db :
    \/ k \in vouched
    \/ /\ ever[k] # Never /\ ever[k] <= db[k].ctime
       /\ db[k].white => now - ever[k] >= Embargo

(* while a series lasts its tuple is there, as old as the series at least, *)
(* and was last used at its last attempt or later                          *)
SeriesStored ==
  \A k \in Key :
    InSeries(k) => k \in DOMAIN db /\ db[k].ctime <= first[k] /\ last[k] <= db[k].atime

(* a series does not survive the process *)
SeriesOnlyWhenUp == serving # "up" => \A k \in Key : first[k] = Never

ViewInv == MapInv /\ Dated /\ KnownSinceEver /\ SeriesStored /\ SeriesOnlyWhenUp

LEMMA Numbers ==
  ASSUME MapInv
  PROVE  /\ now \in Nat /\ Time \subseteq Nat /\ now \in Time /\ Never \in Int /\ Never = -1
         /\ Embargo \in Nat /\ GreyTimeout \in Nat /\ WhiteTimeout \in Nat /\ GreyTimeout <= WhiteTimeout
         /\ \A k \in DOMAIN db : /\ db[k].ctime \in Nat /\ db[k].atime \in Nat /\ db[k].ctime <= now
                                 /\ db[k].white \in BOOLEAN /\ k \in Key
  BY SizeAssumption, TimeoutAssumption DEF MapInv, TypeOK, Time, Sized, Never, Tuple

LEMMA InitView == ViewInit => ViewInv
  <1> SUFFICES ASSUME ViewInit PROVE ViewInv
    OBVIOUS
  <1>1. MapInv
    BY InitMap DEF ViewInit
  <1>2. Never \in Dates /\ Never <= now
    BY <1>1, Numbers DEF Dates
  <1>3. Dated
    BY <1>2 DEF ViewInit, Dated
  <1>4. \A k \in Key : first[k] = Never
    BY DEF ViewInit
  <1>5. DOMAIN db = {}
    BY EmptyMap DEF ViewInit, Init
  <1> QED BY <1>1, <1>3, <1>4, <1>5 DEF ViewInv, KnownSinceEver, SeriesStored, SeriesOnlyWhenUp, InSeries

(***************************************************************************)
(* A key in the middle of a series is not thrown away by a sweep.          *)
(***************************************************************************)
LEMMA SeriesFresh ==
  ASSUME ViewInv, NEW k \in Key, InSeries(k)
  PROVE  k \in DOMAIN db /\ ~Stale(db[k])
  <1>1. k \in DOMAIN db /\ last[k] <= db[k].atime /\ now - last[k] <= GreyTimeout
    BY DEF ViewInv, SeriesStored, InSeries
  <1>2. last[k] \in Int /\ now \in Int /\ db[k].atime \in Int /\ GreyTimeout \in Int
        /\ WhiteTimeout \in Int /\ GreyTimeout <= WhiteTimeout
    BY <1>1, Numbers DEF ViewInv, Dated, Dates
  <1>3. now - db[k].atime <= GreyTimeout /\ now - db[k].atime <= WhiteTimeout
    BY <1>1, <1>2
  <1> QED BY <1>1, <1>2, <1>3 DEF Stale

LEMMA SeriesKept ==
  ASSUME ViewInv, NEW k \in Key, now' \in Nat, now <= now',
         first'[k] = Forget(first)[k], last'[k] = Forget(last)[k],
         k \in DOMAIN db' => /\ k \in DOMAIN db
                             /\ db'[k].ctime = db[k].ctime /\ db'[k].atime = db[k].atime
  PROVE  InSeries(k)' => k \in DOMAIN db' /\ db'[k].ctime <= first'[k] /\ last'[k] <= db'[k].atime
  <1> SUFFICES ASSUME InSeries(k)'
               PROVE  k \in DOMAIN db' /\ db'[k].ctime <= first'[k] /\ last'[k] <= db'[k].atime
    OBVIOUS
  <1>1. /\ first'[k] # Never /\ now' - last'[k] <= GreyTimeout
    BY DEF InSeries
  <1>2. k \notin Lost /\ first'[k] = first[k] /\ last'[k] = last[k]
    BY <1>1 DEF Forget
  <1>3. InSeries(k)
    <2>1. last[k] \in Int /\ now \in Int /\ GreyTimeout \in Int
      BY Numbers DEF ViewInv, Dated, Dates
    <2> QED BY <1>1, <1>2, <2>1 DEF InSeries
  <1>4. k \in DOMAIN db'
    BY <1>2, <1>3, SeriesFresh DEF Lost
  <1> QED BY <1>2, <1>3, <1>4 DEF ViewInv, SeriesStored

LEMMA KnownKept ==
  ASSUME ViewInv, NEW k, k \in DOMAIN db, now' \in Nat, now <= now',
         db'[k].ctime = db[k].ctime, db'[k].white = db[k].white,
         k \in vouched => k \in vouched', ever[k] # Never => ever'[k] = ever[k]
  PROVE  \/ k \in vouched'
         \/ /\ ever'[k] # Never /\ ever'[k] <= db'[k].ctime
            /\ db'[k].white => now' - ever'[k] >= Embargo
  <1>1. ever[k] \in Int /\ now \in Int /\ Embargo \in Int
    BY Numbers DEF ViewInv, Dated, Dates
  <1> QED BY <1>1 DEF ViewInv, KnownSinceEver
-----------------------------------------------------------------------------
(***************************************************************************)
(* What a load does to the map                                             *)
(***************************************************************************)
LEMMA LoadEffect ==
  ASSUME MapInv, NEW k \in Key, Load(k)
  PROVE  /\ now' = now /\ serving = "loading" /\ serving' = serving
         /\ \A x \in DOMAIN db' : x # k => x \in DOMAIN db /\ db'[x] = db[x]
  <1>1. now' = now /\ serving = "loading" /\ serving' = serving
    BY DEF Load
  <1>2. CASE Has(k)
    <2>1. DOMAIN db' = DOMAIN db /\ \A x \in DOMAIN db : x # k => db'[x] = db[x]
      BY <1>2 DEF Load
    <2> QED BY <1>1, <2>1
  <1>3. CASE ~Has(k)
    <2> DEFINE t == [ctime |-> now, atime |-> now, white |-> TRUE, doomed |-> FALSE]
    <2>1. t \in Tuple /\ t.ctime = now
      BY FreshTuple DEF MapInv
    <2>2. db' = Put(MadeRoom, k, t)
      BY <1>3 DEF Load
    <2> HIDE DEF t
    <2> QED BY <1>1, <2>1, <2>2, AddFacts
  <1> QED BY <1>2, <1>3

LEMMA LoadViewStep == ASSUME ViewInv, NEW k \in Key, LoadView(k) PROVE ViewInv'
  <1>1. /\ Load(k) /\ vouched' = (vouched \cap DOMAIN db') \cup {k}
        /\ UNCHANGED <<first, last, ever>>
    BY DEF LoadView
  <1>2. /\ MapInv /\ now' = now /\ serving = "loading" /\ serving' = serving
        /\ \A x \in DOMAIN db' : x # k => x \in DOMAIN db /\ db'[x] = db[x]
    BY <1>1, LoadEffect DEF ViewInv
  <1>3. MapInv'
    BY <1>1, <1>2, LoadMap
  <1>4. Dated'
    BY <1>1, <1>2 DEF ViewInv, Dated
  <1>5. (\A x \in Key : first[x] = Never) /\ (\A x \in Key : first'[x] = Never)
    BY <1>1, <1>2 DEF ViewInv, SeriesOnlyWhenUp
  <1>6. SeriesStored' /\ SeriesOnlyWhenUp'
    BY <1>5 DEF SeriesStored, SeriesOnlyWhenUp, InSeries
  <1>7. KnownSinceEver'
    <2> SUFFICES ASSUME NEW x \in DOMAIN db'
                 PROVE  \/ x \in vouched'
                        \/ /\ ever'[x] # Never /\ ever'[x] <= db'[x].ctime
                           /\ db'[x].white => now' - ever'[x] >= Embargo
      BY DEF KnownSinceEver
    <2>1. CASE x = k
      BY <1>1, <2>1
    <2>2. CASE x # k
      <3>1. now' \in Nat /\ now <= now'
        BY <1>2, Numbers
      <3> QED BY <1>1, <1>2, <2>2, <3>1, KnownKept
    <2> QED BY <2>1, <2>2
  <1> QED BY <1>3, <1>4, <1>6, <1>7 DEF ViewInv

(***************************************************************************)
(* The memory of an attempt                                                *)
(***************************************************************************)
LEMMA AskMemory ==
  ASSUME ViewInv, NEW k \in Key, NEW cmd \in Command, Ask(k, cmd), now' = now, serving' = serving
  PROVE  /\ Dated'
         /\ first'[k] = (IF InSeries(k) THEN first[k] ELSE now) /\ last'[k] = now
         /\ ever'[k] # Never /\ ever'[k] <= now /\ (ever[k] # Never => ever'[k] = ever[k])
         /\ \A x \in Key : x # k => /\ first'[x] = Forget(first)[x] /\ last'[x] = Forget(last)[x]
                                    /\ ever'[x] = ever[x]
  <1>1. /\ first' = [Forget(first) EXCEPT ![k] = IF InSeries(k) THEN first[k] ELSE now]
        /\ last'  = [Forget(last) EXCEPT ![k] = now]
        /\ ever'  = IF ever[k] = Never THEN [ever EXCEPT ![k] = now] ELSE ever
    BY DEF Ask
  <1>2. /\ first \in [Key -> Dates] /\ last \in [Key -> Dates] /\ ever \in [Key -> Dates]
        /\ \A x \in Key : ever[x] <= now
        /\ now \in Dates /\ Never \in Dates /\ now # Never /\ now <= now
    BY Numbers DEF ViewInv, Dated, Dates
  <1>3. Forget(first) \in [Key -> Dates] /\ Forget(last) \in [Key -> Dates]
    BY <1>2 DEF Forget
  <1> QED BY <1>1, <1>2, <1>3 DEF Dated

LEMMA AskAgainView ==
  ASSUME ViewInv, NEW k \in Key, NEW cmd \in Command, Ask(k, cmd), AskAgain(k, cmd)
  PROVE  ViewInv'
  <1>1. /\ MapInv' /\ DOMAIN db' = DOMAIN db /\ now' = now /\ serving' = serving
        /\ db'[k].ctime = db[k].ctime /\ db'[k].atime = now
        /\ db'[k].white = Promoted(k, cmd)
        /\ \A x \in DOMAIN db : x # k => db'[x] = db[x]
        /\ k \in DOMAIN db
    BY AskAgainMap DEF ViewInv, AskAgain, Has
  <1>2. now \in Nat /\ now' \in Nat /\ now <= now' /\ db[k].ctime \in Nat /\ db[k].ctime <= now
        /\ Embargo \in Nat
    BY <1>1, Numbers DEF ViewInv
  <1>3. /\ Dated'
        /\ first'[k] = (IF InSeries(k) THEN first[k] ELSE now) /\ last'[k] = now
        /\ ever'[k] # Never /\ ever'[k] <= now /\ (ever[k] # Never => ever'[k] = ever[k])
        /\ \A x \in Key : x # k => /\ first'[x] = Forget(first)[x] /\ last'[x] = Forget(last)[x]
                                   /\ ever'[x] = ever[x]
    BY <1>1, AskMemory
  <1>4. vouched' = (vouched \cap DOMAIN db) \cup (IF cmd = "CMD_WHITELIST" THEN {k} ELSE {})
    BY <1>1 DEF Ask
  <1>5. KnownSinceEver'
    <2> SUFFICES ASSUME NEW x \in DOMAIN db
                 PROVE  \/ x \in vouched'
                        \/ /\ ever'[x] # Never /\ ever'[x] <= db'[x].ctime
                           /\ db'[x].white => now' - ever'[x] >= Embargo
      BY <1>1 DEF KnownSinceEver
    <2>0. x \in Key
      BY Numbers DEF ViewInv
    <2>1. CASE x # k
      BY <1>1, <1>2, <1>3, <1>4, <2>0, <2>1, KnownKept
    <2>2. CASE x = k /\ (k \in vouched \/ cmd = "CMD_WHITELIST")
      BY <1>4, <2>2
    <2>3. CASE x = k /\ k \notin vouched /\ cmd # "CMD_WHITELIST"
      <3>1. /\ ever[k] # Never /\ ever[k] <= db[k].ctime
            /\ db[k].white => now - ever[k] >= Embargo
        BY <2>3 DEF ViewInv, KnownSinceEver
      <3>2. ever[k] \in Int
        BY Numbers DEF ViewInv, Dated, Dates
      <3>3. Promoted(k, cmd) => db[k].white \/ now - db[k].ctime >= Embargo
        BY <2>3 DEF Promoted
      <3>4. Promoted(k, cmd) => now - ever[k] >= Embargo
        BY <1>2, <3>1, <3>2, <3>3
      <3> QED BY <1>1, <1>3, <2>3, <3>1, <3>4
    <2> QED BY <2>1, <2>2, <2>3
  <1>6. SeriesStored'
    <2> SUFFICES ASSUME NEW x \in Key
                 PROVE  InSeries(x)' => x \in DOMAIN db' /\ db'[x].ctime <= first'[x] /\ last'[x] <= db'[x].atime
      BY DEF SeriesStored
    <2>1. CASE x # k
      BY <1>1, <1>2, <1>3, <2>1, SeriesKept
    <2>2. CASE x = k /\ InSeries(k)
      BY <1>1, <1>2, <1>3, <2>2 DEF ViewInv, SeriesStored
    <2>3. CASE x = k /\ ~InSeries(k)
      BY <1>1, <1>2, <1>3, <2>3
    <2> QED BY <2>1, <2>2, <2>3
  <1>7. SeriesOnlyWhenUp'
    BY <1>1 DEF SeriesOnlyWhenUp, AskAgain
  <1> QED BY <1>1, <1>3, <1>5, <1>6, <1>7 DEF ViewInv

LEMMA AskFirstView ==
  ASSUME ViewInv, NEW k \in Key, NEW cmd \in Command, Ask(k, cmd), AskFirst(k, cmd)
  PROVE  ViewInv'
  <1>1. /\ MapInv' /\ now' = now /\ serving' = serving
        /\ k \in DOMAIN db' /\ db'[k].ctime = now /\ db'[k].atime = now
        /\ db'[k].white <=> cmd = "CMD_WHITELIST"
        /\ \A x \in DOMAIN db' : x # k => x \in DOMAIN db /\ db'[x] = db[x]
        /\ k \notin DOMAIN db
    <2>1. MapInv /\ k \notin DOMAIN db
      BY DEF ViewInv, AskFirst, Has
    <2> QED BY <2>1, AskFirstMap
  <1>2. now \in Nat /\ now' \in Nat /\ now <= now'
    BY <1>1, Numbers DEF ViewInv
  <1>3. /\ Dated'
        /\ first'[k] = (IF InSeries(k) THEN first[k] ELSE now) /\ last'[k] = now
        /\ ever'[k] # Never /\ ever'[k] <= now
        /\ \A x \in Key : x # k => /\ first'[x] = Forget(first)[x] /\ last'[x] = Forget(last)[x]
                                   /\ ever'[x] = ever[x]
    BY <1>1, AskMemory
  <1>4. ~InSeries(k)
    BY <1>1 DEF ViewInv, SeriesStored
  <1>5. vouched' = (vouched \cap DOMAIN db') \cup (IF cmd = "CMD_WHITELIST" THEN {k} ELSE {})
    BY DEF Ask
  <1>6. KnownSinceEver'
    <2> SUFFICES ASSUME NEW x \in DOMAIN db'
                 PROVE  \/ x \in vouched'
                        \/ /\ ever'[x] # Never /\ ever'[x] <= db'[x].ctime
                           /\ db'[x].white => now' - ever'[x] >= Embargo
      BY DEF KnownSinceEver
    <2>1. CASE x # k
      <3>1. x \in Key
        BY <1>1, <2>1, Numbers DEF ViewInv
      <3> QED BY <1>1, <1>2, <1>3, <1>5, <2>1, <3>1, KnownKept
    <2>2. CASE x = k
      BY <1>1, <1>3, <1>5, <2>2
    <2> QED BY <2>1, <2>2
  <1>7. SeriesStored'
    <2> SUFFICES ASSUME NEW x \in Key
                 PROVE  InSeries(x)' => x \in DOMAIN db' /\ db'[x].ctime <= first'[x] /\ last'[x] <= db'[x].atime
      BY DEF SeriesStored
    <2>1. CASE x # k
      BY <1>1, <1>2, <1>3, <2>1, SeriesKept
    <2>2. CASE x = k
      BY <1>1, <1>2, <1>3, <1>4, <2>2
    <2> QED BY <2>1, <2>2
  <1>8. SeriesOnlyWhenUp'
    BY <1>1 DEF SeriesOnlyWhenUp, AskFirst
  <1> QED BY <1>1, <1>3, <1>6, <1>7, <1>8 DEF ViewInv

LEMMA OtherEffect ==
  ASSUME MapInv, Other
  PROVE  /\ MapInv' /\ now \in Nat /\ now' \in Nat /\ now <= now'
         /\ \A x \in DOMAIN db' : /\ x \in DOMAIN db
                                  /\ db'[x].ctime = db[x].ctime /\ db'[x].atime = db[x].atime
                                  /\ db'[x].white = db[x].white
  <1>0. now \in Nat /\ now <= now
    BY Numbers
  <1>1. ASSUME NEW k \in Key, Remove(k)
        PROVE  /\ MapInv' /\ now' = now
               /\ \A x \in DOMAIN db' : /\ x \in DOMAIN db
                                        /\ db'[x].ctime = db[x].ctime /\ db'[x].atime = db[x].atime
                                        /\ db'[x].white = db[x].white
    BY <1>1, RemoveMap
  <1>2. CASE Sweep
    <2>1. /\ DOMAIN Survivors \subseteq DOMAIN db
          /\ \A k \in DOMAIN Survivors : Survivors[k] = db[k]
          /\ db' = Survivors /\ now' = now /\ MapInv'
      BY <1>2, SurvivorFacts, SweepMap DEF Sweep
    <2> HIDE DEF Survivors
    <2> QED BY <1>0, <2>1
  <1>3. CASE Stop
    BY <1>0, <1>3, StopMap, EmptyMap
  <1>4. CASE Ready \/ Save \/ SaveCut \/ Restart
    BY <1>0, <1>4, IdleMap
  <1>5. CASE Tick
    BY <1>5, TickMap
  <1> QED BY <1>0, <1>1, <1>2, <1>3, <1>4, <1>5 DEF Other

LEMMA OtherView ==
  ASSUME ViewInv, Other
  PROVE  ViewInv'
  <1>1. /\ MapInv' /\ now \in Nat /\ now' \in Nat /\ now <= now'
        /\ \A x \in DOMAIN db' : /\ x \in DOMAIN db /\ x \in Key
                                 /\ db'[x].ctime = db[x].ctime /\ db'[x].atime = db[x].atime
                                 /\ db'[x].white = db[x].white
    BY OtherEffect, Numbers DEF ViewInv
  <1>2. /\ first' = Forget(first) /\ last' = Forget(last)
        /\ ever' = (IF serving' = "down" THEN [x \in Key |-> Never] ELSE ever)
        /\ vouched' = vouched \cap DOMAIN db'
    BY DEF Other
  <1>3. /\ first \in [Key -> Dates] /\ last \in [Key -> Dates] /\ ever \in [Key -> Dates]
        /\ \A x \in Key : ever[x] <= now
        /\ Never \in Dates /\ Never <= now' /\ \A d \in Dates : d \in Int
    BY <1>1, Numbers DEF ViewInv, Dated, Dates
  <1>4. Dated'
    <2>1. Forget(first) \in [Key -> Dates] /\ Forget(last) \in [Key -> Dates]
      BY <1>3 DEF Forget
    <2>2. ever' \in [Key -> Dates] /\ \A x \in Key : ever'[x] <= now'
      BY <1>1, <1>2, <1>3
    <2> QED BY <1>2, <2>1, <2>2 DEF Dated
  <1>5. KnownSinceEver'
    <2> SUFFICES ASSUME NEW x \in DOMAIN db'
                 PROVE  \/ x \in vouched'
                        \/ /\ ever'[x] # Never /\ ever'[x] <= db'[x].ctime
                           /\ db'[x].white => now' - ever'[x] >= Embargo
      BY DEF KnownSinceEver
    <2>1. serving' # "down"
      <3>1. CASE Stop
        BY <3>1, StopMap, EmptyMap DEF ViewInv
      <3>2. CASE ~Stop
        BY <1>1, <3>2 DEF Other, Remove, Ready, Sweep, Save, SaveCut, Restart, Tick, ViewInv
      <3> QED BY <3>1, <3>2
    <2> QED BY <1>1, <1>2, <2>1, KnownKept
  <1>6. SeriesStored'
    BY <1>1, <1>2, SeriesKept DEF SeriesStored
  <1>7. SeriesOnlyWhenUp'
    <2> SUFFICES ASSUME serving' # "up", NEW x \in Key PROVE first'[x] = Never
      BY DEF SeriesOnlyWhenUp
    <2>1. CASE serving' = "down"
      BY <1>2, <2>1 DEF Forget
    <2>2. CASE serving' # "down"
      <3>1. serving # "up"
        BY <2>2, StopMap DEF Other, Remove, Ready, Sweep, Save, SaveCut, Restart, Tick, ViewInv
      <3>2. first[x] = Never
        BY <3>1 DEF ViewInv, SeriesOnlyWhenUp
      <3> QED BY <1>2, <3>2 DEF Forget
    <2> QED BY <2>1, <2>2
  <1> QED BY <1>1, <1>4, <1>5, <1>6, <1>7 DEF ViewInv

LEMMA StepView == ViewInv /\ [ViewNext]_viewVars => ViewInv'
  <1> SUFFICES ASSUME ViewInv, [ViewNext]_viewVars PROVE ViewInv'
    OBVIOUS
  <1>1. ASSUME NEW k \in Key, LoadView(k) PROVE ViewInv'
    BY <1>1, LoadViewStep
  <1>2. ASSUME NEW k \in Key, NEW cmd \in Command, Ask(k, cmd) PROVE ViewInv'
    <2>1. AskAgain(k, cmd) \/ AskFirst(k, cmd)
      BY <1>2 DEF Ask
    <2> QED BY <1>2, <2>1, AskAgainView, AskFirstView
  <1>3. CASE Other
    BY <1>3, OtherView
  <1>4. CASE UNCHANGED viewVars
    <2>1. UNCHANGED <<db, now, saved, pending, serving, reply, first, last, ever, vouched>>
      BY <1>4 DEF viewVars, vars, history
    <2>2. MapInv'
      BY <2>1, IdleMap DEF ViewInv, vars
    <2> QED BY <2>1, <2>2 DEF ViewInv, Dated, KnownSinceEver, SeriesStored, SeriesOnlyWhenUp, InSeries
  <1> QED BY <1>1, <1>2, <1>3, <1>4 DEF ViewNext

LEMMA ViewInvariance == ViewSpec => []ViewInv
  BY InitView, StepView, PTL DEF ViewSpec

(***************************************************************************)
(* Nobody gets in early: whatever was swept, forgotten, reloaded or        *)
(* whitelisted in between, an ordinary request is accepted only when the   *)
(* key was vouched for or first seen at least an embargo ago.              *)
(***************************************************************************)
THEOREM NobodyIsEverEarly == ViewSpec => NobodyIsEarly
  <1>1. ASSUME ViewInv, NEW k \in Key, Ask(k, "CMD_GREYLIST"), reply' = "accept"
        PROVE  \/ k \in vouched
               \/ ever[k] # Never /\ now - ever[k] >= Embargo
    <2>1. AskAgain(k, "CMD_GREYLIST")
      BY <1>1 DEF Ask, AskFirst
    <2>2. k \in DOMAIN db /\ Promoted(k, "CMD_GREYLIST")
      BY <1>1, <2>1 DEF AskAgain, Has
    <2>3. db[k].white \/ now - db[k].ctime >= Embargo
      BY <2>2 DEF Promoted
    <2>4. /\ now \in Int /\ Embargo \in Int /\ db[k].ctime \in Int /\ ever[k] \in Int
      BY <1>1, <2>2, Numbers DEF ViewInv, Dated, Dates
    <2> QED BY <1>1, <2>2, <2>3, <2>4 DEF ViewInv, KnownSinceEver
  <1>2. ViewInv => InTime
    BY <1>1 DEF InTime
  <1> QED BY <1>2, ViewInvariance, PTL DEF NobodyIsEarly

(***************************************************************************)
(* A sender that keeps trying is accepted an embargo after its first       *)
(* attempt: its tuple cannot time out while the series lasts.              *)
(***************************************************************************)
THEOREM PersistenceIsAlwaysRewarded == ViewSpec => PersistenceIsRewarded
  <1>1. ASSUME ViewInv, NEW k \in Key, NEW cmd \in Command,
               Ask(k, cmd), InSeries(k), now - first[k] >= Embargo
        PROVE  reply' = "accept"
    <2>1. k \in DOMAIN db /\ db[k].ctime <= first[k]
      BY <1>1 DEF ViewInv, SeriesStored
    <2>2. AskAgain(k, cmd)
      BY <1>1, <2>1 DEF Ask, AskFirst, Has
    <2>3. now - db[k].ctime >= Embargo
      <3>1. /\ now \in Int /\ Embargo \in Int /\ db[k].ctime \in Int /\ first[k] \in Int
        BY <1>1, <2>1, Numbers DEF ViewInv, Dated, Dates
      <3> QED BY <1>1, <2>1, <3>1
    <2>4. Promoted(k, cmd)
      BY <2>3 DEF Promoted
    <2> QED BY <2>2, <2>4 DEF AskAgain
  <1>2. ViewInv => Rewarded
    BY <1>1 DEF Rewarded
  <1> QED BY <1>2, ViewInvariance, PTL DEF PersistenceIsRewarded
=============================================================================
