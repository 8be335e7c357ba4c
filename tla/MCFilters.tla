----------------------------- MODULE MCFilters -----------------------------
(***************************************************************************)
(* A sender and a recipient in one domain, and a sender and a recipient    *)
(* without one: two changes are enough for an address and its domain to    *)
(* contradict each other, and two requests for the counts to add up.       *)
(***************************************************************************)
EXTENDS Filters

CONSTANTS alice, daemon, bob, root, example

MCDomainOf == [k \in {alice, daemon, bob, root} |->
                 IF k \in {alice, bob} THEN example ELSE NoDomain]
=============================================================================
