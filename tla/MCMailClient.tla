---------------------------- MODULE MCMailClient ----------------------------
(***************************************************************************)
(* pfc has one thread; of smc's, two are enough to get in each other's     *)
(* way, and one may stay idle.  "reject" is handled as "greylist" is, and  *)
(* "accept" as a reply that cannot be used: one of each is enough.         *)
(***************************************************************************)
EXTENDS MailClient

CONSTANTS t1, t2

OneOfEach == {"greylist", Unusable}
=============================================================================
