----------------------------- MODULE MCBiSearch -----------------------------
(* Every base of up to four cells over five keys, sorted or not.          *)
EXTENDS BiSearch

MCKey == 1 .. 5

=============================================================================
