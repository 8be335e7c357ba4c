------------------------------ MODULE MCControl ------------------------------
(* two operators; one kind of change, and one of report *)
EXTENDS Control

CONSTANTS o1, o2, iplist, show
=============================================================================
