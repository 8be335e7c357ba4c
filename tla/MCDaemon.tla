------------------------------ MODULE MCDaemon ------------------------------
(***************************************************************************)
(* Two children, so that two can end for one SIGCHLD, and a gld that dies  *)
(* four times in five seconds of which a window takes two: one end may be  *)
(* forgiven in each window, so a burst may straddle two of them, and the   *)
(* monitor goes on with a count above 0.  Only the first gld is given      *)
(* changes to save, reports and dumps to send; those after it find what it *)
(* left, its children included.                                            *)
(***************************************************************************)
EXTENDS Daemon

=============================================================================
