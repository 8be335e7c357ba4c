---------------------------- MODULE MCSenderView ----------------------------
(***************************************************************************)
(* Three interchangeable keys and room for two tuples.  States that differ *)
(* only in the last reply, or in whether the file was written to its end,  *)
(* are one: no action reads either.                                        *)
(***************************************************************************)
EXTENDS SenderView, TLC

CONSTANTS k1, k2, k3

MCKey      == {k1, k2, k3}
MCSymmetry == Permutations(MCKey)
MCView     == <<db, now, saved.keys, pending, serving, history>>
=============================================================================
