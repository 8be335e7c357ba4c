---------------------------- MODULE MCTupleSpace ----------------------------
(* Small instances of the tuple space.                                     *)
EXTENDS TupleSpace

MCKey3 == 1 .. 3

(* files the first start may find: none or an empty one, files saved by    *)
(* the daemon, one with two lines that collapsed into one                  *)
MCNoFile     == {<<>>}
MCSavedFiles == {<<>>, <<1, 3>>}

(* a file saved by a daemon with a larger pool *)
MCOverlongFile == {<<1, 2, 3>>}
MCFiles        == {<<>>, <<2>>, <<1, 1>>} \cup MCOverlongFile
=============================================================================
