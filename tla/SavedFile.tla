----------------------------- MODULE SavedFile -----------------------------
(***************************************************************************)
(* The files of save_state() (server/signals.c).  fopen() truncates each   *)
(* one and stdio writes it in pieces, in place: if the process is killed   *)
(* or the disk is full before fclose(), the file ends early, in the middle *)
(* of a line as likely as not.  Nothing in the file tells: `whole' is      *)
(* there for what is promised about it, and no reader looks at it.         *)
(***************************************************************************)
EXTENDS Integers, Sequences

FileOf(Lines) == [lines : Seq(Lines), whole : BOOLEAN]

Whole(q) == [lines |-> q, whole |-> TRUE]

(* what may be left of q; its last line may read as one of the torn ones *)
CutOff(q, torn) ==
  {[lines |-> SubSeq(q, 1, n), whole |-> FALSE] : n \in 0 .. Len(q)}
    \cup UNION {{[lines |-> Append(SubSeq(q, 1, n-1), l), whole |-> FALSE] : l \in torn}
                  : n \in 1 .. Len(q)}
=============================================================================
