------------------------------ MODULE MCMilter ------------------------------
(* senders of up to four letters, the empty one of a bounce among them *)
EXTENDS Milter

MCSender == {<<>>, <<3>>, <<4, 3>>, <<3, 4, 5>>, <<5, 4, 3, 3>>}
=============================================================================
