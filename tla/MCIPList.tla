------------------------------ MODULE MCIPList ------------------------------
EXTENDS IPList

(* No file; one that narrows, widens and repeats; one that removes, and ends in an error. *)
MCLists == { <<>>,
             << [to |-> <<>>, cmd |-> "accept"], [to |-> <<1, 0>>, cmd |-> "greylist"],
                [to |-> <<1>>, cmd |-> "accept"], [to |-> <<1, 0>>, cmd |-> "accept"] >>,
             << [to |-> <<0>>, cmd |-> "accept"], [to |-> <<0, 1>>, cmd |-> "remove"],
                [to |-> <<>>, cmd |-> "remove"], [to |-> <<0>>, cmd |-> "remove"],
                Malformed, [to |-> <<1>>, cmd |-> "accept"] >> }
=============================================================================
