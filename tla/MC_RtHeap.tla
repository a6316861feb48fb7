------------------------------ MODULE MC_RtHeap ------------------------------
EXTENDS RtHeap

(* One program with small and large blocks, enough of them to fill three    *)
(* zones and empty two; one whose zones pass from one size to another.       *)
MCCallers == {[sizes |-> {13, 40}, max |-> 5], [sizes |-> {13, 20}, max |-> 3]}
=============================================================================
