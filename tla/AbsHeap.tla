------------------------------ MODULE AbsHeap ------------------------------
(***************************************************************************)
(* What a heap promises: the bytes it hands out, and the few in front of    *)
(* them where it keeps its own record, belong to nobody else until they are *)
(* given back.                                                              *)
(***************************************************************************)
EXTENDS Integers

VARIABLES
    live,   \* function from addresses to the bytes handed out there, 0 if none
    shape   \* [size, record]: where memory ends, bytes of the record before a region

Extent(a, n) == a..(a + shape.record + n - 1)

(* n bytes fit at a and touch no region but those at the addresses in Except. *)
Unused(a, n, Except) ==
    /\ Extent(a, n) \subseteq 0..(shape.size - 1)
    /\ \A b \in DOMAIN live \ Except :
          live[b] > 0 => Extent(a, n) \cap Extent(b, live[b]) = {}

Init == live = [a \in DOMAIN live |-> 0]

Allocate == \E a \in DOMAIN live :
               /\ live[a] = 0 /\ live'[a] > 0
               /\ live' = [live EXCEPT ![a] = live'[a]]
               /\ Unused(a, live'[a], {})

Release == \E a \in DOMAIN live : live' = [live EXCEPT ![a] = 0]

(* A region is resized in place, or copied to a new place while it is live. *)
Resize == \E a, b \in DOMAIN live :
             /\ live[a] > 0 /\ live'[b] > 0
             /\ live' = [live EXCEPT ![a] = 0, ![b] = live'[b]]
             /\ Unused(b, live'[b], IF a = b THEN {a} ELSE {})

Next == UNCHANGED shape /\ (Allocate \/ Release \/ Resize)

Spec == Init /\ [][Next]_<<live, shape>>
=============================================================================
