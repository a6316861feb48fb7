------------------------------ MODULE AbsLists ------------------------------
(***************************************************************************)
(* What the intrusive lists promise to the kernel: each head owns a finite  *)
(* sequence of nodes, a node is in at most one list, an insertion puts the  *)
(* node exactly where asked and a removal disturbs no other node.           *)
(***************************************************************************)
EXTENDS Lists

CONSTANTS Heads, Node

VARIABLE list

Free(n) == \A h \in Heads : n \notin Elems(list[h])

Init == list = [h \in Heads |-> <<>>]

Insert(h, i, n) == /\ Free(n)
                   /\ list' = [list EXCEPT ![h] = LinkAfter(@, i, n)]

Delete(n) == list' = [h \in Heads |-> Unlink(list[h], n)]

Next == \/ \E h \in Heads, n \in Node : \E i \in 0..Len(list[h]) : Insert(h, i, n)
        \/ \E n \in Node : Delete(n)

Spec == Init /\ [][Next]_list
=============================================================================
