------------------------------- MODULE RtList -------------------------------
(***************************************************************************)
(* rtservice.h: the pointers of the kernel's intrusive lists.  Every ready  *)
(* queue, wait queue, timer list and object list of the kernel is a cycle   *)
(* of cells through a head.  The callers follow one discipline: a node is   *)
(* inserted only while it is linked to itself (fresh, or removed).          *)
(***************************************************************************)
EXTENDS Naturals

CONSTANTS Heads,   \* list heads
          Node    \* rt_list_t members of threads, timers, objects

ASSUME HeadsAreNotNodes == Heads \cap Node = {}

Cell == Heads \cup Node

VARIABLES next, prev

vars == <<next, prev>>

(* rt_list_init on every cell. *)
Init == /\ next = [c \in Cell |-> c]
        /\ prev = [c \in Cell |-> c]

(* rt_list_isempty; on a node: it is in no list. *)
IsEmpty(l) == next[l] = l

(* Variant: n is linked after l only in the forward direction. *)
InsertAfterOneWay(l, n) ==
    /\ next' = [next EXCEPT ![n] = next[l], ![l] = n]
    /\ prev' = [prev EXCEPT ![n] = l]

(* The four writes of rt_list_insert_after, in the order of the code. *)
InsertAfter(l, n) ==
    LET p1 == [prev EXCEPT ![next[l]] = n]
        n1 == [next EXCEPT ![n] = next[l]]
    IN  /\ next' = [n1 EXCEPT ![l] = n]
        /\ prev' = [p1 EXCEPT ![n] = l]

InsertBefore(l, n) ==
    LET n1 == [next EXCEPT ![prev[l]] = n]
        p1 == [prev EXCEPT ![n] = prev[l]]
    IN  /\ prev' = [p1 EXCEPT ![l] = n]
        /\ next' = [n1 EXCEPT ![n] = l]

(* Variant: rt_list_remove as it was before the node was re-initialised. *)
RemoveKeepsPointers(n) ==
    /\ next' = [next EXCEPT ![prev[n]] = next[n]]
    /\ prev' = [prev EXCEPT ![next[n]] = prev[n]]

(* The second write reads n->prev and n->next after the first one. *)
Remove(n) ==
    LET p1 == [prev EXCEPT ![next[n]] = prev[n]]
        n1 == [next EXCEPT ![p1[n]] = next[n]]
    IN  /\ next' = [n1 EXCEPT ![n] = n]
        /\ prev' = [p1 EXCEPT ![n] = n]

(* A caller inserts a node that is in no list, next to a head or to a node  *)
(* that is in one.                                                          *)
Next ==
    \/ \E n \in Node, l \in Cell :
          /\ IsEmpty(n)
          /\ l \in Heads \/ ~IsEmpty(l)
          /\ \/ InsertAfter(l, n)
             \/ InsertBefore(l, n)
    \/ \E n \in Node : Remove(n)

Spec == Init /\ [][Next]_vars

TypeOK == /\ next \in [Cell -> Cell]
          /\ prev \in [Cell -> Cell]

-----------------------------------------------------------------------------
(* The two directions of every list agree: walking forward and backward     *)
(* visits the same nodes.  rt_list_remove and the insertions rely on it,    *)
(* whatever cell they are applied to.                                       *)
WellLinked == \A c \in Cell : prev[next[c]] = c /\ next[prev[c]] = c

(* The sequence of nodes reached from h before the walk is back at h, for   *)
(* walks of at most |Node| steps (rt_list_for_each).                        *)
Walk(h, size) ==
    LET at[i \in 0..(size + 1)] == IF i = 0 THEN h ELSE next[at[i - 1]]
        len == CHOOSE n \in 0..size : at[n + 1] = h /\ \A i \in 1..n : at[i] # h
    IN  [i \in 1..len |-> at[i]]
=============================================================================
