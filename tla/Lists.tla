------------------------------- MODULE Lists -------------------------------
(***************************************************************************)
(* The circular doubly linked lists of rtservice.h, seen as sequences: the  *)
(* value of a list is the sequence of the nodes met when walking `next'     *)
(* from the head.  RtList models the pointers themselves and is checked to  *)
(* implement these operators; the kernel modules use only the sequences.    *)
(***************************************************************************)
EXTENDS Naturals, Sequences, FiniteSets

(* The nodes linked in list s. *)
Elems(s) == {s[i] : i \in DOMAIN s}

(* No node is linked twice. *)
IsOnce(s) == \A i, j \in DOMAIN s : s[i] = s[j] => i = j

(* rt_list_insert_after(head, n): n becomes the first node. *)
PushFront(s, n) == <<n>> \o s

(* rt_list_insert_before(head, n): n becomes the last node. *)
PushBack(s, n) == Append(s, n)

(* rt_list_insert_after on the i-th node (0 is the head). *)
LinkAfter(s, i, n) ==
    [j \in 1..(Len(s) + 1) |-> IF j <= i THEN s[j]
                               ELSE IF j = i + 1 THEN n ELSE s[j - 1]]

(* rt_list_remove(n): unlinks n; a node that is in no list is not affected. *)
Unlink(s, n) ==
    IF n \in Elems(s)
    THEN LET i == CHOOSE j \in DOMAIN s : s[j] = n
         IN  [j \in 1..(Len(s) - 1) |-> IF j < i THEN s[j] ELSE s[j + 1]]
    ELSE s
=============================================================================
