---------------------------- MODULE RtHeapProofs ----------------------------
(***************************************************************************)
(* Theorems about RtHeap.  The small heap and memheap keep their blocks in *)
(* a row of items: first what holds of such rows, then the two allocators, *)
(* then the theorems about them and the slab allocator of RtSlabProofs.    *)
(***************************************************************************)
EXTENDS RtSlabProofs

-----------------------------------------------------------------------------
(* A row of items at the offsets 0..M, the last of them at N, each with at     *)
(* least H bytes before the next.                                            *)

Items(M) == [state : {"none", "free", "used"}, next : 0..M, prev : 0..M]

At(t, i) == t[i].state # "none"

Row(t, M, N, H) ==
    /\ t \in [0..M -> Items(M)]
    /\ At(t, 0) /\ At(t, N)
    /\ \A i \in 0..M : At(t, i) => i <= N
    /\ \A i \in 0..M : At(t, i) /\ i # N => i + H <= t[i].next
    /\ \A i \in 0..M : At(t, i) /\ i # N => At(t, t[i].next)
    /\ \A i, j \in 0..M : At(t, i) /\ i # N /\ i < j /\ j < t[i].next => ~At(t, j)
    /\ \A i \in 0..M : At(t, i) /\ i # N /\ t[i].next # N => t[t[i].next].prev = i

(* What t has of u, where item i of u, which ended at e, was cut at j. *)
IsCut(t, u, M, i, j, e, N) ==
    /\ t[j].state = "free" /\ t[j].next = e /\ t[j].prev = i
    /\ t[i].state = u[i].state /\ t[i].next = j /\ t[i].prev = u[i].prev
    /\ t[e].state = u[e].state /\ t[e].next = u[e].next
    /\ e # N => t[e].prev = j
    /\ \A k \in 0..M : k # i /\ k # j /\ k # e => t[k] = u[k]

(* What t has of u, where the item behind i became part of i. *)
IsMerge(t, u, M, i, n, e) ==
    /\ t[n].state = "none"
    /\ t[i].state = u[i].state /\ t[i].next = e /\ t[i].prev = u[i].prev
    /\ t[e].state = u[e].state /\ t[e].next = u[e].next /\ t[e].prev = i
    /\ \A k \in 0..M : k # i /\ k # n /\ k # e => t[k] = u[k]

(* t is u but for the state of i, which is an item in both. *)
IsMark(t, u, M, i, st) ==
    /\ st \in {"free", "used"}
    /\ t[i].state = st /\ t[i].next = u[i].next /\ t[i].prev = u[i].prev
    /\ \A k \in 0..M : k # i => t[k] = u[k]

(* Where item i of u ends. *)
Ends(u, M, N, H, i, n) ==
    /\ n \in 0..M /\ i < n /\ n <= N /\ i + H <= n /\ At(u, n)
    /\ \A k \in 0..M : At(u, k) /\ i < k => n <= k
    /\ n # N => u[n].prev = i

LEMMA RowNext ==
    ASSUME NEW M \in Nat, NEW N \in 0..M, NEW H \in Nat \ {0}, NEW u, Row(u, M, N, H),
           NEW i \in 0..M, At(u, i), i # N, NEW n, n = u[i].next
    PROVE  Ends(u, M, N, H, i, n)
<1>1. n \in 0..M
  BY DEF Row, Items
<1>2. i + H <= n /\ At(u, n)
  BY DEF Row
<1>3. n <= N
  BY <1>1, <1>2 DEF Row
<1>4. ASSUME NEW k \in 0..M, At(u, k), i < k PROVE n <= k
  <2>1. ~(k < n)
    BY <1>4 DEF Row
  <2> QED BY <2>1, <1>1
<1>5. i < n
  BY <1>1, <1>2
<1>6. n # N => u[n].prev = i
  BY DEF Row
<1> QED BY <1>1, <1>2, <1>3, <1>4, <1>5, <1>6 DEF Ends

(* A row from what holds of each of its items. *)
LEMMA RowFrom ==
    ASSUME NEW M \in Nat, NEW N \in 0..M, NEW H \in Nat \ {0}, NEW t, t \in [0..M -> Items(M)],
           At(t, 0), At(t, N), \A k \in 0..M : At(t, k) => k <= N,
           \A k \in 0..M : At(t, k) /\ k # N => Ends(t, M, N, H, k, t[k].next)
    PROVE  Row(t, M, N, H)
<1>1. \A k \in 0..M : At(t, k) /\ k # N => k + H <= t[k].next
  BY DEF Ends
<1>2. \A k \in 0..M : At(t, k) /\ k # N => At(t, t[k].next)
  BY DEF Ends
<1>3. ASSUME NEW k \in 0..M, NEW l \in 0..M, At(t, k), k # N, k < l, l < t[k].next, At(t, l)
      PROVE  FALSE
  <2>1. t[k].next <= l /\ t[k].next \in 0..M
    BY <1>3 DEF Ends
  <2> QED BY <2>1, <1>3
<1>4. \A k \in 0..M : At(t, k) /\ k # N /\ t[k].next # N => t[t[k].next].prev = k
  BY DEF Ends
<1> QED BY <1>1, <1>2, <1>3, <1>4 DEF Row

LEMMA CutKeepsRow ==
    ASSUME NEW M \in Nat, NEW N \in 0..M, NEW H \in Nat \ {0}, NEW u, Row(u, M, N, H),
           NEW i \in 0..M, At(u, i), i # N, NEW e, e = u[i].next,
           NEW j \in 0..M, i + H <= j, j + H <= e,
           NEW t, t \in [0..M -> Items(M)], IsCut(t, u, M, i, j, e, N)
    PROVE  Row(t, M, N, H)
<1>1. Ends(u, M, N, H, i, e)
  BY RowNext
<1>2. e \in 0..M /\ e <= N /\ At(u, e) /\ i < j /\ j < e /\ i < e
  BY <1>1 DEF Ends
<1>3. ~At(u, j)
  BY <1>1, <1>2 DEF Ends
<1>4. \A k \in 0..M : At(t, k) <=> (At(u, k) \/ k = j)
  BY <1>2 DEF IsCut, At
<1>5. \A k \in 0..M : k # j /\ k # i => t[k].next = u[k].next
  BY <1>2 DEF IsCut
<1>6. t[i].next = j /\ t[j].next = e /\ t[j].prev = i /\ (e # N => t[e].prev = j)
  BY DEF IsCut
<1>7. \A k \in 0..M : k # j /\ k # e => t[k].prev = u[k].prev
  BY <1>2 DEF IsCut
<1>8. ASSUME NEW k \in 0..M, At(t, k), k # N PROVE Ends(t, M, N, H, k, t[k].next)
  <2>1. CASE k = j
    <3>1. \A l \in 0..M : At(t, l) /\ j < l => e <= l
      BY <1>1, <1>2, <1>4 DEF Ends
    <3> QED BY <2>1, <3>1, <1>2, <1>4, <1>6 DEF Ends
  <2>2. CASE k = i
    <3>1. \A l \in 0..M : At(t, l) /\ i < l => j <= l
      BY <1>1, <1>2, <1>4 DEF Ends
    <3>2. At(t, j)
      BY <1>4
    <3> QED BY <2>2, <3>1, <3>2, <1>2, <1>6 DEF Ends
  <2>3. CASE k # i /\ k # j
    <3>1. PICK n : n = u[k].next
      OBVIOUS
    <3>2. At(u, k) /\ t[k].next = n
      BY <2>3, <3>1, <1>8, <1>4, <1>5
    <3>3. Ends(u, M, N, H, k, n)
      BY <3>1, <3>2, <1>8, RowNext
    <3>4. n # e /\ n # j /\ n \in 0..M
      BY <3>3, <3>2, <2>3, <1>1, <1>2, <1>3 DEF Ends
    <3>5. At(t, n) /\ (n # N => t[n].prev = k)
      BY <3>3, <3>4, <1>4, <1>7 DEF Ends
    <3>6. \A l \in 0..M : At(t, l) /\ k < l => n <= l
      BY <3>3, <3>2, <2>3, <1>1, <1>2, <1>4 DEF Ends
    <3> QED BY <3>2, <3>3, <3>5, <3>6 DEF Ends
  <2> QED BY <2>1, <2>2, <2>3
<1>9. At(t, 0) /\ At(t, N)
  BY <1>4 DEF Row
<1>10. \A k \in 0..M : At(u, k) => k <= N
  BY DEF Row
<1>11. \A k \in 0..M : At(t, k) => k <= N
  BY <1>10, <1>4, <1>2
<1> QED BY <1>8, <1>9, <1>11, RowFrom

(* The header of item i and n bytes behind it, which end before the next item. *)
Bytes(i, H, n) == i..(i + H + n - 1)
Holds(u, i, H, n) == n <= u[i].next - (i + H)

(* Two items of a row have no byte in common. *)
LEMMA RegionsApart ==
    ASSUME NEW M \in Nat, NEW N \in 0..M, NEW H \in Nat \ {0}, NEW u, Row(u, M, N, H),
           NEW i \in 0..M, At(u, i), i # N, NEW b \in 0..M, At(u, b), b # N, b # i,
           NEW n \in Nat, Holds(u, i, H, n), NEW m \in Nat, Holds(u, b, H, m)
    PROVE  Bytes(i, H, n) \cap Bytes(b, H, m) = {}
<1>1. PICK e : e = u[i].next
  OBVIOUS
<1>2. PICK f : f = u[b].next
  OBVIOUS
<1>3. Ends(u, M, N, H, i, e) /\ Ends(u, M, N, H, b, f)
  BY <1>1, <1>2, RowNext
<1>4. e \in 0..M /\ f \in 0..M /\ (i < b => e <= b) /\ (b < i => f <= i)
  BY <1>3 DEF Ends
<1>5. n <= e - (i + H) /\ m <= f - (b + H)
  BY <1>1, <1>2 DEF Holds
<1>6. i + H + n - 1 < b \/ b + H + m - 1 < i
  BY <1>4, <1>5
<1> QED BY <1>6 DEF Bytes

LEMMA MergeKeepsRow ==
    ASSUME NEW M \in Nat, NEW N \in 0..M, NEW H \in Nat \ {0}, NEW u, Row(u, M, N, H),
           NEW i \in 0..M, At(u, i), i # N, NEW n, n = u[i].next, n # N, NEW e, e = u[n].next,
           NEW t, t \in [0..M -> Items(M)], IsMerge(t, u, M, i, n, e)
    PROVE  Row(t, M, N, H)
<1>1. Ends(u, M, N, H, i, n)
  BY RowNext
<1>2. n \in 0..M /\ At(u, n) /\ i < n
  BY <1>1 DEF Ends
<1>3. Ends(u, M, N, H, n, e)
  BY <1>2, RowNext
<1>4. e \in 0..M /\ At(u, e) /\ n < e
  BY <1>3 DEF Ends
<1>5. \A k \in 0..M : At(t, k) <=> (At(u, k) /\ k # n)
  BY <1>2, <1>4 DEF IsMerge, At
<1>6. \A k \in 0..M : k # n /\ k # i => t[k].next = u[k].next
  BY <1>2, <1>4 DEF IsMerge
<1>7. t[i].next = e /\ t[e].prev = i
  BY DEF IsMerge
<1>8. \A k \in 0..M : k # n /\ k # e => t[k].prev = u[k].prev
  BY <1>2, <1>4 DEF IsMerge
<1>9. ASSUME NEW k \in 0..M, At(t, k), k # N PROVE Ends(t, M, N, H, k, t[k].next)
  <2>1. CASE k = i
    <3>1. At(t, e) /\ i + H <= e /\ e <= N /\ i < e
      BY <1>1, <1>2, <1>3, <1>4, <1>5 DEF Ends
    <3>2. \A l \in 0..M : At(t, l) /\ i < l => e <= l
      BY <1>1, <1>2, <1>3, <1>4, <1>5 DEF Ends
    <3> QED BY <2>1, <3>1, <3>2, <1>4, <1>7 DEF Ends
  <2>2. CASE k # i
    <3>1. PICK m : m = u[k].next
      OBVIOUS
    <3>2. At(u, k) /\ k # n /\ t[k].next = m
      BY <2>2, <3>1, <1>9, <1>5, <1>6
    <3>3. Ends(u, M, N, H, k, m)
      BY <3>1, <3>2, <1>9, RowNext
    <3>4. m # n /\ m # e /\ m \in 0..M
      BY <3>2, <3>3, <2>2, <1>1, <1>2, <1>3, <1>4 DEF Ends
    <3>5. At(t, m) /\ (m # N => t[m].prev = k)
      BY <3>3, <3>4, <1>5, <1>8 DEF Ends
    <3>6. \A l \in 0..M : At(t, l) /\ k < l => m <= l
      BY <3>3, <1>5 DEF Ends
    <3> QED BY <3>2, <3>3, <3>5, <3>6 DEF Ends
  <2> QED BY <2>1, <2>2
<1>10. At(t, 0) /\ At(t, N)
  BY <1>5, <1>2 DEF Row
<1>11. \A k \in 0..M : At(t, k) => k <= N
  BY <1>5 DEF Row
<1> QED BY <1>9, <1>10, <1>11, RowFrom

LEMMA MarkKeepsRow ==
    ASSUME NEW M \in Nat, NEW N \in 0..M, NEW H \in Nat \ {0}, NEW u, Row(u, M, N, H),
           NEW i \in 0..M, At(u, i), NEW st, NEW t, t \in [0..M -> Items(M)],
           IsMark(t, u, M, i, st)
    PROVE  Row(t, M, N, H)
<1>1. \A k \in 0..M : At(t, k) <=> At(u, k)
  BY DEF IsMark, At
<1>2. \A k \in 0..M : t[k].next = u[k].next /\ t[k].prev = u[k].prev
  BY DEF IsMark
<1>3. ASSUME NEW k \in 0..M, At(t, k), k # N PROVE Ends(t, M, N, H, k, t[k].next)
  <2>1. PICK n : n = u[k].next
    OBVIOUS
  <2>2. Ends(u, M, N, H, k, n) /\ t[k].next = n
    BY <1>1, <1>2, <1>3, <2>1, RowNext
  <2> QED BY <2>2, <1>1, <1>2 DEF Ends
<1>4. At(t, 0) /\ At(t, N) /\ \A k \in 0..M : At(t, k) => k <= N
  BY <1>1 DEF Row
<1> QED BY <1>3, <1>4, RowFrom

(* The item in front of item i. *)
LEMMA RowPrev ==
    ASSUME NEW M \in Nat, NEW N \in 0..M, NEW H \in Nat \ {0}, NEW u, Row(u, M, N, H),
           NEW i \in 0..M, At(u, i), i # 0
    PROVE  \E p \in 0..M : At(u, p) /\ p # N /\ p < i /\ u[p].next = i
<1> DEFINE B == {n \in Nat : n <= i /\ At(u, i - n) /\ n # 0}
<1>1. B \in SUBSET Nat /\ i \in B
  <2>1. i - i = 0 /\ At(u, 0)
    BY DEF Row
  <2> QED BY <2>1
<1>2. PICK n \in B : \A l \in B : n <= l
  <2> HIDE DEF B
  <2> QED BY <1>1, Least
<1>3. PICK p : p = i - n
  OBVIOUS
<1>4. p \in 0..M /\ At(u, p) /\ p < i /\ n \in Nat /\ p = i - n
  BY <1>2, <1>3
<1>5. ASSUME NEW k \in 0..M, At(u, k), p < k, k < i PROVE FALSE
  <2>1. i - k \in Nat /\ i - k # 0 /\ i - k <= i /\ i - (i - k) = k /\ ~(n <= i - k)
    BY <1>4, <1>5
  <2>2. i - k \in B
    BY <2>1, <1>5
  <2> HIDE DEF B
  <2> QED BY <2>1, <2>2, <1>2
<1>6. p # N
  BY <1>4 DEF Row
<1>7. PICK e : e = u[p].next
  OBVIOUS
<1>8. Ends(u, M, N, H, p, e)
  BY <1>4, <1>6, <1>7, RowNext
<1>9. e = i
  BY <1>4, <1>5, <1>8 DEF Ends
<1> QED BY <1>4, <1>6, <1>7, <1>9

-----------------------------------------------------------------------------
(* The small heap.  Its items are a row that ends with heap_end.             *)
E == SmallMem!End

LEMMA EndFacts ==
    E = Total + Header /\ E \in Nat /\ SmallMem!Off = 0..E /\ SmallMem!Item = Items(E)
    /\ Header \in Nat \ {0} /\ E # 0
  BY SmallMemAssumption DEF E, SmallMem!End, SmallMem!Off, SmallMem!Item, Items

SmallState == [item : [0..E -> Items(E)], lfree : 0..E, used : Int, max : Nat]

SmallBase(x) ==
    /\ x \in SmallState
    /\ Row(x.item, E, E, Header)
    /\ x.item[0].prev = 0 /\ x.item[E].state = "used" /\ x.item[E].next = E

Lowest(x) ==
    /\ x.lfree = E \/ x.item[x.lfree].state = "free"
    /\ \A i \in 0..E : i < x.lfree => x.item[i].state # "free"

(* Free items have used ones behind them, but for i and the one before i.    *)
ApartBut(t, M, i) ==
    \A k \in 0..M : t[k].state = "free" /\ k # i /\ t[k].next # i => t[t[k].next].state = "used"
ApartFrom(t, M, i) ==
    \A k \in 0..M : t[k].state = "free" /\ t[k].next # i => t[t[k].next].state = "used"
AllApart(t, M) ==
    \A k \in 0..M : t[k].state = "free" => t[t[k].next].state = "used"

(* y is x after the free item n has become part of the free item i.          *)
Joined(y, x, i, n) ==
    /\ SmallBase(y)
    /\ y.used = x.used /\ y.max = x.max
    /\ y.item[i].next = x.item[n].next
    /\ y.item[n].state = "none"
    /\ \A k \in 0..E : k # n => y.item[k].state = x.item[k].state
    /\ \A k \in 0..E : k # n /\ k # i => y.item[k].next = x.item[k].next
    /\ Lowest(x) => Lowest(y)

Merged(t, i, n, e) ==
    [t EXCEPT ![i].next = e, ![e].prev = i, ![n] = [state |-> "none", next |-> 0, prev |-> 0]]

LEMMA MergedFacts ==
    ASSUME NEW M \in Nat, NEW u \in [0..M -> Items(M)], NEW i \in 0..M, NEW n \in 0..M, NEW e \in 0..M,
           i # n, n # e, i # e, NEW t, t = Merged(u, i, n, e)
    PROVE  t \in [0..M -> Items(M)] /\ IsMerge(t, u, M, i, n, e)
<1>1. [u[i] EXCEPT !.next = e] \in Items(M) /\ [u[e] EXCEPT !.prev = i] \in Items(M)
  BY DEF Items
<1>2. [state |-> "none", next |-> 0, prev |-> 0] \in Items(M)
  BY DEF Items
<1>3. t \in [0..M -> Items(M)]
  BY <1>1, <1>2 DEF Merged
<1>4. /\ t[n] = [state |-> "none", next |-> 0, prev |-> 0]
      /\ t[i] = [u[i] EXCEPT !.next = e] /\ t[e] = [u[e] EXCEPT !.prev = i]
      /\ \A k \in 0..M : k # i /\ k # n /\ k # e => t[k] = u[k]
  BY DEF Merged
<1>5. u[i] \in Items(M) /\ u[e] \in Items(M)
  OBVIOUS
<1>6. t[i].state = u[i].state /\ t[i].next = e /\ t[i].prev = u[i].prev
  BY <1>4, <1>5 DEF Items
<1>7. t[e].state = u[e].state /\ t[e].next = u[e].next /\ t[e].prev = i
  BY <1>4, <1>5 DEF Items
<1>8. t[n].state = "none"
  BY <1>4
<1> QED BY <1>3, <1>4, <1>6, <1>7, <1>8 DEF IsMerge

(* plug_holes, the part that forward and backward share.                     *)
Plugged(x, i, n) == [x EXCEPT !.lfree = IF x.lfree = n THEN i ELSE x.lfree,
                              !.item = Merged(x.item, i, n, x.item[n].next)]

LEMMA PlugJoins ==
    ASSUME NEW x, SmallBase(x), NEW i \in 0..E, NEW n \in 0..E, n = x.item[i].next,
           x.item[i].state = "free", x.item[n].state = "free", NEW y, y = Plugged(x, i, n)
    PROVE  Joined(y, x, i, n)
<1>1. PICK t : t = x.item
  OBVIOUS
<1>2. Row(t, E, E, Header) /\ t \in [0..E -> Items(E)]
  BY <1>1 DEF SmallBase, SmallState
<1>3. At(t, i) /\ At(t, n) /\ i # E /\ n # E /\ n = t[i].next
  BY <1>1 DEF At, SmallBase
<1>4. Ends(t, E, E, Header, i, n)
  BY <1>2, <1>3, EndFacts, RowNext
<1>5. PICK e : e = t[n].next
  OBVIOUS
<1>6. Ends(t, E, E, Header, n, e)
  BY <1>2, <1>3, <1>5, EndFacts, RowNext
<1>7. e \in 0..E /\ i < n /\ n < e
  BY <1>4, <1>6 DEF Ends
<1>8. PICK u : u = Merged(t, i, n, e)
  OBVIOUS
<1>9. u \in [0..E -> Items(E)] /\ IsMerge(u, t, E, i, n, e)
  BY <1>2, <1>7, <1>8, EndFacts, MergedFacts
<1>10. Row(u, E, E, Header)
  <2>1. E \in Nat /\ E \in 0..E /\ Header \in Nat \ {0}
    BY EndFacts
  <2> QED BY <2>1, <1>2, <1>3, <1>5, <1>9, MergeKeepsRow
<1>11. PICK l : l = IF x.lfree = n THEN i ELSE x.lfree
  OBVIOUS
<1>12. x \in SmallState /\ l \in 0..E
  BY <1>11 DEF SmallBase, SmallState
<1>13. y = [x EXCEPT !.lfree = l, !.item = u]
  BY <1>1, <1>5, <1>8, <1>11 DEF Plugged
<1>14. y \in SmallState /\ y.item = u /\ y.lfree = l /\ y.used = x.used /\ y.max = x.max
  BY <1>9, <1>12, <1>13 DEF SmallState
<1>15. /\ u[n].state = "none" /\ u[i].next = e
       /\ \A k \in 0..E : k # n => u[k].state = t[k].state
       /\ \A k \in 0..E : k # n /\ k # i => u[k].next = t[k].next
  BY <1>7, <1>9 DEF IsMerge
<1>16. u[0].prev = 0
  <2>1. t[0].prev = 0
    BY <1>1 DEF SmallBase
  <2>2. 0 # n /\ 0 # e /\ 0 \in 0..E
    BY <1>7, EndFacts
  <2> QED BY <2>1, <2>2, <1>9 DEF IsMerge
<1>17. u[E].state = "used" /\ u[E].next = E
  <2>1. t[E].state = "used" /\ t[E].next = E /\ E \in 0..E
    BY <1>1, EndFacts DEF SmallBase
  <2> QED BY <2>1, <1>3, <1>15
<1>18. SmallBase(y)
  BY <1>10, <1>14, <1>16, <1>17 DEF SmallBase
<1>19. ASSUME Lowest(x) PROVE Lowest(y)
  <2>1. x.lfree \in 0..E /\ t[i].state = "free"
    BY <1>1, <1>12 DEF SmallState
  <2>2. /\ x.lfree = E \/ t[x.lfree].state = "free"
        /\ \A k \in 0..E : k < x.lfree => t[k].state # "free"
    BY <1>1, <1>19 DEF Lowest
  <2>3. x.lfree # n /\ l = x.lfree
    BY <2>1, <2>2, <1>7, <1>11
  <2>4. l = E \/ u[l].state = "free"
    BY <2>1, <2>2, <2>3, <1>15
  <2>5. \A k \in 0..E : k < l => u[k].state # "free"
    BY <2>2, <2>3, <1>15
  <2> QED BY <2>4, <2>5, <1>14 DEF Lowest
<1> QED BY <1>1, <1>5, <1>14, <1>15, <1>18, <1>19 DEF Joined

(* What freeing, joining and cutting leave of the items in use.              *)
Kept(y, x) ==
    /\ SmallBase(y)
    /\ y.used = x.used /\ y.max = x.max
    /\ \A k \in 0..E : y.item[k].state = "used" <=> x.item[k].state = "used"
    /\ \A k \in 0..E : x.item[k].state = "used" => y.item[k].next = x.item[k].next
    /\ Lowest(x) => Lowest(y)

LEMMA JoinedKept ==
    ASSUME NEW x, NEW y, NEW i \in 0..E, NEW n \in 0..E, Joined(y, x, i, n),
           x.item[i].state = "free", x.item[n].state = "free"
    PROVE  Kept(y, x)
  BY DEF Joined, Kept

LEMMA SmallNext ==
    ASSUME NEW x, SmallBase(x), NEW i \in 0..E, x.item[i].state # "none", i # E,
           NEW n, n = x.item[i].next
    PROVE  Ends(x.item, E, E, Header, i, n)
<1>1. PICK t : t = x.item
  OBVIOUS
<1>2. Row(t, E, E, Header) /\ At(t, i) /\ n = t[i].next
  BY <1>1 DEF SmallBase, At
<1>3. E \in Nat /\ E \in 0..E /\ Header \in Nat \ {0}
  BY EndFacts
<1>4. Ends(t, E, E, Header, i, n)
  BY <1>2, <1>3, RowNext
<1> QED BY <1>1, <1>4

LEMMA SmallPrev ==
    ASSUME NEW x, SmallBase(x), NEW i \in 0..E, x.item[i].state # "none", i # E, i # 0,
           NEW p, p = x.item[i].prev
    PROVE  p \in 0..E /\ p < i /\ x.item[p].state # "none" /\ p # E /\ x.item[p].next = i
<1>1. PICK t : t = x.item
  OBVIOUS
<1>2. Row(t, E, E, Header) /\ At(t, i) /\ p = t[i].prev
  BY <1>1 DEF SmallBase, At
<1>3. E \in Nat /\ E \in 0..E /\ Header \in Nat \ {0}
  BY EndFacts
<1>4. PICK q \in 0..E : At(t, q) /\ q # E /\ q < i /\ t[q].next = i
  BY <1>2, <1>3, RowPrev
<1>5. Ends(t, E, E, Header, q, i)
  BY <1>2, <1>3, <1>4, RowNext
<1>6. p = q
  BY <1>2, <1>5 DEF Ends
<1> QED BY <1>1, <1>4, <1>6 DEF At

LEMMA PlugForwardKeeps ==
    ASSUME NEW x, SmallBase(x), NEW i \in 0..E, x.item[i].state = "free", ApartBut(x.item, E, i),
           NEW y, y = SmallMem!PlugForward(x, i)
    PROVE  Kept(y, x) /\ y.item[i].state = "free" /\ ApartFrom(y.item, E, i)
<1>1. PICK n : n = x.item[i].next
  OBVIOUS
<1>2. i # E
  BY DEF SmallBase
<1>3. Ends(x.item, E, E, Header, i, n)
  BY <1>1, <1>2, SmallNext
<1>4. n \in 0..E /\ i < n /\ x.item[n].state # "none" /\ x.item[n].state \in {"none", "free", "used"}
  BY <1>3 DEF Ends, At, SmallBase, SmallState, Items
<1>5. CASE x.item[n].state # "free"
  <2>1. y = x
    BY <1>1, <1>5 DEF SmallMem!PlugForward, SmallMem!Is
  <2>2. x.item[n].state = "used"
    BY <1>4, <1>5
  <2>3. ApartFrom(x.item, E, i)
    BY <2>2, <1>1 DEF ApartBut, ApartFrom
  <2> QED BY <2>1, <2>3 DEF Kept
<1>6. CASE x.item[n].state = "free"
  <2>1. n # E /\ n # i
    BY <1>4, <1>6 DEF SmallBase
  <2>2. y = Plugged(x, i, n)
    BY <2>1, <1>1, <1>6 DEF SmallMem!PlugForward, SmallMem!Is, SmallMem!End, E, SmallMem!NoItem,
                            Plugged, Merged
  <2>3. Joined(y, x, i, n)
    BY <2>2, <1>1, <1>4, <1>6, PlugJoins
  <2>4. Kept(y, x)
    BY <2>3, <1>4, <1>6, JoinedKept
  <2>5. PICK e : e = x.item[n].next
    OBVIOUS
  <2>6. Ends(x.item, E, E, Header, n, e)
    BY <2>1, <2>5, <1>4, SmallNext
  <2>7. e \in 0..E /\ n < e
    BY <2>6 DEF Ends
  <2>8. ASSUME NEW k \in 0..E, y.item[k].state = "free", y.item[k].next # i
        PROVE  y.item[y.item[k].next].state = "used"
    <3>1. PICK l : l = y.item[k].next
      OBVIOUS
    <3>2. k # n /\ x.item[k].state = "free"
      BY <2>3, <2>8 DEF Joined
    <3>3. CASE k = i
      <4>1. l = e
        BY <3>1, <3>3, <2>3, <2>5 DEF Joined
      <4>2. x.item[e].state = "used"
        BY <2>5, <2>7, <2>1, <1>4, <1>6 DEF ApartBut
      <4>3. y.item[e].state = "used"
        BY <4>2, <2>4, <2>7 DEF Kept
      <4> QED BY <3>1, <4>1, <4>3
    <3>4. CASE k # i
      <4>1. l = x.item[k].next
        BY <3>1, <3>2, <3>4, <2>3 DEF Joined
      <4>2. x.item[l].state = "used"
        BY <4>1, <3>1, <3>2, <3>4, <2>8 DEF ApartBut
      <4>3. l \in 0..E
        BY <4>1 DEF SmallBase, SmallState, Items
      <4>4. y.item[l].state = "used"
        BY <4>2, <4>3, <2>4 DEF Kept
      <4> QED BY <3>1, <4>4
    <3> QED BY <3>3, <3>4
  <2>9. y.item[i].state = "free"
    BY <2>1, <2>3 DEF Joined
  <2> QED BY <2>4, <2>8, <2>9 DEF ApartFrom
<1> QED BY <1>5, <1>6

LEMMA PlugBackwardKeeps ==
    ASSUME NEW x, SmallBase(x), NEW i \in 0..E, x.item[i].state = "free", ApartFrom(x.item, E, i),
           NEW y, y = SmallMem!PlugBackward(x, i)
    PROVE  Kept(y, x) /\ AllApart(y.item, E)
<1>1. PICK p : p = x.item[i].prev
  OBVIOUS
<1>2. PICK n : n = x.item[i].next
  OBVIOUS
<1>3. i # E
  BY DEF SmallBase
<1>4. Ends(x.item, E, E, Header, i, n)
  BY <1>2, <1>3, SmallNext
<1>5. n \in 0..E /\ i < n
  BY <1>4 DEF Ends
<1>6. x.item[n].state = "used"
  BY <1>2, <1>5 DEF ApartFrom
<1>7. ASSUME NEW k \in 0..E, x.item[k].state = "free", x.item[k].next = i
      PROVE  k = p /\ k < i /\ p # i
  <2>1. k # E
    BY <1>7 DEF SmallBase
  <2>2. Ends(x.item, E, E, Header, k, i)
    BY <2>1, <1>7, SmallNext
  <2> QED BY <2>2, <1>1, <1>3 DEF Ends
<1>8. CASE p = i \/ x.item[p].state # "free"
  <2>1. y = x
    BY <1>1, <1>8 DEF SmallMem!PlugBackward, SmallMem!Is
  <2>2. AllApart(x.item, E)
    BY <1>7, <1>8 DEF AllApart, ApartFrom
  <2> QED BY <2>1, <2>2 DEF Kept
<1>9. CASE p # i /\ x.item[p].state = "free"
  <2>1. i # 0
    BY <1>1, <1>9 DEF SmallBase
  <2>2. p \in 0..E /\ p < i /\ p # E /\ x.item[p].next = i
    BY <2>1, <1>1, <1>3, SmallPrev
  <2>3. y = Plugged(x, p, i)
    BY <2>2, <1>1, <1>2, <1>9 DEF SmallMem!PlugBackward, SmallMem!Is, SmallMem!NoItem, Plugged, Merged
  <2>4. Joined(y, x, p, i)
    BY <2>2, <2>3, <1>9, PlugJoins
  <2>5. Kept(y, x)
    BY <2>2, <2>4, <1>9, JoinedKept
  <2>6. ASSUME NEW k \in 0..E, y.item[k].state = "free"
        PROVE  y.item[y.item[k].next].state = "used"
    <3>1. PICK l : l = y.item[k].next
      OBVIOUS
    <3>2. k # i /\ x.item[k].state = "free"
      BY <2>4, <2>6 DEF Joined
    <3>3. CASE k = p
      <4>1. l = n
        BY <3>1, <3>3, <2>4, <1>2 DEF Joined
      <4> QED BY <4>1, <3>1, <1>5, <1>6, <2>5 DEF Kept
    <3>4. CASE k # p
      <4>1. l = x.item[k].next
        BY <3>1, <3>2, <3>4, <2>4 DEF Joined
      <4>2. l # i
        BY <4>1, <3>2, <3>4, <1>7
      <4>3. x.item[l].state = "used"
        BY <4>1, <4>2, <3>2 DEF ApartFrom
      <4>4. l \in 0..E
        BY <4>1 DEF SmallBase, SmallState, Items
      <4> QED BY <3>1, <4>3, <4>4, <2>5 DEF Kept
    <3> QED BY <3>3, <3>4
  <2> QED BY <2>5, <2>6 DEF AllApart
<1> QED BY <1>8, <1>9

LEMMA PlugHolesKeeps ==
    ASSUME NEW x, SmallBase(x), NEW i \in 0..E, x.item[i].state = "free", ApartBut(x.item, E, i),
           NEW y, y = SmallMem!PlugHoles(x, i)
    PROVE  Kept(y, x) /\ AllApart(y.item, E)
<1>1. PICK f : f = SmallMem!PlugForward(x, i)
  OBVIOUS
<1>2. Kept(f, x) /\ f.item[i].state = "free" /\ ApartFrom(f.item, E, i)
  BY <1>1, PlugForwardKeeps
<1>3. y = SmallMem!PlugBackward(f, i)
  BY <1>1 DEF SmallMem!PlugHoles
<1>4. SmallBase(f)
  BY <1>2 DEF Kept
<1>5. Kept(y, f) /\ AllApart(y.item, E)
  BY <1>2, <1>3, <1>4, PlugBackwardKeeps
<1> QED BY <1>2, <1>5 DEF Kept

SmallOk(x) == SmallBase(x) /\ AllApart(x.item, E) /\ Lowest(x)

(* No item but i was taken into use, given back or resized.                  *)
OnlyAt(y, x, i) ==
    /\ \A k \in 0..E : k # i => (y.item[k].state = "used" <=> x.item[k].state = "used")
    /\ \A k \in 0..E : k # i /\ x.item[k].state = "used" => y.item[k].next = x.item[k].next

Marked(t, i, st) == [t EXCEPT ![i].state = st]

LEMMA MarkedFacts ==
    ASSUME NEW M \in Nat, NEW u \in [0..M -> Items(M)], NEW i \in 0..M, NEW st \in {"free", "used"},
           NEW t, t = Marked(u, i, st)
    PROVE  t \in [0..M -> Items(M)] /\ IsMark(t, u, M, i, st)
<1>1. u[i] \in Items(M)
  OBVIOUS
<1>2. PICK r : r = [u[i] EXCEPT !.state = st]
  OBVIOUS
<1>3. r \in Items(M) /\ r.state = st /\ r.next = u[i].next /\ r.prev = u[i].prev
  BY <1>1, <1>2 DEF Items
<1>4. t = [u EXCEPT ![i] = r]
  BY <1>2 DEF Marked
<1> QED BY <1>3, <1>4 DEF IsMark

LEMMA MarkedBase ==
    ASSUME NEW x, SmallBase(x), NEW i \in 0..E, x.item[i].state # "none", i # E,
           NEW st \in {"free", "used"}, NEW t, t = Marked(x.item, i, st),
           NEW y, y \in SmallState, y.item = t
    PROVE  /\ SmallBase(y)
           /\ y.item[i].state = st /\ y.item[i].next = x.item[i].next
           /\ \A k \in 0..E : k # i => y.item[k] = x.item[k]
<1>1. PICK u : u = x.item
  OBVIOUS
<1>2. Row(u, E, E, Header) /\ u \in [0..E -> Items(E)] /\ At(u, i)
  BY <1>1 DEF SmallBase, SmallState, At
<1>3. E \in Nat /\ E \in 0..E /\ 0 \in 0..E /\ Header \in Nat \ {0}
  BY EndFacts
<1>4. t \in [0..E -> Items(E)] /\ IsMark(t, u, E, i, st)
  <2>1. t = Marked(u, i, st) /\ u \in [0..E -> Items(E)] /\ E \in Nat
    BY <1>1, <1>2, <1>3
  <2> QED BY <2>1, MarkedFacts
<1>5. Row(t, E, E, Header)
  BY <1>2, <1>3, <1>4, MarkKeepsRow
<1>6. t[0].prev = 0
  BY <1>1, <1>3, <1>4 DEF IsMark, SmallBase
<1>7. t[E].state = "used" /\ t[E].next = E
  BY <1>1, <1>3, <1>4 DEF IsMark, SmallBase
<1>8. SmallBase(y)
  BY <1>5, <1>6, <1>7 DEF SmallBase
<1> QED BY <1>1, <1>4, <1>8 DEF IsMark

LEMMA FreeItemOk ==
    ASSUME NEW x, SmallOk(x), NEW i \in 0..E, x.item[i].state = "used", i # E,
           NEW y, y = SmallMem!FreeItem(x, i)
    PROVE  /\ SmallOk(y) /\ OnlyAt(y, x, i) /\ y.item[i].state # "used"
           /\ y.used = x.used - (x.item[i].next - i) /\ y.max = x.max
<1>1. PICK t : t = Marked(x.item, i, "free")
  OBVIOUS
<1>2. PICK l : l = IF i < x.lfree THEN i ELSE x.lfree
  OBVIOUS
<1>3. PICK m : m = x.used - (x.item[i].next - i)
  OBVIOUS
<1>4. PICK f : f = [x EXCEPT !.item = t, !.lfree = l, !.used = m]
  OBVIOUS
<1>5. y = SmallMem!PlugHoles(f, i)
  BY <1>1, <1>2, <1>3, <1>4 DEF SmallMem!FreeItem, Marked
<1>6. /\ SmallBase(x) /\ x \in SmallState /\ x.item \in [0..E -> Items(E)] /\ x.lfree \in 0..E
      /\ x.used \in Int /\ x.item[i].next \in 0..E
  BY DEF SmallOk, SmallBase, SmallState, Items
<1>7. t \in [0..E -> Items(E)] /\ l \in 0..E /\ m \in Int
  <2>1. t \in [0..E -> Items(E)]
    BY <1>1, <1>6, EndFacts, MarkedFacts
  <2> QED BY <2>1, <1>2, <1>3, <1>6
<1>8. f \in SmallState /\ f.item = t /\ f.lfree = l /\ f.used = m /\ f.max = x.max
  BY <1>4, <1>6, <1>7 DEF SmallState
<1>9. /\ SmallBase(f)
      /\ f.item[i].state = "free" /\ f.item[i].next = x.item[i].next
      /\ \A k \in 0..E : k # i => f.item[k] = x.item[k]
  BY <1>1, <1>6, <1>8, MarkedBase
<1>10. ApartBut(f.item, E, i)
  <2>1. ASSUME NEW k \in 0..E, f.item[k].state = "free", k # i, f.item[k].next # i
        PROVE  f.item[f.item[k].next].state = "used"
    <3>1. PICK n : n = x.item[k].next
      OBVIOUS
    <3>2. x.item[k].state = "free" /\ f.item[k].next = n /\ n # i /\ n \in 0..E
      BY <2>1, <3>1, <1>6, <1>9 DEF Items
    <3>3. x.item[n].state = "used"
      BY <3>1, <3>2 DEF SmallOk, AllApart
    <3> QED BY <3>2, <3>3, <1>9
  <2> QED BY <2>1 DEF ApartBut
<1>11. Lowest(f)
  <2>1. /\ x.lfree = E \/ x.item[x.lfree].state = "free"
        /\ \A k \in 0..E : k < x.lfree => x.item[k].state # "free"
    BY DEF SmallOk, Lowest
  <2>2. l = E \/ f.item[l].state = "free"
    BY <2>1, <1>2, <1>6, <1>9
  <2>3. \A k \in 0..E : k < l => f.item[k].state # "free"
    BY <2>1, <1>2, <1>6, <1>9
  <2> QED BY <2>2, <2>3, <1>8 DEF Lowest
<1>12. Kept(y, f) /\ AllApart(y.item, E)
  BY <1>5, <1>9, <1>10, PlugHolesKeeps
<1>13. OnlyAt(y, x, i)
  BY <1>9, <1>12 DEF Kept, OnlyAt
<1>14. y.item[i].state # "used" /\ y.used = m /\ y.max = x.max
  BY <1>8, <1>9, <1>12 DEF Kept
<1> QED BY <1>3, <1>11, <1>12, <1>13, <1>14 DEF Kept, SmallOk

Cut(t, i, j, e, N) ==
    LET s == [t EXCEPT ![j] = [state |-> "free", next |-> e, prev |-> i], ![i].next = j]
    IN  IF e # N THEN [s EXCEPT ![e].prev = j] ELSE s

LEMMA CutFacts ==
    ASSUME NEW M \in Nat, NEW N \in 0..M, NEW u \in [0..M -> Items(M)],
           NEW i \in 0..M, NEW j \in 0..M, NEW e \in 0..M, i # j, j # e, i # e,
           NEW t, t = Cut(u, i, j, e, N)
    PROVE  t \in [0..M -> Items(M)] /\ IsCut(t, u, M, i, j, e, N)
<1>1. u[i] \in Items(M) /\ u[e] \in Items(M)
  OBVIOUS
<1>2. PICK a : a = [state |-> "free", next |-> e, prev |-> i]
  OBVIOUS
<1>3. PICK b : b = [u[i] EXCEPT !.next = j]
  OBVIOUS
<1>4. PICK c : c = [u[e] EXCEPT !.prev = j]
  OBVIOUS
<1>5. a \in Items(M) /\ a.state = "free" /\ a.next = e /\ a.prev = i
  BY <1>2 DEF Items
<1>6. b \in Items(M) /\ b.state = u[i].state /\ b.next = j /\ b.prev = u[i].prev
  BY <1>1, <1>3 DEF Items
<1>7. c \in Items(M) /\ c.state = u[e].state /\ c.next = u[e].next /\ c.prev = j
  BY <1>1, <1>4 DEF Items
<1>8. PICK s : s = [u EXCEPT ![j] = a, ![i] = b]
  OBVIOUS
<1>9. /\ s \in [0..M -> Items(M)] /\ s[j] = a /\ s[i] = b /\ s[e] = u[e]
      /\ \A k \in 0..M : k # i /\ k # j => s[k] = u[k]
  BY <1>5, <1>6, <1>8
<1>10. t = IF e # N THEN [s EXCEPT ![e] = c] ELSE s
  <2>1. s = [u EXCEPT ![j] = [state |-> "free", next |-> e, prev |-> i], ![i].next = j]
    BY <1>2, <1>3, <1>8
  <2>2. [s EXCEPT ![e].prev = j] = [s EXCEPT ![e] = c]
    BY <1>4, <1>9
  <2> QED BY <2>1, <2>2 DEF Cut
<1>11. /\ t \in [0..M -> Items(M)] /\ t[j] = a /\ t[i] = b /\ t[e] = (IF e # N THEN c ELSE u[e])
       /\ \A k \in 0..M : k # i /\ k # j /\ k # e => t[k] = u[k]
  BY <1>7, <1>9, <1>10
<1> QED BY <1>5, <1>6, <1>7, <1>11 DEF IsCut

(* y is x after item i has been cut at j.                                    *)
SplitFrom(y, x, i, j) ==
    /\ SmallBase(y)
    /\ y.lfree = x.lfree /\ y.used = x.used /\ y.max = x.max
    /\ y.item[j].state = "free" /\ y.item[j].next = x.item[i].next /\ y.item[i].next = j
    /\ \A k \in 0..E : k # j => y.item[k].state = x.item[k].state
    /\ \A k \in 0..E : k # j /\ k # i => y.item[k].next = x.item[k].next

LEMMA SplitOk ==
    ASSUME NEW x, SmallBase(x), NEW i \in 0..E, x.item[i].state # "none", i # E, NEW n \in Nat,
           NEW j, j = i + Header + n, j + Header <= x.item[i].next, NEW y, y = SmallMem!Split(x, i, n)
    PROVE  SplitFrom(y, x, i, j) /\ j \in 0..E /\ i < j /\ j < x.item[i].next
<1>1. PICK u : u = x.item
  OBVIOUS
<1>2. PICK e : e = u[i].next
  OBVIOUS
<1>3. Ends(u, E, E, Header, i, e)
  BY <1>1, <1>2, SmallNext
<1>4. E \in Nat /\ E \in 0..E /\ 0 \in 0..E /\ Header \in Nat \ {0}
  BY EndFacts
<1>5. e \in 0..E /\ e <= E
  BY <1>3 DEF Ends
<1>6. j \in 0..E /\ i < j /\ j < e /\ i + Header <= j /\ j + Header <= e
  BY <1>1, <1>2, <1>4, <1>5
<1>7. PICK t : t = Cut(u, i, j, e, E)
  OBVIOUS
<1>8. Row(u, E, E, Header) /\ u \in [0..E -> Items(E)] /\ At(u, i)
  BY <1>1 DEF SmallBase, SmallState, At
<1>9. t \in [0..E -> Items(E)] /\ IsCut(t, u, E, i, j, e, E)
  BY <1>4, <1>5, <1>6, <1>7, <1>8, CutFacts
<1>10. Row(t, E, E, Header)
  BY <1>2, <1>4, <1>5, <1>6, <1>8, <1>9, CutKeepsRow
<1>11. y = [x EXCEPT !.item = t]
  BY <1>1, <1>2, <1>7 DEF SmallMem!Split, Cut, E
<1>12. x \in SmallState
  BY DEF SmallBase
<1>13. y \in SmallState /\ y.item = t /\ y.lfree = x.lfree /\ y.used = x.used /\ y.max = x.max
  BY <1>9, <1>11, <1>12 DEF SmallState
<1>14. t[0].prev = 0
  <2>1. u[0].prev = 0 /\ 0 # j /\ 0 # e
    BY <1>1, <1>4, <1>5, <1>6 DEF SmallBase
  <2> QED BY <2>1, <1>4, <1>9 DEF IsCut
<1>15. /\ t[j].state = "free" /\ t[j].next = e /\ t[i].next = j
       /\ \A k \in 0..E : k # j => t[k].state = u[k].state
       /\ \A k \in 0..E : k # j /\ k # i => t[k].next = u[k].next
  BY <1>9 DEF IsCut
<1>16. t[E].state = "used" /\ t[E].next = E
  <2>1. u[E].state = "used" /\ u[E].next = E /\ E # j
    BY <1>1, <1>4, <1>5, <1>6 DEF SmallBase
  <2> QED BY <2>1, <1>4, <1>15
<1>17. SmallBase(y)
  BY <1>10, <1>13, <1>14, <1>16 DEF SmallBase
<1> QED BY <1>1, <1>2, <1>6, <1>13, <1>15, <1>17 DEF SplitFrom

LEMMA AlignFacts ==
    ASSUME NEW n \in Nat
    PROVE  /\ SmallMem!AlignUp(n) \in Nat
           /\ n <= Word - Align => n <= SmallMem!AlignUp(n)
<1>1. Align \in Nat \ {0} /\ Word \in Nat \ {0}
  BY SmallMemAssumption
<1>2. PICK up : up = (n + Align - 1) % Word
  OBVIOUS
<1>3. up \in Nat /\ up % Align \in 0..(Align - 1)
  BY <1>1, <1>2
<1>4. up % Align <= up
  <2>1. PICK q : q = up \div Align
    OBVIOUS
  <2>2. q \in Nat /\ up = Align * q + (up % Align)
    BY <2>1, <1>1, <1>3
  <2>3. PICK m : m = Align * q
    OBVIOUS
  <2>4. m \in Nat
    BY <2>2, <2>3, <1>1
  <2> QED BY <2>2, <2>3, <2>4, <1>3
<1>5. n <= Word - Align => up = n + Align - 1
  BY <1>1, <1>2
<1>6. SmallMem!AlignUp(n) = up - (up % Align)
  BY <1>2 DEF SmallMem!AlignUp
<1>7. PICK r : r = up % Align
  OBVIOUS
<1>8. r \in 0..(Align - 1) /\ r <= up /\ SmallMem!AlignUp(n) = up - r
  BY <1>3, <1>4, <1>6, <1>7
<1> QED BY <1>1, <1>3, <1>5, <1>8

LEMMA NextFreeFacts ==
    ASSUME NEW x \in SmallState, x.item[E].state = "used", NEW i \in 0..E, NEW j, j = SmallMem!NextFree(x, i)
    PROVE  /\ j \in 0..E /\ j >= i /\ (j = E \/ x.item[j].state = "free")
           /\ \A l \in 0..E : i <= l /\ l < j => x.item[l].state # "free"
<1> DEFINE B == {l \in 0..E : l >= i /\ (x.item[l].state = "free" \/ l = E)}
<1>1. E \in Nat
  BY EndFacts
<1>2. B \in SUBSET Nat /\ E \in B
  BY <1>1
<1>3. PICK b \in B : \A l \in B : b <= l
  <2> HIDE DEF B
  <2> QED BY <1>2, Least
<1>4. \A l \in i..(b - 1) : l \in 0..E /\ l >= i /\ ~(b <= l)
  BY <1>1, <1>3
<1>5. \A l \in i..(b - 1) : l \notin B
  <2> HIDE DEF B
  <2> QED BY <1>3, <1>4
<1>6. \A l \in i..(b - 1) : x.item[l].state # "free"
  BY <1>4, <1>5
<1> DEFINE P(d) == /\ d >= i /\ (SmallMem!Is(x, d, "free") \/ d = SmallMem!End)
                   /\ \A l \in i..(d - 1) : ~SmallMem!Is(x, l, "free")
<1>7. P(b)
  BY <1>3, <1>6 DEF SmallMem!Is, E
<1>8. b \in SmallMem!Off
  BY <1>3, EndFacts
<1>9. j = CHOOSE d \in SmallMem!Off : P(d)
  BY DEF SmallMem!NextFree
<1>10. j \in SmallMem!Off /\ P(j)
  <2> HIDE DEF P
  <2> QED BY <1>7, <1>8, <1>9
<1>11. j \in 0..E /\ j >= i /\ (j = E \/ x.item[j].state = "free")
  BY <1>10, EndFacts DEF SmallMem!Is, E
<1>12. \A l \in i..(j - 1) : x.item[l].state # "free"
  BY <1>10 DEF SmallMem!Is
<1>13. \A l \in 0..E : i <= l /\ l < j => l \in i..(j - 1)
  BY <1>1, <1>11
<1> QED BY <1>11, <1>12, <1>13

LEMMA OccupyOk ==
    ASSUME NEW x, SmallOk(x), NEW i \in 0..E, x.item[i].state = "free", NEW n \in Nat,
           x.item[i].next - (i + Header) >= n, NEW y, y = SmallMem!Occupy(x, i, n)
    PROVE  /\ SmallOk(y) /\ OnlyAt(y, x, i) /\ y.item[i].state = "used"
           /\ y.item[i].next - (i + Header) >= n
           /\ y.used = x.used + (y.item[i].next - i)
           /\ y.max = (IF x.max < y.used THEN y.used ELSE x.max)
<1>1. PICK m : m = SmallMem!AlignUp(MinSize)
  OBVIOUS
<1>2. m \in Nat
  BY <1>1, AlignFacts, SmallMemAssumption
<1>3. i # E /\ SmallBase(x) /\ x \in SmallState
  BY DEF SmallOk, SmallBase
<1>4. Header \in Nat \ {0} /\ E \in Nat /\ E \in 0..E
  BY EndFacts
<1>5. PICK e : e = x.item[i].next
  OBVIOUS
<1>6. Ends(x.item, E, E, Header, i, e)
  BY <1>3, <1>5, SmallNext
<1>7. e \in 0..E /\ i < e
  BY <1>6 DEF Ends
<1>8. PICK s : s = IF SmallMem!Payload(x, i) >= n + Header + m THEN SmallMem!Split(x, i, n) ELSE x
  OBVIOUS
<1>9. SmallMem!Payload(x, i) = e - (i + Header)
  BY <1>5 DEF SmallMem!Payload
<1>10. /\ SmallBase(s) /\ s.lfree = x.lfree /\ s.used = x.used /\ s.max = x.max
       /\ s.item[i].state = "free" /\ s.item[i].next - (i + Header) >= n /\ s.item[i].next \in 0..E
       /\ \A k \in 0..E : s.item[k].state = "used" <=> x.item[k].state = "used"
       /\ \A k \in 0..E : x.item[k].state = "used" => s.item[k].next = x.item[k].next
       /\ \A k \in 0..E : s.item[k].state = "free" /\ x.item[k].state # "free" => k > i
       /\ \A k \in 0..E : x.item[k].state = "free" => s.item[k].state = "free"
       /\ \A k \in 0..E : s.item[k].state = "free" /\ k # i => s.item[s.item[k].next].state = "used"
  <2>1. CASE e - (i + Header) >= n + Header + m
    <3>1. s = SmallMem!Split(x, i, n)
      BY <2>1, <1>8, <1>9
    <3>2. PICK j : j = i + Header + n
      OBVIOUS
    <3>3. j + Header <= e
      BY <2>1, <3>2, <1>2, <1>4, <1>7
    <3>4. SplitFrom(s, x, i, j) /\ j \in 0..E /\ i < j /\ j < e
      BY <3>1, <3>2, <3>3, <1>3, <1>5, SplitOk
    <3>5. x.item[j].state = "none"
      <4>1. ~At(x.item, j)
        BY <3>4, <1>6, <1>7 DEF Ends
      <4> QED BY <4>1 DEF At
    <3>6. s.item[i].next = j /\ j - (i + Header) >= n
      BY <3>2, <3>4, <1>4 DEF SplitFrom
    <3>7. x.item[e].state = "used"
      BY <1>5 DEF SmallOk, AllApart
    <3>8. ASSUME NEW k \in 0..E, s.item[k].state = "free", k # i
          PROVE  s.item[s.item[k].next].state = "used"
      <4>1. CASE k = j
        BY <4>1, <3>4, <3>7, <1>5, <1>7 DEF SplitFrom
      <4>2. CASE k # j
        <5>1. PICK l : l = x.item[k].next
          OBVIOUS
        <5>2. l \in 0..E /\ x.item[k].state = "free" /\ s.item[k].next = l
          BY <4>2, <5>1, <3>4, <3>8, <1>3 DEF SplitFrom, SmallState, Items
        <5>3. x.item[l].state = "used"
          BY <5>1, <5>2 DEF SmallOk, AllApart
        <5>4. l # j
          BY <5>3, <3>5
        <5> QED BY <5>2, <5>3, <5>4, <3>4 DEF SplitFrom
      <4> QED BY <4>1, <4>2
    <3> QED BY <3>4, <3>5, <3>6, <3>8 DEF SplitFrom
  <2>2. CASE ~(e - (i + Header) >= n + Header + m)
    <3>1. s = x
      BY <2>2, <1>8, <1>9
    <3> QED BY <3>1, <1>3, <1>5, <1>7 DEF SmallOk, AllApart
  <2> QED BY <2>1, <2>2
<1>11. PICK f : f = s.item[i].next
  OBVIOUS
<1>12. PICK w : w = s.used + f - i
  OBVIOUS
<1>13. PICK t : t = Marked(s.item, i, "used")
  OBVIOUS
<1>14. PICK u : u = [s EXCEPT !.item = t, !.used = w]
  OBVIOUS
<1>15. s \in SmallState /\ f \in 0..E /\ s.used \in Int /\ s.item \in [0..E -> Items(E)]
  BY <1>10, <1>11 DEF SmallBase, SmallState
<1>16. t \in [0..E -> Items(E)] /\ w \in Int
  <2>1. t \in [0..E -> Items(E)]
    BY <1>4, <1>13, <1>15, MarkedFacts
  <2> QED BY <2>1, <1>12, <1>15
<1>17. u \in SmallState /\ u.item = t /\ u.lfree = x.lfree /\ u.used = w /\ u.max = x.max
  BY <1>10, <1>14, <1>15, <1>16 DEF SmallState
<1>18. /\ SmallBase(u)
       /\ u.item[i].state = "used" /\ u.item[i].next = f
       /\ \A k \in 0..E : k # i => u.item[k] = s.item[k]
  BY <1>3, <1>10, <1>11, <1>13, <1>17, MarkedBase
<1>19. PICK l : l = IF i = x.lfree THEN SmallMem!NextFree(u, i) ELSE x.lfree
  OBVIOUS
<1>20. PICK b : b = IF x.max < w THEN w ELSE x.max
  OBVIOUS
<1>21. l \in 0..E /\ (l = E \/ u.item[l].state = "free")
       /\ \A k \in 0..E : k < l => u.item[k].state # "free"
  <2>1. x.lfree \in 0..E
    BY <1>3 DEF SmallState
  <2>2. /\ x.lfree = E \/ x.item[x.lfree].state = "free"
        /\ \A k \in 0..E : k < x.lfree => x.item[k].state # "free"
    BY DEF SmallOk, Lowest
  <2>3. x.lfree <= i
    BY <2>1, <2>2
  <2>4. \A k \in 0..E : k < x.lfree => u.item[k].state # "free"
    BY <2>1, <2>2, <2>3, <1>10, <1>18
  <2>5. CASE i = x.lfree
    <3>1. l = SmallMem!NextFree(u, i)
      BY <2>5, <1>19
    <3>2. u.item[E].state = "used"
      BY <1>18 DEF SmallBase
    <3>3. /\ l \in 0..E /\ l >= i /\ (l = E \/ u.item[l].state = "free")
          /\ \A k \in 0..E : i <= k /\ k < l => u.item[k].state # "free"
      BY <3>1, <3>2, <1>17, NextFreeFacts
    <3> QED BY <3>3, <2>4, <2>5
  <2>6. CASE i # x.lfree
    <3>1. l = x.lfree /\ l # E
      BY <2>1, <2>3, <2>6, <1>19
    <3>2. u.item[l].state = "free"
      BY <3>1, <2>1, <2>2, <2>6, <1>10, <1>18
    <3> QED BY <3>1, <3>2, <2>1, <2>4
  <2> QED BY <2>5, <2>6
<1>22. b \in Nat
  <2>1. x.max \in Nat
    BY <1>3 DEF SmallState
  <2> QED BY <2>1, <1>16, <1>20
<1>23. y = [u EXCEPT !.lfree = l, !.max = b]
  <2>1. u = [s EXCEPT !.item[i].state = "used", !.used = @ + s.item[i].next - i]
    BY <1>11, <1>12, <1>13, <1>14 DEF Marked
  <2>2. y = [(IF i = u.lfree THEN [u EXCEPT !.lfree = SmallMem!NextFree(u, i)] ELSE u)
                EXCEPT !.max = IF @ < (IF i = u.lfree THEN [u EXCEPT !.lfree = SmallMem!NextFree(u, i)]
                                       ELSE u).used
                               THEN (IF i = u.lfree THEN [u EXCEPT !.lfree = SmallMem!NextFree(u, i)]
                                     ELSE u).used ELSE @]
    BY <2>1, <1>1, <1>8 DEF SmallMem!Occupy
  <2>3. PICK g : g = IF i = u.lfree THEN [u EXCEPT !.lfree = SmallMem!NextFree(u, i)] ELSE u
    OBVIOUS
  <2>4. g = [u EXCEPT !.lfree = l] /\ g.used = w /\ g.max = x.max
    BY <2>3, <1>17, <1>19 DEF SmallState
  <2>5. y = [g EXCEPT !.max = b]
    BY <2>2, <2>3, <2>4, <1>20
  <2> QED BY <2>4, <2>5, <1>17 DEF SmallState
<1>24. /\ y \in SmallState /\ y.item = u.item /\ y.lfree = l /\ y.used = w /\ y.max = b
  BY <1>17, <1>21, <1>22, <1>23 DEF SmallState
<1>25. SmallBase(y) /\ Lowest(y)
  BY <1>18, <1>21, <1>24 DEF SmallBase, Lowest
<1>26. AllApart(y.item, E)
  <2>1. ASSUME NEW k \in 0..E, u.item[k].state = "free" PROVE u.item[u.item[k].next].state = "used"
    <3>1. PICK q : q = s.item[k].next
      OBVIOUS
    <3>2. k # i /\ s.item[k].state = "free" /\ u.item[k].next = q /\ q \in 0..E
      BY <2>1, <3>1, <1>15, <1>18 DEF Items
    <3>3. s.item[q].state = "used"
      BY <3>1, <3>2, <1>10
    <3> QED BY <3>2, <3>3, <1>18
  <2> QED BY <2>1, <1>24 DEF AllApart
<1>27. OnlyAt(y, x, i)
  BY <1>10, <1>18, <1>24 DEF OnlyAt
<1>28. y.item[i].state = "used" /\ y.item[i].next = f /\ f - (i + Header) >= n
  BY <1>10, <1>11, <1>18, <1>24
<1>29. y.used = x.used + (f - i)
  BY <1>10, <1>12, <1>15, <1>24
<1>30. y.max = (IF x.max < y.used THEN y.used ELSE x.max)
  BY <1>20, <1>24
<1> QED BY <1>25, <1>26, <1>27, <1>28, <1>29, <1>30 DEF SmallOk

LEMMA ShrinkOk ==
    ASSUME NEW x, SmallOk(x), NEW i \in 0..E, x.item[i].state = "used", i # E, NEW n \in Nat,
           NEW j, j = i + Header + n, j + Header <= x.item[i].next, NEW y, y = SmallMem!Shrink(x, i, n)
    PROVE  /\ SmallOk(y) /\ OnlyAt(y, x, i) /\ y.item[i].state = "used" /\ y.item[i].next = j
           /\ y.used = x.used - (x.item[i].next - j) /\ y.max = x.max
<1>1. PICK e : e = x.item[i].next
  OBVIOUS
<1>2. SmallBase(x) /\ x \in SmallState /\ x.lfree \in 0..E /\ x.used \in Int
  BY DEF SmallOk, SmallBase, SmallState
<1>3. Ends(x.item, E, E, Header, i, e)
  BY <1>1, <1>2, SmallNext
<1>4. e \in 0..E /\ i < e
  BY <1>3 DEF Ends
<1>5. Header \in Nat \ {0}
  BY EndFacts
<1>6. PICK m : m = x.used - (SmallMem!Payload(x, i) - n)
  OBVIOUS
<1>7. m = x.used - (e - j) /\ m \in Int
  BY <1>1, <1>2, <1>4, <1>5, <1>6 DEF SmallMem!Payload
<1>8. PICK f : f = [x EXCEPT !.used = m]
  OBVIOUS
<1>9. f \in SmallState /\ f.item = x.item /\ f.lfree = x.lfree /\ f.used = m /\ f.max = x.max
  BY <1>2, <1>7, <1>8 DEF SmallState
<1>10. SmallBase(f)
  BY <1>2, <1>9 DEF SmallBase
<1>11. PICK s : s = SmallMem!Split(f, i, n)
  OBVIOUS
<1>12. SplitFrom(s, f, i, j) /\ j \in 0..E /\ i < j /\ j < e
  BY <1>1, <1>9, <1>10, <1>11, SplitOk
<1>13. PICK l : l = IF j < s.lfree THEN j ELSE s.lfree
  OBVIOUS
<1>14. PICK g : g = [s EXCEPT !.lfree = l]
  OBVIOUS
<1>15. s \in SmallState /\ s.lfree = x.lfree
  BY <1>9, <1>12 DEF SplitFrom, SmallBase
<1>16. l \in 0..E /\ g \in SmallState /\ g.item = s.item /\ g.lfree = l /\ g.used = s.used /\ g.max = s.max
  BY <1>2, <1>12, <1>13, <1>14, <1>15 DEF SmallState
<1>17. SmallBase(g)
  BY <1>12, <1>16 DEF SplitFrom, SmallBase
<1>18. y = SmallMem!PlugHoles(g, j)
  BY <1>6, <1>8, <1>11, <1>13, <1>14 DEF SmallMem!Shrink
<1>19. /\ g.item[j].state = "free" /\ g.item[j].next = e /\ g.item[i].next = j
       /\ \A k \in 0..E : k # j => g.item[k].state = x.item[k].state
       /\ \A k \in 0..E : k # j /\ k # i => g.item[k].next = x.item[k].next
       /\ g.used = m /\ g.max = x.max
  BY <1>1, <1>9, <1>12, <1>16 DEF SplitFrom
<1>20. x.item[j].state = "none"
  <2>1. ~At(x.item, j)
    BY <1>3, <1>4, <1>12 DEF Ends
  <2> QED BY <2>1 DEF At
<1>21. ApartBut(g.item, E, j)
  <2>1. ASSUME NEW k \in 0..E, g.item[k].state = "free", k # j, g.item[k].next # j
        PROVE  g.item[g.item[k].next].state = "used"
    <3>1. PICK q : q = x.item[k].next
      OBVIOUS
    <3>2. x.item[k].state = "free" /\ g.item[k].next = q /\ q # j /\ q \in 0..E
      BY <2>1, <3>1, <1>2, <1>19 DEF SmallState, Items
    <3>3. x.item[q].state = "used"
      BY <3>1, <3>2 DEF SmallOk, AllApart
    <3> QED BY <3>2, <3>3, <1>19
  <2> QED BY <2>1 DEF ApartBut
<1>22. Lowest(g)
  <2>1. /\ x.lfree = E \/ x.item[x.lfree].state = "free"
        /\ \A k \in 0..E : k < x.lfree => x.item[k].state # "free"
    BY DEF SmallOk, Lowest
  <2>2. l = IF j < x.lfree THEN j ELSE x.lfree
    BY <1>13, <1>15
  <2>3. l = E \/ g.item[l].state = "free"
    BY <2>1, <2>2, <1>2, <1>19
  <2>4. \A k \in 0..E : k < l => g.item[k].state # "free"
    BY <2>1, <2>2, <1>2, <1>12, <1>19
  <2> QED BY <2>3, <2>4, <1>16 DEF Lowest
<1>23. Kept(y, g) /\ AllApart(y.item, E)
  BY <1>12, <1>17, <1>18, <1>19, <1>21, PlugHolesKeeps
<1>24. SmallOk(y)
  BY <1>22, <1>23 DEF SmallOk, Kept
<1>25. OnlyAt(y, x, i)
  BY <1>19, <1>20, <1>23 DEF OnlyAt, Kept
<1>26. y.item[i].state = "used" /\ y.item[i].next = j
  BY <1>12, <1>19, <1>23 DEF Kept
<1> QED BY <1>1, <1>7, <1>19, <1>23, <1>24, <1>25, <1>26 DEF Kept

LEMMA FirstFitFacts ==
    ASSUME NEW x, SmallBase(x), NEW n, SmallMem!CanAlloc(x, n), n \in Nat, NEW r, r = SmallMem!Rounded(n),
           NEW i, i = SmallMem!FirstFit(x, r)
    PROVE  i \in 0..E /\ x.item[i].state = "free" /\ x.item[i].next - (i + Header) >= r /\ r \in Nat
           /\ SmallMem!AlignUp(n) <= r
<1> DEFINE B == {k \in 0..E : SmallMem!Fits(x, k, r)}
<1>1. E \in Nat /\ SmallMem!Off = 0..E
  BY EndFacts
<1>2. B \in SUBSET Nat /\ B # {}
  BY <1>1 DEF SmallMem!CanAlloc
<1>3. PICK b \in B : \A l \in B : b <= l
  <2> HIDE DEF B
  <2> QED BY <1>2, Least
<1>4. i \in 0..E /\ SmallMem!Fits(x, i, r)
  BY <1>1, <1>3 DEF SmallMem!FirstFit
<1>5. x.item[i].state = "free" /\ x.item[i].next - (i + Header) >= r
  BY <1>4 DEF SmallMem!Fits, SmallMem!Is, SmallMem!Payload
<1>6. r \in Nat /\ SmallMem!AlignUp(n) <= r
  <2>1. SmallMem!AlignUp(n) \in Nat /\ SmallMem!AlignUp(MinSize) \in Nat
    BY AlignFacts, SmallMemAssumption
  <2> QED BY <2>1 DEF SmallMem!Rounded
<1> QED BY <1>4, <1>5, <1>6

-----------------------------------------------------------------------------
(* What the items in use add up to.                                          *)
Weight(t, k) == IF k # E /\ t[k].state = "used" THEN t[k].next - k ELSE 0

Sums(t, z, n) == /\ z \in [0..n -> Int] /\ z[0] = Weight(t, 0)
                 /\ \A k \in 1..n : z[k] = Weight(t, k) + z[k - 1]

LEMMA WeightType ==
    ASSUME NEW t \in [0..E -> Items(E)], NEW k \in 0..E
    PROVE  Weight(t, k) \in Int
<1>1. t[k].next \in 0..E
  BY DEF Items
<1>2. E \in Nat
  BY EndFacts
<1> QED BY <1>1, <1>2 DEF Weight

LEMMA SumsExist ==
    ASSUME NEW t \in [0..E -> Items(E)]
    PROVE  \E z : Sums(t, z, E)
<1>1. E \in Nat /\ 0 \in 0..E
  BY EndFacts
<1>2. PICK w : w = [k \in 0..E |-> Weight(t, k)]
  OBVIOUS
<1>3. w \in [0..E -> Int]
  BY <1>2, WeightType
<1>4. PICK z : Totals(w, z, E)
  BY <1>1, <1>3, TotalsExist
<1>5. \A k \in 1..E : k \in 0..E
  BY <1>1
<1>6. Sums(t, z, E)
  BY <1>1, <1>2, <1>4, <1>5 DEF Totals, Sums
<1> QED BY <1>6

(* Where one weight changes, so does the sum.                                *)
LEMMA SumsChange ==
    ASSUME NEW t \in [0..E -> Items(E)], NEW u \in [0..E -> Items(E)], NEW z, NEW w,
           Sums(t, z, E), Sums(u, w, E), NEW i \in 0..E,
           \A k \in 0..E : k # i => Weight(u, k) = Weight(t, k),
           NEW d, d = Weight(u, i) - Weight(t, i)
    PROVE  w[E] = z[E] + d
<1>1. E \in Nat /\ 0 \in 0..E
  BY EndFacts
<1>2. PICK f : f = [k \in 0..E |-> Weight(t, k)]
  OBVIOUS
<1>3. PICK g : g = [k \in 0..E |-> Weight(u, k)]
  OBVIOUS
<1>4. f \in [0..E -> Int] /\ g \in [0..E -> Int]
  BY <1>2, <1>3, WeightType
<1>5. \A k \in 1..E : k \in 0..E
  BY <1>1
<1>6. Totals(f, z, E) /\ Totals(g, w, E)
  BY <1>1, <1>2, <1>3, <1>5 DEF Totals, Sums
<1>7. (\A k \in 0..E : k # i => g[k] = f[k]) /\ d = g[i] - f[i]
  BY <1>2, <1>3
<1>8. DifferAt(g, f, E, i)
  BY <1>7 DEF DifferAt
<1>9. MovedBy(w, z, E, g[i] - f[i])
  BY <1>1, <1>4, <1>6, <1>8, TotalsChange
<1> QED BY <1>7, <1>9 DEF MovedBy

(* The items lie one behind the other, so they add up to the heap at most.   *)
LEMMA SumsBound ==
    ASSUME NEW x, SmallBase(x), NEW z, Sums(x.item, z, E)
    PROVE  z[E] <= E
<1>1. PICK t : t = x.item
  OBVIOUS
<1>2. t \in [0..E -> Items(E)] /\ Row(t, E, E, Header)
  BY <1>1 DEF SmallBase, SmallState
<1>3. E \in Nat /\ E \in 0..E /\ Header \in Nat \ {0}
  BY EndFacts
<1> DEFINE Stop(k) == IF k = E THEN E ELSE t[k].next
           Under(n) == \A k \in 0..E : /\ At(t, k) /\ k <= n
                                       /\ \A l \in 0..E : k < l /\ l <= n => ~At(t, l)
                                       => z[n] <= Stop(k)
           T == {n \in Nat : n <= E /\ ~Under(n)}
<1>4. /\ \A k \in 0..E : z[k] \in Int
      /\ z[0] = Weight(t, 0)
      /\ \A k \in 1..E : z[k] = Weight(t, k) + z[k - 1]
  BY <1>1 DEF Sums
<1>5. T = {}
  <2> SUFFICES ASSUME T # {} PROVE FALSE
    OBVIOUS
  <2>1. PICK n \in T : \A l \in T : n <= l
    <3>1. T \subseteq Nat
      OBVIOUS
    <3> HIDE DEF T
    <3> QED BY <3>1, Least
  <2>2. n \in Nat /\ n <= E /\ ~Under(n) /\ n \in 0..E
    OBVIOUS
  <2>3. PICK k \in 0..E : /\ At(t, k) /\ k <= n /\ ~(z[n] <= Stop(k))
                          /\ \A l \in 0..E : k < l /\ l <= n => ~At(t, l)
    BY <2>2
  <2>4. PICK s : s = Stop(k)
    OBVIOUS
  <2>5. s \in 0..E /\ ~(z[n] <= s)
    <3>1. k # E => t[k].next \in 0..E
      BY <1>2 DEF Items
    <3> QED BY <3>1, <2>3, <2>4, <1>3
  <2>6. ASSUME n # 0 PROVE n - 1 \in 0..E /\ Under(n - 1) /\ n \in 1..E
    <3>1. n - 1 \in Nat /\ ~(n <= n - 1) /\ n - 1 <= E
      <4> HIDE DEF T, Under
      <4> QED BY <2>2, <2>6, <1>3
    <3>2. n - 1 \notin T
      <4> HIDE DEF T
      <4> QED BY <2>1, <3>1
    <3>3. Under(n - 1)
      BY <3>1, <3>2
    <3> HIDE DEF T, Under
    <3> QED BY <3>1, <3>3, <2>2, <2>6
  <2>7. PICK w : w = Weight(t, n)
    OBVIOUS
  <2>8. CASE At(t, n)
    <3>1. k = n
      <4>1. ~(k < n)
        BY <2>2, <2>3, <2>8
      <4> QED BY <4>1, <2>2, <2>3
    <3>2. w \in Int /\ w <= s - n
      <4>1. CASE n = E
        BY <4>1, <3>1, <2>4, <2>7, <1>3 DEF Weight
      <4>2. CASE n # E
        <5>1. s = t[n].next /\ n < s
          <6>1. s = t[n].next
            BY <4>2, <3>1, <2>4
          <6>2. Ends(t, E, E, Header, n, s)
            BY <6>1, <4>2, <2>2, <2>8, <1>2, <1>3, RowNext
          <6> QED BY <6>1, <6>2 DEF Ends
        <5> QED BY <5>1, <4>2, <2>2, <2>5, <2>7 DEF Weight
      <4> QED BY <4>1, <4>2
    <3>3. CASE n = 0
      <4>1. z[n] = w
        BY <3>3, <2>7, <1>4
      <4> QED BY <4>1, <3>2, <3>3, <2>5
    <3>4. CASE n # 0
      <4>1. PICK p \in 0..E : At(t, p) /\ p # E /\ p < n /\ t[p].next = n
        BY <3>4, <2>2, <2>8, <1>2, <1>3, RowPrev
      <4>2. Ends(t, E, E, Header, p, n)
        BY <4>1, <1>2, <1>3, RowNext
      <4>3. p <= n - 1 /\ \A l \in 0..E : p < l /\ l <= n - 1 => ~At(t, l)
        BY <4>1, <4>2, <2>2 DEF Ends
      <4>4. Stop(p) = n
        BY <4>1
      <4>5. z[n - 1] <= n
        BY <4>1, <4>3, <4>4, <2>6, <3>4
      <4>6. z[n] = w + z[n - 1] /\ z[n - 1] \in Int
        BY <3>4, <2>6, <2>7, <1>4
      <4>7. PICK q : q = z[n - 1]
        OBVIOUS
      <4>8. q \in Int /\ q <= n /\ z[n] = w + q
        BY <4>5, <4>6, <4>7
      <4>9. z[n] <= s
        BY <4>8, <3>2, <2>2, <2>5
      <4> QED BY <4>9, <2>5
    <3> QED BY <3>3, <3>4
  <2>9. CASE ~At(t, n)
    <3>1. n # 0 /\ w = 0 /\ k # n
      <4>1. At(t, 0)
        BY <1>2 DEF Row
      <4>2. t[n].state = "none"
        BY <2>9 DEF At
      <4> QED BY <4>1, <4>2, <2>3, <2>7, <2>9 DEF Weight
    <3>2. k <= n - 1 /\ \A l \in 0..E : k < l /\ l <= n - 1 => ~At(t, l)
      BY <3>1, <2>2, <2>3
    <3>3. z[n - 1] <= s
      BY <3>1, <3>2, <2>3, <2>4, <2>6
    <3>4. z[n] = w + z[n - 1] /\ z[n - 1] \in Int
      BY <3>1, <2>6, <2>7, <1>4
    <3> QED BY <3>1, <3>3, <3>4, <2>5
  <2> QED BY <2>8, <2>9
<1>6. Under(E)
  BY <1>3, <1>5
<1>7. At(t, E)
  BY <1>2 DEF Row
<1>8. Stop(E) = E
  OBVIOUS
<1>9. \A l \in 0..E : E < l /\ l <= E => ~At(t, l)
  BY <1>3
<1> HIDE DEF Stop
<1> QED BY <1>3, <1>6, <1>7, <1>8, <1>9

Accounts(x) ==
    /\ \A z : Sums(x.item, z, E) => x.used = z[E]
    /\ x.used <= x.max /\ x.max <= E

(* Sizes asked for belong to the items in use and fit into them.             *)
LiveOk(x, lv) ==
    /\ lv \in [0..E -> Nat]
    /\ \A k \in 0..E : lv[k] > 0 <=> (k # E /\ x.item[k].state = "used")
    /\ \A k \in 0..E : lv[k] > 0 => lv[k] <= x.item[k].next - (k + Header)

SmallInv(x, lv) == SmallOk(x) /\ Accounts(x) /\ LiveOk(x, lv)

LEMMA AccountsKept ==
    ASSUME NEW x, SmallOk(x), Accounts(x), NEW y, SmallOk(y), NEW i \in 0..E, OnlyAt(y, x, i),
           y.used = x.used + (Weight(y.item, i) - Weight(x.item, i)),
           \/ y.max = x.max /\ y.used <= x.used
           \/ y.max = (IF x.max < y.used THEN y.used ELSE x.max)
    PROVE  Accounts(y)
<1>1. PICK t : t = x.item
  OBVIOUS
<1>2. PICK u : u = y.item
  OBVIOUS
<1>3. t \in [0..E -> Items(E)] /\ u \in [0..E -> Items(E)] /\ y.used \in Int /\ x.used \in Int /\ x.max \in Nat
  BY <1>1, <1>2 DEF SmallOk, SmallBase, SmallState
<1>4. ASSUME NEW k \in 0..E, k # i PROVE Weight(u, k) = Weight(t, k)
  BY <1>1, <1>2, <1>4 DEF OnlyAt, Weight
<1>5. PICK z : Sums(t, z, E)
  BY <1>3, SumsExist
<1>6. x.used = z[E]
  BY <1>1, <1>5 DEF Accounts
<1>7. ASSUME NEW w, Sums(u, w, E) PROVE y.used = w[E]
  <2>1. PICK d : d = Weight(u, i) - Weight(t, i)
    OBVIOUS
  <2>2. w[E] = z[E] + d
    BY <2>1, <1>3, <1>4, <1>5, <1>7, SumsChange
  <2>3. y.used = x.used + d
    BY <2>1, <1>1, <1>2
  <2> QED BY <2>2, <2>3, <1>6
<1>8. PICK w : Sums(u, w, E)
  BY <1>3, SumsExist
<1>9. w[E] <= E
  BY <1>2, <1>8, SumsBound DEF SmallOk
<1>10. y.used <= E
  BY <1>7, <1>8, <1>9
<1>11. y.used <= y.max /\ y.max <= E
  <2>1. x.used <= x.max /\ x.max <= E /\ E \in Nat
    BY EndFacts DEF Accounts
  <2> QED BY <2>1, <1>3, <1>10
<1> QED BY <1>2, <1>7, <1>11 DEF Accounts

LEMMA LiveKept ==
    ASSUME NEW x, NEW y, NEW lv, LiveOk(x, lv), NEW i \in 0..E, i # E, OnlyAt(y, x, i), NEW n \in Nat,
           n > 0 <=> y.item[i].state = "used", n > 0 => n <= y.item[i].next - (i + Header),
           NEW lw, lw = [lv EXCEPT ![i] = n]
    PROVE  LiveOk(y, lw)
<1>1. lv \in [0..E -> Nat]
  BY DEF LiveOk
<1>2. lw \in [0..E -> Nat] /\ lw[i] = n /\ \A k \in 0..E : k # i => lw[k] = lv[k]
  BY <1>1
<1>3. ASSUME NEW k \in 0..E PROVE lw[k] > 0 <=> (k # E /\ y.item[k].state = "used")
  BY <1>2 DEF LiveOk, OnlyAt
<1>4. ASSUME NEW k \in 0..E, lw[k] > 0 PROVE lw[k] <= y.item[k].next - (k + Header)
  <2>1. CASE k = i
    BY <2>1, <1>2, <1>4
  <2>2. CASE k # i
    <3>1. lv[k] > 0 /\ x.item[k].state = "used" /\ lv[k] <= x.item[k].next - (k + Header)
      BY <2>2, <1>2, <1>4 DEF LiveOk
    <3>2. y.item[k].next = x.item[k].next
      BY <2>2, <3>1 DEF OnlyAt
    <3> QED BY <2>2, <3>1, <3>2, <1>2
  <2> QED BY <2>1, <2>2
<1> QED BY <1>2, <1>3, <1>4 DEF LiveOk

(* The free item i becomes the block of n bytes, and no other block moves.   *)
Allocated(x, lv, i, n, y, lw) ==
    /\ SmallInv(y, lw)
    /\ i \in 0..E /\ i # E /\ x.item[i].state = "free" /\ lv[i] = 0
    /\ n <= x.item[i].next - (i + Header) /\ OnlyAt(y, x, i)

LEMMA SmallAllocates ==
    ASSUME NEW x, NEW lv, SmallInv(x, lv), NEW m \in Nat, SmallMem!CanAlloc(x, m),
           NEW r, r = SmallMem!Rounded(m), NEW i, i = SmallMem!FirstFit(x, r),
           NEW n \in Nat, n > 0, n <= r,
           NEW y, y = SmallMem!Occupy(x, i, r), NEW lw, lw = [lv EXCEPT ![i] = n]
    PROVE  Allocated(x, lv, i, n, y, lw)
<1>1. SmallOk(x) /\ SmallBase(x) /\ Accounts(x) /\ LiveOk(x, lv) /\ lv \in [0..E -> Nat]
  BY DEF SmallInv, SmallOk, LiveOk
<1>2. i \in 0..E /\ x.item[i].state = "free" /\ x.item[i].next - (i + Header) >= r /\ r \in Nat
  BY <1>1, FirstFitFacts
<1>3. i # E
  BY <1>1, <1>2 DEF SmallBase
<1>4. /\ SmallOk(y) /\ OnlyAt(y, x, i) /\ y.item[i].state = "used"
      /\ y.item[i].next - (i + Header) >= r
      /\ y.used = x.used + (y.item[i].next - i)
      /\ y.max = (IF x.max < y.used THEN y.used ELSE x.max)
  BY <1>1, <1>2, OccupyOk
<1>5. lv[i] = 0
  BY <1>1, <1>2 DEF LiveOk
<1>6. Header \in Nat /\ x.item[i].next \in 0..E /\ y.item[i].next \in 0..E /\ x.used \in Int
  BY <1>1, <1>2, <1>4, EndFacts DEF SmallOk, SmallBase, SmallState, Items
<1>7. n <= x.item[i].next - (i + Header) /\ n <= y.item[i].next - (i + Header)
  BY <1>2, <1>4, <1>6
<1>8. Weight(x.item, i) = 0 /\ Weight(y.item, i) = y.item[i].next - i
  BY <1>2, <1>3, <1>4 DEF Weight
<1>9. y.used = x.used + (Weight(y.item, i) - Weight(x.item, i))
  <2>1. PICK f : f = y.item[i].next
    OBVIOUS
  <2>2. i \in 0..E /\ f \in 0..E /\ x.used \in Int /\ y.used = x.used + (f - i)
    BY <2>1, <1>2, <1>4, <1>6
  <2>3. Weight(x.item, i) = 0 /\ Weight(y.item, i) = f - i
    BY <2>1, <1>8
  <2> QED BY <2>2, <2>3
<1>10. Accounts(y)
  BY <1>1, <1>2, <1>4, <1>9, AccountsKept
<1>11. n > 0 <=> y.item[i].state = "used"
  BY <1>4
<1>12. LiveOk(y, lw)
  BY <1>1, <1>2, <1>3, <1>4, <1>7, <1>11, LiveKept
<1> QED BY <1>2, <1>3, <1>4, <1>5, <1>7, <1>10, <1>12 DEF SmallInv, Allocated

LEMMA SmallFrees ==
    ASSUME NEW x, NEW lv, SmallInv(x, lv), NEW i \in 0..E, i # E, x.item[i].state = "used",
           NEW y, y = SmallMem!FreeItem(x, i), NEW n \in Nat, n = 0, NEW lw, lw = [lv EXCEPT ![i] = n]
    PROVE  SmallInv(y, lw)
<1>1. SmallOk(x) /\ SmallBase(x) /\ Accounts(x) /\ LiveOk(x, lv)
  BY DEF SmallInv, SmallOk
<1>2. /\ SmallOk(y) /\ OnlyAt(y, x, i) /\ y.item[i].state # "used"
      /\ y.used = x.used - (x.item[i].next - i) /\ y.max = x.max
  BY <1>1, FreeItemOk
<1>3. PICK e : e = x.item[i].next
  OBVIOUS
<1>4. Ends(x.item, E, E, Header, i, e)
  BY <1>1, <1>3, SmallNext
<1>5. e \in 0..E /\ i < e /\ x.used \in Int
  BY <1>1, <1>4 DEF Ends, SmallBase, SmallState
<1>6. Weight(y.item, i) = 0 /\ Weight(x.item, i) = e - i
  BY <1>2, <1>3 DEF Weight
<1>7. y.used = x.used + (Weight(y.item, i) - Weight(x.item, i)) /\ y.used <= x.used
  BY <1>2, <1>3, <1>5, <1>6
<1>8. Accounts(y)
  BY <1>1, <1>2, <1>7, AccountsKept
<1>9. (n > 0 <=> y.item[i].state = "used") /\ (n > 0 => n <= y.item[i].next - (i + Header))
  BY <1>2
<1>10. LiveOk(y, lw)
  BY <1>1, <1>2, <1>9, LiveKept
<1> QED BY <1>2, <1>8, <1>10 DEF SmallInv

LEMMA SmallShrinks ==
    ASSUME NEW x, NEW lv, SmallInv(x, lv), NEW i \in 0..E, i # E, x.item[i].state = "used",
           NEW m \in Nat, m + Header + MinSize < SmallMem!Payload(x, i), NEW n \in Nat, n > 0, n <= m,
           NEW y, y = SmallMem!Shrink(x, i, m), NEW lw, lw = [lv EXCEPT ![i] = n]
    PROVE  SmallInv(y, lw) /\ n <= x.item[i].next - (i + Header)
<1>1. SmallOk(x) /\ SmallBase(x) /\ Accounts(x) /\ LiveOk(x, lv)
  BY DEF SmallInv, SmallOk
<1>2. PICK e : e = x.item[i].next
  OBVIOUS
<1>3. Ends(x.item, E, E, Header, i, e)
  BY <1>1, <1>2, SmallNext
<1>4. e \in 0..E /\ i < e /\ x.used \in Int
  BY <1>1, <1>3 DEF Ends, SmallBase, SmallState
<1>5. Header \in Nat \ {0} /\ MinSize \in Nat
  BY EndFacts, SmallMemAssumption
<1>6. PICK j : j = i + Header + m
  OBVIOUS
<1>7. j + Header <= e /\ j - (i + Header) = m /\ n <= e - (i + Header)
  BY <1>2, <1>4, <1>5, <1>6 DEF SmallMem!Payload
<1>8. /\ SmallOk(y) /\ OnlyAt(y, x, i) /\ y.item[i].state = "used" /\ y.item[i].next = j
      /\ y.used = x.used - (e - j) /\ y.max = x.max
  BY <1>1, <1>2, <1>6, <1>7, ShrinkOk
<1>9. Weight(y.item, i) = j - i /\ Weight(x.item, i) = e - i
  BY <1>2, <1>8 DEF Weight
<1>10. y.used = x.used + (Weight(y.item, i) - Weight(x.item, i)) /\ y.used <= x.used
  BY <1>4, <1>5, <1>6, <1>7, <1>8, <1>9
<1>11. Accounts(y)
  BY <1>1, <1>8, <1>10, AccountsKept
<1>12. (n > 0 <=> y.item[i].state = "used") /\ (n > 0 => n <= y.item[i].next - (i + Header))
  BY <1>7, <1>8
<1>13. LiveOk(y, lw)
  BY <1>1, <1>8, <1>12, LiveKept
<1> QED BY <1>2, <1>7, <1>8, <1>11, <1>13 DEF SmallInv

-----------------------------------------------------------------------------
(* The properties of the small heap follow.                                  *)
LEMMA SmallTiles ==
    ASSUME SmallInv(heap, live)
    PROVE  SmallMem!ChainSound /\ SmallMem!LfreeLowest
<1>1. PICK x : x = heap
  OBVIOUS
<1>2. SmallOk(x) /\ SmallBase(x) /\ x \in SmallState /\ Row(x.item, E, E, Header) /\ AllApart(x.item, E)
  BY <1>1 DEF SmallInv, SmallOk, SmallBase
<1>3. E \in Nat /\ SmallMem!Off = 0..E /\ SmallMem!End = E /\ Header \in Nat \ {0}
  BY EndFacts DEF E
<1>4. SmallMem!IsItem(0) /\ heap.item[0].prev = 0
  BY <1>1, <1>2 DEF SmallMem!IsItem, Row, At, SmallBase
<1>5. SmallMem!Is(heap, E, "used") /\ heap.item[E].next = E
  BY <1>1, <1>2 DEF SmallMem!Is, SmallBase
<1>6. ASSUME NEW i \in 0..E, SmallMem!IsItem(i), i # E, NEW n, n = heap.item[i].next
      PROVE  /\ i + Header <= n /\ SmallMem!IsItem(n)
             /\ \A j \in (i + 1)..(n - 1) : ~SmallMem!IsItem(j)
             /\ n # E => heap.item[n].prev = i
             /\ SmallMem!Is(heap, i, "free") => SmallMem!Is(heap, n, "used")
  <2>1. x.item[i].state # "none" /\ n = x.item[i].next
    BY <1>1, <1>6 DEF SmallMem!IsItem
  <2>2. Ends(x.item, E, E, Header, i, n)
    BY <2>1, <1>2, <1>6, SmallNext
  <2>3. n \in 0..E /\ i + Header <= n /\ At(x.item, n) /\ (n # E => x.item[n].prev = i)
        /\ \A k \in 0..E : At(x.item, k) /\ i < k => n <= k
    BY <2>2 DEF Ends
  <2>4. ASSUME NEW j \in (i + 1)..(n - 1) PROVE ~SmallMem!IsItem(j)
    <3>1. j \in 0..E /\ i < j /\ ~(n <= j)
      BY <2>3, <1>3
    <3>2. ~At(x.item, j)
      BY <3>1, <2>3
    <3> QED BY <3>2, <1>1 DEF SmallMem!IsItem, At
  <2>5. SmallMem!Is(heap, i, "free") => SmallMem!Is(heap, n, "used")
    BY <2>1, <1>1, <1>2 DEF SmallMem!Is, AllApart
  <2> QED BY <2>3, <2>4, <2>5, <1>1 DEF SmallMem!IsItem, At
<1>7. SmallMem!ChainSound
  BY <1>3, <1>4, <1>5, <1>6 DEF SmallMem!ChainSound
<1>8. SmallMem!LfreeLowest
  <2>1. x.lfree \in 0..E /\ Lowest(x)
    BY <1>2 DEF SmallOk, SmallState
  <2>2. x.lfree = E \/ x.item[x.lfree].state = "free"
    BY <2>1 DEF Lowest
  <2>3. ASSUME NEW i \in 0..(x.lfree - 1) PROVE x.item[i].state # "free"
    <3>1. i \in 0..E /\ i < x.lfree
      BY <2>1, <1>3
    <3> QED BY <3>1, <2>1 DEF Lowest
  <2> QED BY <2>2, <2>3, <1>1, <1>3 DEF SmallMem!LfreeLowest, SmallMem!Is
<1> QED BY <1>7, <1>8

LEMMA SmallCounts ==
    ASSUME SmallInv(heap, live)
    PROVE  SmallMem!SmallUsedExact
<1>1. PICK x : x = heap
  OBVIOUS
<1>2. PICK t : t = x.item
  OBVIOUS
<1>3. t \in [0..E -> Items(E)] /\ Accounts(x)
  BY <1>1, <1>2 DEF SmallInv, SmallOk, SmallBase, SmallState
<1>4. E \in Nat /\ SmallMem!Off = 0..E /\ SmallMem!End = E
  BY EndFacts DEF E
<1> DEFINE Rec(f) == f = [i \in 0..E |-> (IF i # E /\ t[i].state = "used" THEN t[i].next - i ELSE 0)
                                          + (IF i = 0 THEN 0 ELSE f[i - 1])]
           size == CHOOSE f : Rec(f)
<1>5. PICK w : w = [k \in 0..E |-> Weight(t, k)]
  OBVIOUS
<1>6. w \in [0..E -> Int]
  BY <1>3, <1>5, WeightType
<1>7. ASSUME NEW f PROVE Rec(f) <=> SumsAlong(w, f, E)
  <2>1. \A i \in 0..E : w[i] = IF i # E /\ t[i].state = "used" THEN t[i].next - i ELSE 0
    BY <1>5 DEF Weight
  <2> QED BY <2>1 DEF SumsAlong
<1>8. SumsAlong(w, size, E)
  <2>1. PICK z : SumsAlong(w, z, E)
    BY <1>4, <1>6, SumsAlongExist
  <2> HIDE DEF Rec
  <2> QED BY <2>1, <1>7
<1> HIDE DEF size, Rec
<1>9. Sums(t, size, E)
  <2>1. Totals(w, size, E)
    BY <1>4, <1>6, <1>8, SumsAreTotals
  <2>2. \A k \in 0..E : w[k] = Weight(t, k)
    BY <1>5
  <2>3. 0 \in 0..E /\ \A k \in 1..E : k \in 0..E
    BY <1>4
  <2> QED BY <2>1, <2>2, <2>3 DEF Totals, Sums
<1>10. heap.used = size[E] /\ heap.used <= heap.max /\ heap.max <= E
  BY <1>1, <1>2, <1>3, <1>9 DEF Accounts
<1>11. SmallMem!SmallUsedExact <=> (heap.used = size[E] /\ heap.used <= heap.max /\ heap.max <= E)
  BY <1>1, <1>2, <1>4 DEF SmallMem!SmallUsedExact, SmallMem!Is, size, Rec
<1> QED BY <1>10, <1>11

LEMMA SmallInit ==
    ASSUME SmallMem!Init
    PROVE  SmallInv(heap, live)
<1>1. /\ E \in Nat /\ E # 0 /\ SmallMem!Off = 0..E /\ SmallMem!End = E /\ Header \in Nat \ {0}
      /\ E = Total + Header /\ Total \in Nat
  BY EndFacts, SmallMemAssumption DEF E
<1>2. PICK x : x = heap
  OBVIOUS
<1>3. PICK t : t = [i \in 0..E |->
                      IF i = 0   THEN [state |-> "free", next |-> E, prev |-> 0]
                      ELSE IF i = E THEN [state |-> "used", next |-> E, prev |-> E]
                      ELSE [state |-> "none", next |-> 0, prev |-> 0]]
  OBVIOUS
<1>4. x = [item |-> t, lfree |-> 0, used |-> 0, max |-> 0]
  BY <1>1, <1>2, <1>3 DEF SmallMem!Init, SmallMem!NoItem
<1>5. t \in [0..E -> Items(E)]
  <2>1. ASSUME NEW i \in 0..E PROVE t[i] \in Items(E)
    BY <1>1, <1>3 DEF Items
  <2>2. t = [i \in 0..E |-> t[i]]
    BY <1>3
  <2> QED BY <2>1, <2>2
<1>6. /\ t[0].state = "free" /\ t[0].next = E /\ t[0].prev = 0
      /\ t[E].state = "used" /\ t[E].next = E
      /\ \A k \in 0..E : k # 0 /\ k # E => t[k].state = "none"
  BY <1>1, <1>3
<1>7. Row(t, E, E, Header)
  <2>1. At(t, 0) /\ At(t, E)
    BY <1>6 DEF At
  <2>2. \A k \in 0..E : At(t, k) => k <= E
    BY <1>1
  <2>3. ASSUME NEW k \in 0..E, At(t, k), k # E PROVE Ends(t, E, E, Header, k, t[k].next)
    <3>1. k = 0 /\ t[k].next = E
      BY <2>3, <1>6 DEF At
    <3>2. \A l \in 0..E : At(t, l) /\ 0 < l => E <= l
      BY <1>1, <1>6 DEF At
    <3>3. 0 + Header <= E /\ E \in 0..E /\ 0 < E /\ E <= E
      BY <1>1
    <3> QED BY <3>1, <3>2, <3>3, <2>1 DEF Ends
  <2>4. E \in 0..E
    BY <1>1
  <2> QED BY <2>1, <2>2, <2>3, <2>4, <1>1, <1>5, RowFrom
<1>8. x \in SmallState /\ x.item = t /\ x.lfree = 0 /\ x.used = 0 /\ x.max = 0
  BY <1>1, <1>4, <1>5 DEF SmallState
<1>9. SmallOk(x)
  <2>1. SmallBase(x)
    BY <1>6, <1>7, <1>8 DEF SmallBase
  <2>2. AllApart(t, E)
    BY <1>6 DEF AllApart
  <2>3. Lowest(x)
    BY <1>1, <1>6, <1>8 DEF Lowest
  <2> QED BY <2>1, <2>2, <2>3, <1>8 DEF SmallOk
<1>10. Accounts(x)
  <2>1. ASSUME NEW z, Sums(t, z, E) PROVE z[E] = 0
    <3> DEFINE T == {n \in Nat : n <= E /\ z[n] # 0}
    <3>1. \A k \in 0..E : Weight(t, k) = 0
      BY <1>6 DEF Weight
    <3>2. z[0] = 0 /\ \A k \in 1..E : z[k] = 0 + z[k - 1]
      <4>1. 0 \in 0..E /\ \A k \in 1..E : k \in 0..E
        BY <1>1
      <4> QED BY <4>1, <3>1, <2>1 DEF Sums
    <3>3. T = {}
      <4> SUFFICES ASSUME T # {} PROVE FALSE
        OBVIOUS
      <4>1. PICK n \in T : \A l \in T : n <= l
        <5>1. T \subseteq Nat
          OBVIOUS
        <5> HIDE DEF T
        <5> QED BY <5>1, Least
      <4>2. n \in Nat /\ n <= E /\ z[n] # 0 /\ n # 0
        BY <3>2
      <4>3. n - 1 \in Nat /\ ~(n <= n - 1) /\ n - 1 <= E /\ n \in 1..E
        <5> HIDE DEF T
        <5> QED BY <4>2, <1>1
      <4>4. n - 1 \notin T
        <5> HIDE DEF T
        <5> QED BY <4>1, <4>3
      <4>5. z[n - 1] = 0
        BY <4>3, <4>4
      <4> QED BY <4>2, <4>3, <4>5, <3>2
    <3> QED BY <3>3, <1>1
  <2> QED BY <2>1, <1>1, <1>8 DEF Accounts
<1>11. LiveOk(x, live)
  <2>1. live = [i \in 0..E |-> 0]
    BY <1>1 DEF SmallMem!Init
  <2>2. \A k \in 0..E : live[k] = 0
    BY <2>1
  <2>3. live \in [0..E -> Nat]
    BY <2>1
  <2> QED BY <2>2, <2>3, <1>6, <1>8 DEF LiveOk
<1> QED BY <1>2, <1>9, <1>10, <1>11 DEF SmallInv

-----------------------------------------------------------------------------
(* The calls of the small heap are steps of an allocator.                    *)
LEMMA SmallShape ==
    ASSUME config = "small"
    PROVE  Shape[config] = [size |-> E, record |-> Header]
<1>1. Shape["small"] = [size |-> SmallMem!End, record |-> Header]
  BY DEF Shape
<1> QED BY <1>1 DEF E

LEMMA RegionUnused ==
    ASSUME config = "small", NEW x, SmallBase(x), LiveOk(x, live),
           NEW i \in 0..E, x.item[i].state # "none", i # E,
           NEW n \in Nat, n <= x.item[i].next - (i + Header),
           NEW X, live[i] > 0 => i \in X
    PROVE  Abs!Unused(i, n, X)
<1>1. Shape[config].size = E /\ Shape[config].record = Header /\ Header \in Nat \ {0} /\ E \in Nat
  BY SmallShape, EndFacts
<1>2. PICK e : e = x.item[i].next
  OBVIOUS
<1>3. Ends(x.item, E, E, Header, i, e)
  BY <1>2, SmallNext
<1>4. e \in 0..E /\ e <= E /\ i < e /\ n <= e - (i + Header)
        /\ \A k \in 0..E : At(x.item, k) /\ i < k => e <= k
  BY <1>2, <1>3 DEF Ends
<1>5. \A a, m : Abs!Extent(a, m) = a..(a + Header + m - 1)
  BY <1>1 DEF Abs!Extent
<1>6. Abs!Extent(i, n) \subseteq 0..(Shape[config].size - 1)
  BY <1>1, <1>4, <1>5
<1>7. DOMAIN live = 0..E
  BY DEF LiveOk
<1>8. ASSUME NEW b \in 0..E, b \notin X, live[b] > 0
      PROVE  Abs!Extent(i, n) \cap Abs!Extent(b, live[b]) = {}
  <2>1. PICK m : m = live[b]
    OBVIOUS
  <2>2. m \in Nat /\ b # E /\ x.item[b].state = "used" /\ m <= x.item[b].next - (b + Header) /\ b # i
    BY <1>8, <2>1 DEF LiveOk
  <2>3. /\ At(x.item, i) /\ At(x.item, b) /\ Row(x.item, E, E, Header)
        /\ Holds(x.item, i, Header, n) /\ Holds(x.item, b, Header, m) /\ b # E /\ b # i
    BY <2>2 DEF At, SmallBase, Holds
  <2>4. E \in 0..E /\ E \in Nat /\ Header \in Nat \ {0} /\ m \in Nat
    BY <2>2, <1>1
  <2>5. Bytes(i, Header, n) \cap Bytes(b, Header, m) = {}
    BY <2>3, <2>4, RegionsApart
  <2>6. Abs!Extent(i, n) = Bytes(i, Header, n) /\ Abs!Extent(b, m) = Bytes(b, Header, m)
    BY <1>5 DEF Bytes
  <2> QED BY <2>1, <2>5, <2>6
<1> QED BY <1>6, <1>7, <1>8 DEF Abs!Unused

LEMMA SmallAllocStep ==
    ASSUME config = "small", NEW x, x = heap, SmallInv(x, live), NEW m \in Nat, SmallMem!CanAlloc(x, m),
           NEW r, r = SmallMem!Rounded(m), NEW i, i = SmallMem!FirstFit(x, r),
           NEW n \in Nat, n > 0, n <= r,
           heap' = SmallMem!Occupy(x, i, r), live' = [live EXCEPT ![i] = n]
    PROVE  SmallInv(heap, live)' /\ Abs!Allocate
<1>1. PICK y : y = heap'
  OBVIOUS
<1>2. PICK lv : lv = live
  OBVIOUS
<1>3. PICK lw : lw = live'
  OBVIOUS
<1>4. y = SmallMem!Occupy(x, i, r) /\ lw = [lv EXCEPT ![i] = n] /\ SmallInv(x, lv)
  BY <1>1, <1>2, <1>3
<1>5. /\ SmallInv(y, lw)
      /\ i \in 0..E /\ i # E /\ x.item[i].state = "free" /\ lv[i] = 0
      /\ n <= x.item[i].next - (i + Header)
  <2>1. /\ SmallMem!CanAlloc(x, m) /\ r = SmallMem!Rounded(m) /\ i = SmallMem!FirstFit(x, r)
        /\ n > 0 /\ n <= r
    OBVIOUS
  <2>2. Allocated(x, lv, i, n, y, lw)
    BY <1>4, <2>1, SmallAllocates
  <2> QED BY <2>2 DEF Allocated
<1>6. SmallBase(x) /\ LiveOk(x, live) /\ live \in [0..E -> Nat]
  BY <1>2, <1>4 DEF SmallInv, SmallOk, LiveOk
<1>7. live'[i] = n
  BY <1>5, <1>6
<1>8. Abs!Unused(i, n, {})
  <2>1. ~(live[i] > 0)
    BY <1>2, <1>5
  <2>2. live[i] > 0 => i \in {}
    BY <2>1
  <2>3. PICK X : X = {}
    OBVIOUS
  <2>4. live[i] > 0 => i \in X
    BY <2>2, <2>3
  <2>5. x.item[i].state # "none"
    BY <1>5
  <2>6. Abs!Unused(i, n, X)
    BY <2>4, <2>5, <1>5, <1>6, RegionUnused
  <2> QED BY <2>3, <2>6
<1>9. i \in DOMAIN live /\ live[i] = 0 /\ live'[i] > 0 /\ live' = [live EXCEPT ![i] = live'[i]]
  BY <1>2, <1>5, <1>6, <1>7
<1>10. Abs!Unused(i, live'[i], {})
  BY <1>7, <1>8
<1>11. Abs!Allocate
  BY <1>9, <1>10 DEF Abs!Allocate
<1>12. SmallInv(heap', live')
  BY <1>1, <1>3, <1>5
<1> QED BY <1>11, <1>12

LEMMA SmallMallocStep ==
    ASSUME config = "small", SmallInv(heap, live), NEW n \in Request, SmallMem!Malloc(n)
    PROVE  SmallInv(heap, live)' /\ Abs!Allocate
<1>1. n \in Nat /\ n <= Word - Align
  BY SmallMemAssumption
<1>2. PICK x : x = heap
  OBVIOUS
<1>3. PICK r : r = SmallMem!Rounded(n)
  OBVIOUS
<1>4. PICK i : i = SmallMem!FirstFit(x, r)
  OBVIOUS
<1>5. /\ SmallMem!CanAlloc(x, n) /\ heap' = SmallMem!Occupy(x, i, r)
      /\ live' = [live EXCEPT ![i] = n]
  BY <1>2, <1>3, <1>4 DEF SmallMem!Malloc
<1>6. SmallBase(x)
  BY <1>2 DEF SmallInv, SmallOk
<1>7. SmallMem!AlignUp(n) <= r /\ r \in Nat
  BY <1>1, <1>3, <1>4, <1>5, <1>6, FirstFitFacts
<1>8. n <= r
  BY <1>1, <1>7, AlignFacts
<1>9. n > 0
  BY <1>5 DEF SmallMem!CanAlloc
<1> QED BY <1>1, <1>2, <1>3, <1>4, <1>5, <1>8, <1>9, SmallAllocStep

(* Word leaves room for what rt_malloc_align adds.                           *)
LEMMA RoomToAlign ==
    SmallMem!AlignUp(1) = Align /\ 3 * Align <= Word - Align
<1>1. /\ Align \in Nat \ {0} /\ Header \in Nat \ {0} /\ MinSize \in Nat \ {0} /\ Total \in Nat /\ Word \in Nat
      /\ Header % Align = 0 /\ Word % Align = 0 /\ Total + 2 * Header + MinSize + Align < Word
  BY SmallMemAssumption
<1>2. Align <= Header
  <2> SUFFICES ASSUME Header < Align PROVE FALSE
    BY <1>1
  <2>1. Header % Align = Header
    BY <1>1
  <2> QED BY <2>1, <1>1
<1>3. 3 * Align < Word
  BY <1>1, <1>2
<1>4. PICK q : q = Word \div Align
  OBVIOUS
<1>5. q \in Nat /\ Word = Align * q
  <2>1. q \in Nat /\ Word = Align * q + (Word % Align)
    BY <1>1, <1>4
  <2>2. PICK m : m = Align * q
    OBVIOUS
  <2>3. m \in Nat
    BY <2>1, <2>2, <1>1
  <2> QED BY <2>1, <2>2, <2>3, <1>1
<1>6. q # 0 /\ q # 1 /\ q # 2 /\ q # 3
  BY <1>1, <1>3, <1>5
<1>7. PICK p \in Nat : q = 4 + p
  <2>1. q - 4 \in Nat /\ q = 4 + (q - 4)
    BY <1>5, <1>6
  <2> QED BY <2>1
<1>8. PICK m : m = Align * p
  OBVIOUS
<1>9. m \in Nat /\ Word = 4 * Align + m
  <2>1. m \in Nat
    BY <1>1, <1>7, <1>8
  <2>2. Align * (4 + p) = 4 * Align + Align * p
    BY <1>1, <1>7
  <2> QED BY <2>1, <2>2, <1>5, <1>7, <1>8
<1>10. 3 * Align <= Word - Align
  BY <1>1, <1>9
<1>11. (1 + Align - 1) % Word = Align /\ Align % Align = 0
  <2>1. 1 + Align - 1 = Align /\ Align < Word
    BY <1>1
  <2>2. Align % Word = Align
    BY <2>1, <1>1
  <2>3. Align % Align = 0
    BY <1>1
  <2> QED BY <2>1, <2>2, <2>3
<1>12. SmallMem!AlignUp(1) = Align
  BY <1>1, <1>11 DEF SmallMem!AlignUp
<1> QED BY <1>10, <1>12

LEMMA SmallMallocAlignStep ==
    ASSUME config = "small", SmallInv(heap, live), SmallMem!MallocAlign(1, 2 * Align)
    PROVE  SmallInv(heap, live)' /\ Abs!Allocate
<1>1. Align \in Nat \ {0} /\ Word \in Nat
  BY SmallMemAssumption
<1>2. PICK a : a = 2 * Align
  OBVIOUS
<1>3. PICK m : m = SmallMem!AlignUp(1) + a
  OBVIOUS
<1>4. a \in Nat \ {0} /\ m \in Nat /\ m = Align + a /\ m <= Word - Align
  BY <1>1, <1>2, <1>3, RoomToAlign
<1>5. PICK x : x = heap
  OBVIOUS
<1>6. PICK r : r = SmallMem!Rounded(m)
  OBVIOUS
<1>7. PICK i : i = SmallMem!FirstFit(x, r)
  OBVIOUS
<1>8. PICK n : n = SmallMem!AlignedAt(i + Header, a) - (i + Header) + 1
  OBVIOUS
<1>9. /\ SmallMem!CanAlloc(x, m) /\ heap' = SmallMem!Occupy(x, i, r)
      /\ live' = [live EXCEPT ![i] = n]
  BY <1>2, <1>3, <1>5, <1>6, <1>7, <1>8 DEF SmallMem!MallocAlign
<1>10. SmallBase(x)
  BY <1>5 DEF SmallInv, SmallOk
<1>11. SmallMem!AlignUp(m) <= r /\ r \in Nat /\ i \in 0..E
  BY <1>4, <1>6, <1>7, <1>9, <1>10, FirstFitFacts
<1>12. m <= r
  BY <1>4, <1>11, AlignFacts
<1>13. n \in Nat /\ n > 0 /\ n <= m
  <2>1. PICK p : p = i + Header
    OBVIOUS
  <2>2. p \in Nat
    BY <2>1, <1>11, EndFacts
  <2>3. PICK q : q = (p + a - 1) % a
    OBVIOUS
  <2>4. q \in 0..(a - 1)
    BY <2>2, <2>3, <1>4
  <2>5. PICK f : f = SmallMem!AlignedAt(p, a)
    OBVIOUS
  <2>6. f = p + a \/ f = (p + a - 1) - q
    BY <2>3, <2>5 DEF SmallMem!AlignedAt
  <2>7. n = f - p + 1
    BY <2>1, <2>5, <1>8
  <2> QED BY <2>2, <2>4, <2>6, <2>7, <1>1, <1>4
<1>14. n <= r
  BY <1>4, <1>11, <1>12, <1>13
<1> QED BY <1>4, <1>5, <1>6, <1>7, <1>9, <1>13, <1>14, SmallAllocStep

LEMMA SmallFreeStep ==
    ASSUME config = "small", SmallInv(heap, live), NEW i \in SmallMem!Off, SmallMem!Free(i)
    PROVE  SmallInv(heap, live)' /\ Abs!Release
<1>1. PICK x : x = heap
  OBVIOUS
<1>2. PICK lv : lv = live
  OBVIOUS
<1>3. PICK y : y = heap'
  OBVIOUS
<1>4. PICK lw : lw = live'
  OBVIOUS
<1>5. PICK n \in Nat : n = 0
  OBVIOUS
<1>6. i \in 0..E /\ i # E /\ x.item[i].state = "used"
  BY <1>1, EndFacts DEF SmallMem!Free, SmallMem!Owned, SmallMem!Is, E
<1>7. y = SmallMem!FreeItem(x, i) /\ lw = [lv EXCEPT ![i] = n] /\ SmallInv(x, lv)
  BY <1>1, <1>2, <1>3, <1>4, <1>5 DEF SmallMem!Free
<1>8. SmallInv(y, lw)
  BY <1>5, <1>6, <1>7, SmallFrees
<1>9. DOMAIN live = 0..E
  BY DEF SmallInv, LiveOk
<1>10. Abs!Release
  BY <1>6, <1>9 DEF Abs!Release, SmallMem!Free
<1>11. SmallInv(heap', live')
  BY <1>3, <1>4, <1>8
<1> QED BY <1>10, <1>11

LEMMA ResizedInPlace ==
    ASSUME config = "small", NEW x, SmallBase(x), LiveOk(x, live), NEW i \in 0..E, i # E,
           x.item[i].state = "used", NEW n \in Nat, n > 0, n <= x.item[i].next - (i + Header),
           live' = [live EXCEPT ![i] = n]
    PROVE  Abs!Resize
<1>1. live \in [0..E -> Nat] /\ live[i] > 0
  BY DEF LiveOk
<1>2. live'[i] = n /\ i \in DOMAIN live
  BY <1>1
<1>3. PICK X : X = {i}
  OBVIOUS
<1>4. i \in X /\ x.item[i].state # "none"
  BY <1>3
<1>5. Abs!Unused(i, n, X)
  BY <1>4, RegionUnused
<1>6. Abs!Unused(i, live'[i], IF i = i THEN {i} ELSE {})
  BY <1>2, <1>3, <1>5
<1>7. live' = [live EXCEPT ![i] = 0, ![i] = live'[i]]
  BY <1>1, <1>2
<1>8. live'[i] > 0
  BY <1>2
<1> QED BY <1>1, <1>2, <1>6, <1>7, <1>8 DEF Abs!Resize

LEMMA SmallReallocSameStep ==
    ASSUME config = "small", SmallInv(heap, live), NEW i \in SmallMem!Off, NEW n \in Request,
           SmallMem!ReallocSame(i, n)
    PROVE  SmallInv(heap, live)' /\ Abs!Resize
<1>1. n \in Nat /\ n <= Word - Align
  BY SmallMemAssumption
<1>2. PICK x : x = heap
  OBVIOUS
<1>3. PICK lv : lv = live
  OBVIOUS
<1>4. PICK lw : lw = live'
  OBVIOUS
<1>5. /\ SmallOk(x) /\ SmallBase(x) /\ Accounts(x) /\ LiveOk(x, lv) /\ i \in 0..E /\ i # E
      /\ x.item[i].state = "used" /\ n > 0 /\ lw = [lv EXCEPT ![i] = n] /\ heap' = x
      /\ SmallMem!AlignUp(n) = x.item[i].next - (i + Header)
  BY <1>2, <1>3, <1>4, EndFacts
     DEF SmallInv, SmallOk, SmallMem!ReallocSame, SmallMem!Owned, SmallMem!Is, SmallMem!Payload, E
<1>6. n <= x.item[i].next - (i + Header)
  BY <1>1, <1>5, AlignFacts
<1>7. OnlyAt(x, x, i)
  BY DEF OnlyAt
<1>8. n > 0 <=> x.item[i].state = "used"
  BY <1>5
<1>9. LiveOk(x, lw)
  BY <1>1, <1>5, <1>6, <1>7, <1>8, LiveKept
<1>10. SmallInv(heap', live')
  BY <1>4, <1>5, <1>9 DEF SmallInv
<1>11. LiveOk(x, live) /\ live' = [live EXCEPT ![i] = n]
  BY <1>3, <1>4, <1>5
<1>12. Abs!Resize
  BY <1>1, <1>5, <1>6, <1>11, ResizedInPlace
<1> QED BY <1>10, <1>12

LEMMA SmallReallocShrinkStep ==
    ASSUME config = "small", SmallInv(heap, live), NEW i \in SmallMem!Off, NEW n \in Request,
           SmallMem!ReallocShrink(i, n)
    PROVE  SmallInv(heap, live)' /\ Abs!Resize
<1>1. n \in Nat /\ n <= Word - Align
  BY SmallMemAssumption
<1>2. PICK x : x = heap
  OBVIOUS
<1>3. PICK lv : lv = live
  OBVIOUS
<1>4. PICK lw : lw = live'
  OBVIOUS
<1>5. PICK y : y = heap'
  OBVIOUS
<1>6. PICK m : m = SmallMem!AlignUp(n)
  OBVIOUS
<1>7. /\ i \in 0..E /\ i # E /\ x.item[i].state = "used" /\ n > 0 /\ lw = [lv EXCEPT ![i] = n]
      /\ y = SmallMem!Shrink(x, i, m) /\ m + Header + MinSize < SmallMem!Payload(x, i)
      /\ SmallInv(x, lv)
  BY <1>2, <1>3, <1>4, <1>5, <1>6, EndFacts
     DEF SmallMem!ReallocShrink, SmallMem!Shrinks, SmallMem!Owned, SmallMem!Is, E
<1>8. m \in Nat /\ n <= m
  BY <1>1, <1>6, AlignFacts
<1>9. SmallInv(y, lw) /\ n <= x.item[i].next - (i + Header)
  BY <1>1, <1>7, <1>8, SmallShrinks
<1>10. SmallInv(heap', live')
  BY <1>4, <1>5, <1>9
<1>11. SmallBase(x) /\ LiveOk(x, live) /\ live' = [live EXCEPT ![i] = n]
  BY <1>3, <1>4, <1>7 DEF SmallInv, SmallOk
<1>12. Abs!Resize
  BY <1>1, <1>7, <1>9, <1>11, ResizedInPlace
<1> QED BY <1>10, <1>12

LEMMA SmallReallocMoveStep ==
    ASSUME config = "small", SmallInv(heap, live), NEW i \in SmallMem!Off, NEW n \in Request,
           SmallMem!ReallocMove(i, n)
    PROVE  SmallInv(heap, live)' /\ Abs!Resize
<1>1. n \in Nat /\ n <= Word - Align
  BY SmallMemAssumption
<1>2. PICK x : x = heap
  OBVIOUS
<1>3. PICK lv : lv = live
  OBVIOUS
<1>4. PICK lw : lw = live'
  OBVIOUS
<1>5. PICK z : z = heap'
  OBVIOUS
<1>6. PICK m : m = SmallMem!AlignUp(n)
  OBVIOUS
<1>7. PICK r : r = SmallMem!Rounded(m)
  OBVIOUS
<1>8. PICK j : j = SmallMem!FirstFit(x, r)
  OBVIOUS
<1>9. PICK y : y = SmallMem!Occupy(x, j, r)
  OBVIOUS
<1>10. PICK c \in Nat : c = 0
  OBVIOUS
<1>11. /\ i \in 0..E /\ i # E /\ x.item[i].state = "used" /\ lw = [lv EXCEPT ![i] = c, ![j] = n]
       /\ z = SmallMem!FreeItem(y, i) /\ SmallMem!CanAlloc(x, m) /\ SmallInv(x, lv)
  BY <1>2, <1>3, <1>4, <1>5, <1>6, <1>7, <1>8, <1>9, <1>10, EndFacts
     DEF SmallMem!ReallocMove, SmallMem!Owned, SmallMem!Is, E
<1>12. m \in Nat /\ n <= m /\ m > 0
  BY <1>1, <1>6, <1>11, AlignFacts DEF SmallMem!CanAlloc
<1>13. SmallBase(x) /\ LiveOk(x, lv) /\ lv \in [0..E -> Nat]
  BY <1>11 DEF SmallInv, SmallOk, LiveOk
<1>14. SmallMem!AlignUp(m) <= r /\ r \in Nat
  BY <1>7, <1>8, <1>11, <1>12, <1>13, FirstFitFacts
<1>15. m <= Total /\ m <= Word - Align
  <2>1. m <= Total
    BY <1>6 DEF SmallMem!ReallocMove
  <2> QED BY <2>1, <1>12, SmallMemAssumption
<1>16. n <= r
  BY <1>1, <1>12, <1>14, <1>15, AlignFacts
<1>17. n > 0
  <2>1. n # 0
    <3> SUFFICES ASSUME n = 0 PROVE FALSE
      OBVIOUS
    <3>1. Align \in Nat \ {0} /\ Word \in Nat \ {0} /\ Align < Word
      BY SmallMemAssumption
    <3>2. (0 + Align - 1) % Word = Align - 1 /\ (Align - 1) % Align = Align - 1
      BY <3>1
    <3>3. SmallMem!AlignUp(n) = 0
      BY <3>1, <3>2 DEF SmallMem!AlignUp
    <3> QED BY <3>3, <1>6, <1>12
  <2> QED BY <2>1, <1>1
<1>18. PICK lx : lx = [lv EXCEPT ![j] = n]
  OBVIOUS
<1>19. Allocated(x, lv, j, n, y, lx)
  BY <1>1, <1>7, <1>8, <1>9, <1>11, <1>12, <1>16, <1>17, <1>18, SmallAllocates
<1>20. /\ SmallInv(y, lx) /\ j \in 0..E /\ x.item[j].state = "free" /\ lv[j] = 0
       /\ n <= x.item[j].next - (j + Header) /\ i # j /\ y.item[i].state = "used"
  BY <1>11, <1>19 DEF Allocated, OnlyAt
<1>21. lw = [lx EXCEPT ![i] = c]
  BY <1>1, <1>10, <1>11, <1>13, <1>18, <1>20
<1>22. SmallInv(z, lw)
  <2>1. i \in 0..E /\ i # E /\ z = SmallMem!FreeItem(y, i)
    BY <1>11
  <2>2. SmallInv(y, lx) /\ y.item[i].state = "used"
    BY <1>20
  <2> QED BY <1>10, <1>21, <2>1, <2>2, SmallFrees
<1>23. SmallInv(heap', live')
  BY <1>4, <1>5, <1>22
<1>24. live'[j] = n /\ live[i] > 0 /\ live'= [live EXCEPT ![i] = 0, ![j] = live'[j]] /\ DOMAIN live = 0..E
  <2>1. lw[j] = n
    BY <1>11, <1>13, <1>20
  <2>2. lv[i] > 0
    BY <1>11, <1>13 DEF LiveOk
  <2> QED BY <2>1, <2>2, <1>3, <1>4, <1>10, <1>11, <1>13
<1>25. Abs!Unused(j, live'[j], IF i = j THEN {i} ELSE {})
  <2>1. LiveOk(x, live) /\ ~(live[j] > 0)
    BY <1>3, <1>13, <1>20
  <2>2. PICK X : X = {}
    OBVIOUS
  <2>3. (live[j] > 0 => j \in X) /\ x.item[j].state # "none" /\ j # E
    BY <2>1, <1>13, <1>20 DEF SmallBase
  <2>4. Abs!Unused(j, n, X)
    BY <2>1, <2>3, <1>1, <1>13, <1>20, RegionUnused
  <2> QED BY <2>2, <2>4, <1>20, <1>24
<1>26. Abs!Resize
  BY <1>1, <1>11, <1>17, <1>20, <1>24, <1>25 DEF Abs!Resize
<1> QED BY <1>23, <1>26

(* One call of the small heap: what holds of it before holds after it, and   *)
(* the caller sees what a heap promises.                                     *)
LEMMA SmallStep ==
    ASSUME config = "small", SmallInv(heap, live), SmallMem!Next
    PROVE  SmallInv(heap, live)' /\ (Abs!Allocate \/ Abs!Release \/ Abs!Resize)
<1>1. ASSUME NEW n \in Request, SmallMem!Malloc(n)
      PROVE  SmallInv(heap, live)' /\ Abs!Allocate
  BY <1>1, SmallMallocStep
<1>2. ASSUME SmallMem!MallocAlign(1, 2 * Align)
      PROVE  SmallInv(heap, live)' /\ Abs!Allocate
  BY <1>2, SmallMallocAlignStep
<1>3. ASSUME NEW i \in SmallMem!Off, SmallMem!Free(i)
      PROVE  SmallInv(heap, live)' /\ Abs!Release
  BY <1>3, SmallFreeStep
<1>4. ASSUME NEW i \in SmallMem!Off, NEW n \in Request, SmallMem!Realloc(i, n)
      PROVE  SmallInv(heap, live)' /\ Abs!Resize
  <2>1. CASE SmallMem!ReallocSame(i, n)
    BY <2>1, SmallReallocSameStep
  <2>2. CASE SmallMem!ReallocShrink(i, n)
    BY <2>2, SmallReallocShrinkStep
  <2>3. CASE SmallMem!ReallocMove(i, n)
    BY <2>3, SmallReallocMoveStep
  <2> QED BY <1>4, <2>1, <2>2, <2>3 DEF SmallMem!Realloc
<1> QED BY <1>1, <1>2, <1>3, <1>4 DEF SmallMem!Next

-----------------------------------------------------------------------------
(* memheap.                                                                  *)

Top == PoolSize - 1
Edge == MemHeap!Tailer

LEMMA PoolFacts ==
    /\ Top \in Nat /\ Edge \in 0..Top /\ Edge # 0 /\ ItemSize \in Nat \ {0} /\ MiniAlloc \in Nat \ {0}
    /\ PoolSize \in Nat /\ PoolSize = Top + 1 /\ Edge = PoolSize - ItemSize /\ ItemSize <= Edge
    /\ MemHeap!Off = 0..Top /\ MemHeap!Item = Items(Top)
<1>1. /\ ItemSize \in Nat \ {0} /\ MiniAlloc \in Nat \ {0} /\ PoolSize \in Nat
      /\ 2 * ItemSize <= PoolSize
  BY MemHeapAssumption
<1>2. Edge = PoolSize - ItemSize /\ Top = PoolSize - 1
  BY DEF Edge, Top, MemHeap!Tailer
<1>3. Top \in Nat /\ PoolSize = Top + 1 /\ ItemSize <= Edge /\ Edge \in 0..Top /\ Edge # 0
  BY <1>1, <1>2
<1>4. MemHeap!Off = 0..Top
  BY DEF MemHeap!Off, Top
<1>5. MemHeap!Item = Items(Top)
  BY <1>4 DEF MemHeap!Item, Items
<1> QED BY <1>1, <1>2, <1>3, <1>4, <1>5

(* What the free items can hold, one by one and together.                    *)
Room(t, k) == IF t[k].state = "free" THEN t[k].next - k - ItemSize ELSE 0
Rooms(t) == [k \in 0..Top |-> Room(t, k)]
RoomIn(t) == (CHOOSE z : Totals(Rooms(t), z, Top))[Top]
RoomMoves(u, t, d) == RoomIn(u) = RoomIn(t) + d

LEMMA RoomType ==
    ASSUME NEW t \in [0..Top -> Items(Top)], NEW k \in 0..Top
    PROVE  Room(t, k) \in Int
<1>1. t[k].next \in 0..Top
  BY DEF Items
<1>2. Top \in Nat /\ ItemSize \in Nat
  BY PoolFacts
<1> QED BY <1>1, <1>2 DEF Room

LEMMA RoomInIs ==
    ASSUME NEW t \in [0..Top -> Items(Top)]
    PROVE  /\ Rooms(t) \in [0..Top -> Int]
           /\ RoomIn(t) \in Int
           /\ \E z : Totals(Rooms(t), z, Top) /\ z[Top] = RoomIn(t)
           /\ \A z : Totals(Rooms(t), z, Top) => z[Top] = RoomIn(t)
<1>1. PICK w : w = Rooms(t)
  OBVIOUS
<1>2. w \in [0..Top -> Int]
  BY <1>1, RoomType DEF Rooms
<1>3. Top \in Nat /\ Top \in 0..Top
  BY PoolFacts
<1>4. PICK z : z = (CHOOSE v : Totals(w, v, Top))
  OBVIOUS
<1>5. \E v : Totals(w, v, Top)
  BY <1>2, <1>3, TotalsExist
<1>6. Totals(w, z, Top)
  BY <1>4, <1>5
<1>7. z[Top] = RoomIn(t)
  BY <1>1, <1>4 DEF RoomIn
<1>8. z[Top] \in Int
  BY <1>3, <1>6 DEF Totals
<1>9. ASSUME NEW v, Totals(w, v, Top) PROVE v[Top] = z[Top]
  <2>1. DifferAt(w, w, Top, Top)
    BY DEF DifferAt
  <2>2. MovedBy(v, z, Top, w[Top] - w[Top])
    BY <1>2, <1>3, <1>6, <1>9, <2>1, TotalsChange
  <2>3. w[Top] \in Int
    BY <1>2, <1>3
  <2>4. PICK c \in Int : c = w[Top]
    BY <2>3
  <2>5. PICK b \in Int : b = z[Top]
    BY <1>8
  <2>6. v[Top] = b + (c - c)
    BY <2>2, <2>4, <2>5 DEF MovedBy
  <2> QED BY <2>5, <2>6
<1> QED BY <1>1, <1>2, <1>6, <1>7, <1>8, <1>9

LEMMA RoomChange ==
    ASSUME NEW t \in [0..Top -> Items(Top)], NEW u \in [0..Top -> Items(Top)], NEW i \in 0..Top,
           NEW n \in 0..Top, i # n, \A k \in 0..Top : k # i /\ k # n => Room(u, k) = Room(t, k)
    PROVE  RoomMoves(u, t, (Room(u, i) - Room(t, i)) + (Room(u, n) - Room(t, n)))
<1>1. PICK f : f = Rooms(t)
  OBVIOUS
<1>2. PICK h : h = Rooms(u)
  OBVIOUS
<1>3. f \in [0..Top -> Int] /\ h \in [0..Top -> Int]
  BY <1>1, <1>2, RoomInIs
<1>4. PICK g : g = [f EXCEPT ![i] = h[i]]
  OBVIOUS
<1>5. g \in [0..Top -> Int] /\ g[i] = h[i] /\ g[n] = f[n] /\ DifferAt(g, f, Top, i)
  BY <1>3, <1>4 DEF DifferAt
<1>6. \A k \in 0..Top : f[k] = Room(t, k) /\ h[k] = Room(u, k)
  BY <1>1, <1>2 DEF Rooms
<1>7. DifferAt(h, g, Top, n)
  BY <1>3, <1>4, <1>6 DEF DifferAt
<1>8. Top \in Nat
  BY PoolFacts
<1>9. PICK x : Totals(f, x, Top) /\ x[Top] = RoomIn(t)
  BY <1>1, RoomInIs
<1>10. PICK y : Totals(h, y, Top) /\ y[Top] = RoomIn(u)
  BY <1>2, RoomInIs
<1>11. PICK z : Totals(g, z, Top)
  BY <1>5, <1>8, TotalsExist
<1>12. MovedBy(z, x, Top, g[i] - f[i])
  BY <1>3, <1>5, <1>8, <1>9, <1>11, TotalsChange
<1>13. MovedBy(y, z, Top, h[n] - g[n])
  BY <1>3, <1>5, <1>7, <1>8, <1>10, <1>11, TotalsChange
<1>14. /\ f[i] = Room(t, i) /\ f[n] = Room(t, n) /\ g[i] = Room(u, i) /\ h[n] = Room(u, n)
       /\ g[n] = Room(t, n)
  BY <1>5, <1>6
<1>15. z[Top] = RoomIn(t) + (Room(u, i) - Room(t, i)) /\ RoomIn(u) = z[Top] + (Room(u, n) - Room(t, n))
  BY <1>9, <1>10, <1>12, <1>13, <1>14 DEF MovedBy
<1>16. RoomIn(t) \in Int /\ Room(u, i) \in Int /\ Room(t, i) \in Int /\ Room(u, n) \in Int /\ Room(t, n) \in Int
  BY RoomInIs, RoomType
<1> HIDE DEF RoomIn, Room
<1>17. RoomIn(u) = RoomIn(t) + ((Room(u, i) - Room(t, i)) + (Room(u, n) - Room(t, n)))
  BY <1>15, <1>16
<1> QED BY <1>17 DEF RoomMoves

LEMMA RoomChangeOne ==
    ASSUME NEW t \in [0..Top -> Items(Top)], NEW u \in [0..Top -> Items(Top)], NEW i \in 0..Top,
           \A k \in 0..Top : k # i => Room(u, k) = Room(t, k)
    PROVE  RoomMoves(u, t, Room(u, i) - Room(t, i))
<1>1. PICK f : f = Rooms(t)
  OBVIOUS
<1>2. PICK h : h = Rooms(u)
  OBVIOUS
<1>3. f \in [0..Top -> Int] /\ h \in [0..Top -> Int]
  BY <1>1, <1>2, RoomInIs
<1>4. \A k \in 0..Top : f[k] = Room(t, k) /\ h[k] = Room(u, k)
  BY <1>1, <1>2 DEF Rooms
<1>5. DifferAt(h, f, Top, i)
  BY <1>4 DEF DifferAt
<1>6. Top \in Nat
  BY PoolFacts
<1>7. PICK x : Totals(f, x, Top) /\ x[Top] = RoomIn(t)
  BY <1>1, RoomInIs
<1>8. PICK y : Totals(h, y, Top) /\ y[Top] = RoomIn(u)
  BY <1>2, RoomInIs
<1>9. MovedBy(y, x, Top, h[i] - f[i])
  BY <1>3, <1>5, <1>6, <1>7, <1>8, TotalsChange
<1>10. h[i] = Room(u, i) /\ f[i] = Room(t, i)
  BY <1>4
<1> QED BY <1>7, <1>8, <1>9, <1>10 DEF MovedBy, RoomMoves

(* Free items end behind their headers, so there is no negative room.        *)
LEMMA RoomNat ==
    ASSUME NEW t, Row(t, Top, Edge, ItemSize), t[Edge].state # "free"
    PROVE  RoomIn(t) >= 0
<1>1. t \in [0..Top -> Items(Top)]
  BY DEF Row
<1>2. PICK f : f = Rooms(t)
  OBVIOUS
<1>3. PICK z : Totals(f, z, Top) /\ z[Top] = RoomIn(t)
  BY <1>1, <1>2, RoomInIs
<1>4. Top \in Nat /\ ItemSize \in Nat
  BY PoolFacts
<1>5. ASSUME NEW k \in 0..Top PROVE f[k] \in Nat
  <2>1. f[k] = Room(t, k)
    BY <1>2 DEF Rooms
  <2>2. CASE t[k].state = "free"
    <3>1. PICK e : e = t[k].next
      OBVIOUS
    <3>2. e \in 0..Top /\ k + ItemSize <= e
      BY <2>2, <3>1, <1>1 DEF Row, At, Items
    <3>3. f[k] = e - k - ItemSize
      BY <2>1, <2>2, <3>1 DEF Room
    <3> QED BY <3>2, <3>3, <1>4
  <2>3. CASE t[k].state # "free"
    BY <2>1, <2>3 DEF Room
  <2> QED BY <2>2, <2>3
<1> DEFINE T == {n \in Nat : n <= Top /\ ~(z[n] \in Nat)}
<1>6. /\ z[0] = f[0]
      /\ \A k \in 1..Top : z[k] = f[k] + z[k - 1]
  BY <1>3 DEF Totals
<1>7. T = {}
  <2> SUFFICES ASSUME T # {} PROVE FALSE
    OBVIOUS
  <2>1. PICK n \in T : \A l \in T : n <= l
    <3>1. T \subseteq Nat
      OBVIOUS
    <3> HIDE DEF T
    <3> QED BY <3>1, Least
  <2>2. n \in Nat /\ n <= Top /\ ~(z[n] \in Nat) /\ n \in 0..Top
    OBVIOUS
  <2>3. n # 0
    BY <2>2, <1>5, <1>6
  <2>4. n - 1 \in Nat /\ ~(n <= n - 1) /\ n - 1 <= Top /\ n \in 1..Top
    <3> HIDE DEF T
    <3> QED BY <2>2, <2>3, <1>4
  <2>5. n - 1 \notin T
    <3> HIDE DEF T
    <3> QED BY <2>1, <2>4
  <2>6. PICK a \in Nat : a = z[n - 1]
    BY <2>4, <2>5
  <2>7. PICK b \in Nat : b = f[n]
    BY <2>2, <1>5
  <2>8. z[n] = b + a
    BY <2>4, <2>6, <2>7, <1>6
  <2>9. b + a \in Nat
    OBVIOUS
  <2> QED BY <2>2, <2>8, <2>9
<1>8. z[Top] \in Nat
  BY <1>4, <1>7
<1> QED BY <1>3, <1>8

(* The row of a memheap is closed to a circle at its tail.                   *)
Ring(t) ==
    /\ t[Edge].state = "used" /\ t[Edge].next = 0 /\ t[0].prev = Edge
    /\ \A k \in 0..Top : At(t, k) /\ k # Edge /\ t[k].next = Edge => t[Edge].prev = k

Linked(t) == Row(t, Top, Edge, ItemSize) /\ Ring(t)

(* No item but i was taken into use, given back or resized.                  *)
UsedSame(t, u, i) ==
    /\ \A k \in 0..Top : k # i => (t[k].state = "used" <=> u[k].state = "used")
    /\ \A k \in 0..Top : k # i /\ u[k].state = "used" => t[k].next = u[k].next

Parted(u, i, j, e) ==
    [u EXCEPT ![j] = [state |-> "free", next |-> e, prev |-> i], ![e].prev = j, ![i].next = j]

LEMMA LinkedNext ==
    ASSUME NEW u, Linked(u), NEW i \in 0..Top, At(u, i), i # Edge, NEW n, n = u[i].next
    PROVE  Ends(u, Top, Edge, ItemSize, i, n) /\ u[n].prev = i
<1>1. Top \in Nat /\ Edge \in 0..Top /\ ItemSize \in Nat \ {0}
  BY PoolFacts
<1>2. Ends(u, Top, Edge, ItemSize, i, n)
  BY <1>1, RowNext DEF Linked
<1>3. CASE n = Edge
  BY <1>2, <1>3 DEF Linked, Ring
<1>4. CASE n # Edge
  BY <1>2, <1>4 DEF Ends
<1> QED BY <1>2, <1>3, <1>4

LEMMA LinkedCut ==
    ASSUME NEW u, Linked(u), NEW i \in 0..Top, At(u, i), i # Edge, NEW e, e = u[i].next,
           NEW j \in 0..Top, i + ItemSize <= j, j + ItemSize <= e, NEW t, t = Parted(u, i, j, e)
    PROVE  /\ Linked(t) /\ IsCut(t, u, Top, i, j, e, Edge) /\ t[e].prev = j /\ ~At(u, j)
           /\ i < j /\ j < e /\ e \in 0..Top /\ UsedSame(t, u, i)
<1>1. Top \in Nat /\ Edge \in 0..Top /\ ItemSize \in Nat \ {0}
  BY PoolFacts
<1>2. Ends(u, Top, Edge, ItemSize, i, e)
  BY LinkedNext
<1>3. e \in 0..Top /\ e <= Edge /\ i < j /\ j < e /\ At(u, e)
  BY <1>1, <1>2 DEF Ends
<1>4. ~At(u, j)
  BY <1>2, <1>3 DEF Ends
<1>5. u \in [0..Top -> Items(Top)]
  BY DEF Linked, Row
<1>6. [state |-> "free", next |-> e, prev |-> i] \in Items(Top)
  BY <1>3 DEF Items
<1>7. [u[e] EXCEPT !.prev = j] \in Items(Top) /\ [u[i] EXCEPT !.next = j] \in Items(Top)
  BY <1>3, <1>5 DEF Items
<1>8. /\ t \in [0..Top -> Items(Top)]
      /\ t[j] = [state |-> "free", next |-> e, prev |-> i]
      /\ t[e] = [u[e] EXCEPT !.prev = j] /\ t[i] = [u[i] EXCEPT !.next = j]
      /\ \A k \in 0..Top : k # i /\ k # j /\ k # e => t[k] = u[k]
  <2>1. i # j /\ j # e /\ i # e
    BY <1>3
  <2> QED BY <2>1, <1>3, <1>5, <1>6, <1>7 DEF Parted
<1>9. t[e].state = u[e].state /\ t[e].next = u[e].next /\ t[e].prev = j
  BY <1>3, <1>5, <1>8 DEF Items
<1>10. t[i].state = u[i].state /\ t[i].next = j /\ t[i].prev = u[i].prev
  BY <1>5, <1>8 DEF Items
<1>11. t[j].state = "free" /\ t[j].next = e /\ t[j].prev = i
  BY <1>8
<1>12. IsCut(t, u, Top, i, j, e, Edge)
  BY <1>8, <1>9, <1>10, <1>11 DEF IsCut
<1>13. Row(t, Top, Edge, ItemSize)
  BY <1>1, <1>8, <1>12, CutKeepsRow DEF Linked
<1>14. \A k \in 0..Top : k # j /\ k # i => t[k].state = u[k].state /\ t[k].next = u[k].next
  BY <1>8, <1>9
<1>15. Ring(t)
  <2>1. t[Edge].state = "used" /\ t[Edge].next = 0
    <3>1. Edge # j /\ Edge # i
      BY <1>1, <1>3
    <3> QED BY <3>1, <1>1, <1>14 DEF Linked, Ring
  <2>2. t[0].prev = Edge
    <3>1. 0 # e /\ 0 # j /\ 0 \in 0..Top
      BY <1>1, <1>3
    <3>2. t[0].prev = u[0].prev
      BY <3>1, <1>8, <1>10
    <3> QED BY <3>2 DEF Linked, Ring
  <2>3. ASSUME NEW k \in 0..Top, At(t, k), k # Edge, t[k].next = Edge
        PROVE  t[Edge].prev = k
    <3>1. CASE k = j
      BY <3>1, <2>3, <1>9, <1>11
    <3>2. CASE k = i
      <4>1. j = Edge
        BY <3>2, <2>3, <1>10
      <4> QED BY <4>1, <1>1, <1>3
    <3>3. CASE k # j /\ k # i
      <4>1. At(u, k) /\ u[k].next = Edge
        BY <3>3, <2>3, <1>14 DEF At
      <4>2. u[Edge].prev = k
        BY <4>1, <2>3 DEF Linked, Ring
      <4>3. e # Edge
        <5>1. SUFFICES ASSUME e = Edge PROVE FALSE
          OBVIOUS
        <5>2. u[Edge].prev = i
          BY <5>1 DEF Linked, Ring
        <5> QED BY <5>2, <4>2, <3>3
      <4>4. t[Edge] = u[Edge]
        BY <4>3, <1>1, <1>3, <1>8
      <4> QED BY <4>2, <4>4
    <3> QED BY <3>1, <3>2, <3>3
  <2> QED BY <2>1, <2>2, <2>3 DEF Ring
<1>16. UsedSame(t, u, i)
  <2>1. u[j].state = "none"
    BY <1>4 DEF At
  <2> QED BY <2>1, <1>11, <1>14 DEF UsedSame
<1> QED BY <1>3, <1>4, <1>9, <1>12, <1>13, <1>15, <1>16 DEF Linked

LEMMA LinkedMerge ==
    ASSUME NEW u, Linked(u), NEW i \in 0..Top, At(u, i), i # Edge, NEW n, n = u[i].next,
           u[n].state = "free", NEW e, e = u[n].next, NEW t, t = Merged(u, i, n, e)
    PROVE  /\ Linked(t) /\ IsMerge(t, u, Top, i, n, e)
           /\ i < n /\ n < e /\ n \in 0..Top /\ e \in 0..Top /\ n # Edge /\ n + ItemSize <= e
<1>1. Top \in Nat /\ Edge \in 0..Top /\ ItemSize \in Nat \ {0}
  BY PoolFacts
<1>2. Ends(u, Top, Edge, ItemSize, i, n)
  BY LinkedNext
<1>3. n # Edge
  BY DEF Linked, Ring
<1>4. Ends(u, Top, Edge, ItemSize, n, e)
  BY <1>2, <1>3, LinkedNext DEF Ends
<1>5. n \in 0..Top /\ e \in 0..Top /\ i < n /\ n < e /\ n + ItemSize <= e
  BY <1>2, <1>4 DEF Ends
<1>6. u \in [0..Top -> Items(Top)] /\ i # n /\ n # e /\ i # e
  BY <1>5 DEF Linked, Row
<1>7. t \in [0..Top -> Items(Top)] /\ IsMerge(t, u, Top, i, n, e)
  BY <1>1, <1>5, <1>6, MergedFacts
<1>8. Row(t, Top, Edge, ItemSize)
  BY <1>1, <1>3, <1>7, MergeKeepsRow DEF Linked
<1>9. /\ \A k \in 0..Top : k # i /\ k # n /\ k # e => t[k] = u[k]
      /\ t[n].state = "none"
      /\ t[i].state = u[i].state /\ t[i].next = e /\ t[i].prev = u[i].prev
      /\ t[e].state = u[e].state /\ t[e].next = u[e].next /\ t[e].prev = i
  BY <1>7 DEF IsMerge
<1>10. Ring(t)
  <2>1. t[Edge].state = "used" /\ t[Edge].next = 0
    <3>1. u[Edge].state = "used" /\ u[Edge].next = 0
      BY DEF Linked, Ring
    <3> QED BY <3>1, <1>1, <1>3, <1>9
  <2>2. t[0].prev = Edge
    <3>1. 0 # e /\ 0 # n /\ 0 \in 0..Top
      BY <1>1, <1>5
    <3>2. t[0].prev = u[0].prev
      BY <3>1, <1>9
    <3> QED BY <3>2 DEF Linked, Ring
  <2>3. ASSUME NEW k \in 0..Top, At(t, k), k # Edge, t[k].next = Edge
        PROVE  t[Edge].prev = k
    <3>1. CASE k = i
      BY <3>1, <2>3, <1>9
    <3>2. CASE k # i
      <4>1. k # n
        BY <2>3, <1>9 DEF At
      <4>2. At(u, k) /\ u[k].next = Edge
        BY <3>2, <4>1, <2>3, <1>9 DEF At
      <4>3. u[Edge].prev = k
        BY <4>2, <2>3 DEF Linked, Ring
      <4>4. e # Edge
        <5>1. SUFFICES ASSUME e = Edge PROVE FALSE
          OBVIOUS
        <5>2. u[Edge].prev = n
          BY <5>1, <1>3, <1>5 DEF Linked, Ring, At
        <5> QED BY <5>2, <4>1, <4>3
      <4>5. t[Edge] = u[Edge]
        BY <4>4, <1>1, <1>3, <1>9
      <4> QED BY <4>3, <4>5
    <3> QED BY <3>1, <3>2
  <2> QED BY <2>1, <2>2, <2>3 DEF Ring
<1> QED BY <1>3, <1>5, <1>7, <1>8, <1>10 DEF Linked

LEMMA LinkedMark ==
    ASSUME NEW u, Linked(u), NEW i \in 0..Top, At(u, i), i # Edge, NEW st \in {"free", "used"},
           NEW t, t = Marked(u, i, st)
    PROVE  Linked(t) /\ IsMark(t, u, Top, i, st) /\ UsedSame(t, u, i)
<1>1. Top \in Nat /\ Edge \in 0..Top /\ ItemSize \in Nat \ {0}
  BY PoolFacts
<1>2. u \in [0..Top -> Items(Top)]
  BY DEF Linked, Row
<1>3. t \in [0..Top -> Items(Top)] /\ IsMark(t, u, Top, i, st)
  <2>1. t = Marked(u, i, st) /\ u \in [0..Top -> Items(Top)] /\ Top \in Nat
    BY <1>1, <1>2
  <2> QED BY <2>1, MarkedFacts
<1>4. Row(t, Top, Edge, ItemSize)
  BY <1>1, <1>3, MarkKeepsRow DEF Linked
<1>5. /\ \A k \in 0..Top : k # i => t[k] = u[k]
      /\ t[i].next = u[i].next /\ t[i].prev = u[i].prev /\ t[i].state = st
  BY <1>3 DEF IsMark
<1>6. \A k \in 0..Top : At(t, k) <=> At(u, k)
  BY <1>5 DEF At
<1>7. \A k \in 0..Top : t[k].next = u[k].next /\ t[k].prev = u[k].prev
  BY <1>5
<1>8. Ring(t)
  <2>1. t[Edge] = u[Edge] /\ t[0].prev = u[0].prev
    BY <1>1, <1>5, <1>7
  <2> QED BY <2>1, <1>6, <1>7 DEF Linked, Ring
<1>9. UsedSame(t, u, i)
  BY <1>5 DEF UsedSame
<1> QED BY <1>3, <1>4, <1>8, <1>9 DEF Linked

(* What a cut, a merge and a mark do to the room in the free items.          *)
LEMMA CutRoom ==
    ASSUME NEW u, Linked(u), NEW t, Linked(t), NEW i \in 0..Top, NEW j \in 0..Top, NEW e, e = u[i].next,
           ~At(u, j), At(u, i), i < j, j < e, IsCut(t, u, Top, i, j, e, Edge), NEW d,
           u[i].state = "free" => d = 0 - ItemSize,
           u[i].state = "used" => d = e - j - ItemSize
    PROVE  RoomMoves(t, u, d)
<1>1. u \in [0..Top -> Items(Top)] /\ t \in [0..Top -> Items(Top)]
  BY DEF Linked, Row
<1>2. i # j /\ i # e /\ j # e /\ e \in 0..Top
  BY <1>1 DEF Items
<1>3. /\ t[j].state = "free" /\ t[j].next = e
      /\ t[i].state = u[i].state /\ t[i].next = j
      /\ t[e].state = u[e].state /\ t[e].next = u[e].next
      /\ \A k \in 0..Top : k # i /\ k # j /\ k # e => t[k] = u[k]
  BY DEF IsCut
<1>4. \A k \in 0..Top : k # i /\ k # j => Room(t, k) = Room(u, k)
  BY <1>3 DEF Room
<1>5. RoomMoves(t, u, (Room(t, i) - Room(u, i)) + (Room(t, j) - Room(u, j)))
  BY <1>1, <1>2, <1>4, RoomChange
<1>6. Top \in Nat /\ ItemSize \in Nat
  BY PoolFacts
<1>7. Room(u, j) = 0 /\ Room(t, j) = e - j - ItemSize
  BY <1>3 DEF Room, At
<1>8. CASE u[i].state = "free"
  <2>1. Room(u, i) = e - i - ItemSize /\ Room(t, i) = j - i - ItemSize
    BY <1>3, <1>8 DEF Room
  <2>2. (Room(t, i) - Room(u, i)) + (Room(t, j) - Room(u, j)) = d
    BY <1>2, <1>6, <1>7, <1>8, <2>1
  <2> QED BY <1>5, <2>2
<1>9. CASE u[i].state # "free"
  <2>1. Room(u, i) = 0 /\ Room(t, i) = 0
    BY <1>3, <1>9 DEF Room
  <2>2. u[i].state = "used"
    BY <1>1, <1>9 DEF Items, At
  <2>3. (Room(t, i) - Room(u, i)) + (Room(t, j) - Room(u, j)) = d
    BY <1>2, <1>6, <1>7, <2>1, <2>2
  <2> QED BY <1>5, <2>3
<1> QED BY <1>8, <1>9

LEMMA MergeRoom ==
    ASSUME NEW u, Linked(u), NEW t, Linked(t), NEW i \in 0..Top, NEW n \in 0..Top, n = u[i].next,
           NEW e \in 0..Top, e = u[n].next, At(u, i), u[n].state = "free", i < n, n < e,
           IsMerge(t, u, Top, i, n, e), NEW d,
           u[i].state = "free" => d = ItemSize,
           u[i].state = "used" => d = 0 - (e - n - ItemSize)
    PROVE  RoomMoves(t, u, d)
<1>1. u \in [0..Top -> Items(Top)] /\ t \in [0..Top -> Items(Top)]
  BY DEF Linked, Row
<1>2. i # n /\ i # e /\ n # e
  OBVIOUS
<1>3. /\ t[n].state = "none"
      /\ t[i].state = u[i].state /\ t[i].next = e
      /\ t[e].state = u[e].state /\ t[e].next = u[e].next
      /\ \A k \in 0..Top : k # i /\ k # n /\ k # e => t[k] = u[k]
  BY DEF IsMerge
<1>4. \A k \in 0..Top : k # i /\ k # n => Room(t, k) = Room(u, k)
  BY <1>3 DEF Room
<1>5. RoomMoves(t, u, (Room(t, i) - Room(u, i)) + (Room(t, n) - Room(u, n)))
  BY <1>1, <1>2, <1>4, RoomChange
<1>6. Top \in Nat /\ ItemSize \in Nat
  BY PoolFacts
<1>7. Room(t, n) = 0 /\ Room(u, n) = e - n - ItemSize
  BY <1>3 DEF Room
<1>8. CASE u[i].state = "free"
  <2>1. Room(u, i) = n - i - ItemSize /\ Room(t, i) = e - i - ItemSize
    BY <1>3, <1>8 DEF Room
  <2>2. (Room(t, i) - Room(u, i)) + (Room(t, n) - Room(u, n)) = d
    BY <1>2, <1>6, <1>7, <1>8, <2>1
  <2> QED BY <1>5, <2>2
<1>9. CASE u[i].state # "free"
  <2>1. Room(u, i) = 0 /\ Room(t, i) = 0
    BY <1>3, <1>9 DEF Room
  <2>2. u[i].state = "used"
    BY <1>1, <1>9 DEF Items, At
  <2>3. (Room(t, i) - Room(u, i)) + (Room(t, n) - Room(u, n)) = d
    BY <1>2, <1>6, <1>7, <2>1, <2>2
  <2> QED BY <1>5, <2>3
<1> QED BY <1>8, <1>9

LEMMA MarkRoom ==
    ASSUME NEW u, Linked(u), NEW t, Linked(t), NEW i \in 0..Top, NEW e, e = u[i].next, At(u, i), NEW st,
           st # u[i].state, IsMark(t, u, Top, i, st), NEW d,
           st = "free" => d = e - i - ItemSize,
           st = "used" => d = 0 - (e - i - ItemSize)
    PROVE  RoomMoves(t, u, d)
<1>1. u \in [0..Top -> Items(Top)] /\ t \in [0..Top -> Items(Top)]
  BY DEF Linked, Row
<1>2. /\ st \in {"free", "used"} /\ t[i].state = st /\ t[i].next = e
      /\ \A k \in 0..Top : k # i => t[k] = u[k]
  BY DEF IsMark
<1>3. \A k \in 0..Top : k # i => Room(t, k) = Room(u, k)
  BY <1>2 DEF Room
<1>4. RoomMoves(t, u, Room(t, i) - Room(u, i))
  BY <1>1, <1>3, RoomChangeOne
<1>5. Top \in Nat /\ ItemSize \in Nat /\ e \in 0..Top
  BY <1>1, PoolFacts DEF Items
<1>6. CASE st = "free"
  <2>1. Room(t, i) = e - i - ItemSize /\ Room(u, i) = 0
    BY <1>2, <1>6 DEF Room
  <2>2. Room(t, i) - Room(u, i) = d
    BY <1>5, <1>6, <2>1
  <2> QED BY <1>4, <2>2
<1>7. CASE st = "used"
  <2>1. u[i].state = "free"
    BY <1>1, <1>7 DEF Items, At
  <2>2. Room(t, i) = 0 /\ Room(u, i) = e - i - ItemSize
    BY <1>2, <1>7, <2>1 DEF Room
  <2>3. Room(t, i) - Room(u, i) = d
    BY <1>5, <1>7, <2>2
  <2> QED BY <1>4, <2>3
<1> QED BY <1>2, <1>6, <1>7

-----------------------------------------------------------------------------
(* The steps that the calls of memheap are made of.  A heap is whole but for *)
(* the free items U that are not in the free list.                           *)
MemState == [item : [0..Top -> Items(Top)], free : Seq(0..Top), available : Int, max : Int]

Listed(t, fr, U) ==
    /\ IsOnce(fr)
    /\ \A k \in 0..Top : k \in Elems(fr) <=> (t[k].state = "free" /\ k \notin U)
    /\ \A k \in U : k \in 0..Top /\ t[k].state = "free"

Whole(x, U) == x \in MemState /\ Linked(x.item) /\ Listed(x.item, x.free, U)

SameAccount(y, x) == y.available = x.available /\ y.max = x.max

LEMMA MemLists ==
    ASSUME NEW S, NEW fr \in Seq(S), NEW i \in S
    PROVE  /\ MemHeap!Elems(fr) = Elems(fr) /\ (MemHeap!IsOnce(fr) <=> IsOnce(fr))
           /\ MemHeap!Unlink(fr, i) = Unlink(fr, i) /\ MemHeap!PushFront(fr, i) = PushFront(fr, i)
<1>1. MemHeap!Elems(fr) = Elems(fr)
  BY DEF MemHeap!Elems, Elems
<1>2. MemHeap!IsOnce(fr) <=> IsOnce(fr)
  BY DEF MemHeap!IsOnce, IsOnce
<1>3. MemHeap!Unlink(fr, i) = Unlink(fr, i)
  BY <1>1 DEF MemHeap!Unlink, Unlink
<1>4. MemHeap!PushFront(fr, i) = PushFront(fr, i)
  BY DEF MemHeap!PushFront, PushFront
<1> QED BY <1>1, <1>2, <1>3, <1>4

LEMMA TakeOutOk ==
    ASSUME NEW x, NEW U, Whole(x, U), NEW i \in 0..Top, x.item[i].state = "free", i \notin U,
           NEW V, V = U \cup {i}, NEW y, y = MemHeap!TakeOut(x, i)
    PROVE  Whole(y, V) /\ y.item = x.item /\ SameAccount(y, x)
<1>1. PICK f : f = Unlink(x.free, i)
  OBVIOUS
<1>2. x \in MemState /\ x.free \in Seq(0..Top) /\ Listed(x.item, x.free, U)
  BY DEF Whole, MemState
<1>3. y = [x EXCEPT !.free = f]
  BY <1>1, <1>2, MemLists DEF MemHeap!TakeOut
<1>4. f \in Seq(0..Top) /\ IsOnce(f) /\ Elems(f) = Elems(x.free) \ {i}
  BY <1>1, <1>2, UnlinkFacts DEF Listed
<1>5. y \in MemState /\ y.item = x.item /\ y.free = f /\ SameAccount(y, x)
  BY <1>2, <1>3, <1>4 DEF MemState, SameAccount
<1>6. Listed(x.item, f, V)
  BY <1>2, <1>4 DEF Listed
<1> QED BY <1>5, <1>6 DEF Whole

Pushed(x, i) == [x EXCEPT !.free = MemHeap!PushFront(@, i)]

LEMMA PushOk ==
    ASSUME NEW x, NEW U, Whole(x, U), NEW i \in U, NEW V, V = U \ {i}, NEW y, y = Pushed(x, i)
    PROVE  Whole(y, V) /\ y.item = x.item /\ SameAccount(y, x)
<1>1. PICK f : f = PushFront(x.free, i)
  OBVIOUS
<1>2. /\ x \in MemState /\ x.free \in Seq(0..Top) /\ Listed(x.item, x.free, U) /\ i \in 0..Top
      /\ x.item[i].state = "free"
  BY DEF Whole, MemState, Listed
<1>3. y = [x EXCEPT !.free = f]
  BY <1>1, <1>2, MemLists DEF Pushed
<1>4. i \notin Elems(x.free) /\ IsOnce(x.free)
  BY <1>2 DEF Listed
<1>5. f \in Seq(0..Top) /\ IsOnce(f) /\ Elems(f) = Elems(x.free) \cup {i}
  <2>1. PICK g \in Seq(0..Top) : g = x.free
    BY <1>2
  <2>2. PICK j \in 0..Top : j = i
    BY <1>2
  <2>3. f = PushFront(g, j) /\ IsOnce(g) /\ j \notin Elems(g)
    BY <1>1, <1>4, <2>1, <2>2
  <2>4. f \in Seq(0..Top) /\ IsOnce(f) /\ Elems(f) = Elems(g) \cup {j}
    <3>1. PICK S : S = 0..Top
      OBVIOUS
    <3>2. g \in Seq(S) /\ j \in S
      BY <3>1
    <3>3. f \in Seq(S) /\ IsOnce(f) /\ Elems(f) = Elems(g) \cup {j}
      BY <2>3, <3>2, PushFrontFacts
    <3> QED BY <3>1, <3>3
  <2> QED BY <2>1, <2>2, <2>4
<1>6. y \in MemState /\ y.item = x.item /\ y.free = f /\ SameAccount(y, x)
  BY <1>2, <1>3, <1>5 DEF MemState, SameAccount
<1>7. Listed(x.item, f, V)
  BY <1>2, <1>5 DEF Listed
<1> QED BY <1>6, <1>7 DEF Whole

(* y is x with item i cut at j.                                              *)
CutOff(y, x, U, i, j, e, d) ==
    /\ Whole(y, U) /\ SameAccount(y, x)
    /\ IsCut(y.item, x.item, Top, i, j, e, Edge) /\ UsedSame(y.item, x.item, i)
    /\ RoomMoves(y.item, x.item, d)
    /\ ~At(x.item, j) /\ i < j /\ j < e /\ e \in 0..Top

LEMMA SplitAtOk ==
    ASSUME NEW x, NEW U, Whole(x, U), NEW i \in 0..Top, At(x.item, i), i # Edge,
           NEW e, e = x.item[i].next, NEW j \in 0..Top, i + ItemSize <= j, j + ItemSize <= e,
           NEW y, y = MemHeap!SplitAt(x, i, j), NEW d,
           x.item[i].state = "free" => d = 0 - ItemSize,
           x.item[i].state = "used" => d = e - j - ItemSize
    PROVE  CutOff(y, x, U, i, j, e, d)
<1>1. PICK u : u = x.item
  OBVIOUS
<1>2. PICK t : t = Parted(u, i, j, e)
  OBVIOUS
<1>3. PICK f : f = PushFront(x.free, j)
  OBVIOUS
<1>4. /\ x \in MemState /\ x.free \in Seq(0..Top) /\ Listed(u, x.free, U) /\ Linked(u)
      /\ At(u, i) /\ e = u[i].next
  BY <1>1 DEF Whole, MemState
<1>5. y = [x EXCEPT !.item = t, !.free = f]
  BY <1>1, <1>2, <1>3, <1>4, MemLists DEF MemHeap!SplitAt, Parted
<1>6. /\ Linked(t) /\ IsCut(t, u, Top, i, j, e, Edge) /\ ~At(u, j)
      /\ i < j /\ j < e /\ e \in 0..Top /\ UsedSame(t, u, i)
  BY <1>2, <1>4, LinkedCut
<1>7. u[j].state # "free"
  BY <1>6 DEF At
<1>8. j \notin Elems(x.free) /\ IsOnce(x.free) /\ j \notin U
  BY <1>4, <1>7 DEF Listed
<1>9. f \in Seq(0..Top) /\ IsOnce(f) /\ Elems(f) = Elems(x.free) \cup {j}
  BY <1>3, <1>4, <1>8, PushFrontFacts
<1>10. t \in [0..Top -> Items(Top)]
  BY <1>6 DEF Linked, Row
<1>11. y \in MemState /\ y.item = t /\ y.free = f /\ SameAccount(y, x)
  BY <1>4, <1>5, <1>9, <1>10 DEF MemState, SameAccount
<1>12. t[j].state = "free" /\ \A k \in 0..Top : k # j => t[k].state = u[k].state
  BY <1>6 DEF IsCut
<1>13. Listed(t, f, U)
  BY <1>4, <1>8, <1>9, <1>12 DEF Listed
<1>14. RoomMoves(t, u, d)
  BY <1>1, <1>4, <1>6, CutRoom
<1> QED BY <1>1, <1>6, <1>11, <1>13, <1>14 DEF CutOff, Whole

(* y is x with the free item n, which ended at e, a part of item i.          *)
Absorbs(y, x, V, i, n, e, d) ==
    /\ Whole(y, V) /\ SameAccount(y, x)
    /\ IsMerge(y.item, x.item, Top, i, n, e)
    /\ RoomMoves(y.item, x.item, d)
    /\ i < n /\ n < e /\ n \in 0..Top /\ e \in 0..Top /\ n + ItemSize <= e

LEMMA JoinOk ==
    ASSUME NEW x, NEW U, Whole(x, U), NEW i \in 0..Top, At(x.item, i), i # Edge,
           NEW n, n = x.item[i].next, n \in U, NEW e, e = x.item[n].next, NEW V, V = U \ {n},
           NEW y, y = MemHeap!Join(x, i), NEW d,
           x.item[i].state = "free" => d = ItemSize,
           x.item[i].state = "used" => d = 0 - (e - n - ItemSize)
    PROVE  Absorbs(y, x, V, i, n, e, d)
<1>1. PICK u : u = x.item
  OBVIOUS
<1>2. PICK t : t = Merged(u, i, n, e)
  OBVIOUS
<1>3. /\ x \in MemState /\ Listed(u, x.free, U) /\ Linked(u) /\ At(u, i)
      /\ n = u[i].next /\ e = u[n].next /\ u[n].state = "free"
  BY <1>1 DEF Whole, MemState, Listed
<1>4. y = [x EXCEPT !.item = t]
  BY <1>1, <1>2, <1>3 DEF MemHeap!Join, Merged, MemHeap!NoItem
<1>5. /\ Linked(t) /\ IsMerge(t, u, Top, i, n, e)
      /\ i < n /\ n < e /\ n \in 0..Top /\ e \in 0..Top /\ n + ItemSize <= e
  BY <1>2, <1>3, LinkedMerge
<1>6. t \in [0..Top -> Items(Top)]
  BY <1>5 DEF Linked, Row
<1>7. y \in MemState /\ y.item = t /\ y.free = x.free /\ SameAccount(y, x)
  BY <1>3, <1>4, <1>6 DEF MemState, SameAccount
<1>8. t[n].state = "none" /\ \A k \in 0..Top : k # n => t[k].state = u[k].state
  BY <1>5 DEF IsMerge
<1>9. Listed(t, x.free, V)
  BY <1>3, <1>8 DEF Listed
<1>10. RoomMoves(t, u, d)
  BY <1>1, <1>3, <1>5, MergeRoom
<1> QED BY <1>1, <1>5, <1>7, <1>9, <1>10 DEF Absorbs, Whole

(* y is x with i marked as st; the item is or will be one of those aside.    *)
Turns(y, x, V, i, st, d) ==
    /\ Whole(y, V) /\ IsMark(y.item, x.item, Top, i, st) /\ UsedSame(y.item, x.item, i)
    /\ RoomMoves(y.item, x.item, d)

LEMMA TurnOk ==
    ASSUME NEW x, NEW U, Whole(x, U), NEW i \in 0..Top, At(x.item, i), i # Edge,
           NEW e, e = x.item[i].next, NEW st \in {"free", "used"}, st # x.item[i].state,
           NEW V, st = "free" => V = U \cup {i}, st = "used" => i \in U /\ V = U \ {i},
           NEW y \in MemState, y.item = Marked(x.item, i, st), y.free = x.free, NEW d,
           st = "free" => d = e - i - ItemSize,
           st = "used" => d = 0 - (e - i - ItemSize)
    PROVE  Turns(y, x, V, i, st, d)
<1>1. PICK u : u = x.item
  OBVIOUS
<1>2. PICK t : t = Marked(u, i, st)
  OBVIOUS
<1>3. /\ Listed(u, x.free, U) /\ Linked(u) /\ At(u, i) /\ e = u[i].next /\ st # u[i].state
      /\ y.item = t
  BY <1>1, <1>2 DEF Whole
<1>4. Linked(t) /\ IsMark(t, u, Top, i, st) /\ UsedSame(t, u, i)
  BY <1>2, <1>3, LinkedMark
<1>5. t[i].state = st /\ \A k \in 0..Top : k # i => t[k].state = u[k].state
  BY <1>4 DEF IsMark
<1>6. Listed(t, x.free, V)
  <2>1. CASE st = "free"
    <3>1. V = U \cup {i} /\ u[i].state # "free"
      BY <2>1, <1>3
    <3> QED BY <2>1, <3>1, <1>3, <1>5 DEF Listed
  <2>2. CASE st = "used"
    <3>1. V = U \ {i} /\ i \in U
      BY <2>2
    <3> QED BY <2>2, <3>1, <1>3, <1>5 DEF Listed
  <2> QED BY <2>1, <2>2
<1>7. RoomMoves(t, u, d)
  BY <1>3, <1>4, MarkRoom
<1> QED BY <1>1, <1>3, <1>4, <1>6, <1>7 DEF Turns, Whole

-----------------------------------------------------------------------------
(* What holds of a memheap between its calls.                                *)
MemSound(x) ==
    /\ Whole(x, {}) /\ AllApart(x.item, Top)
    /\ x.available = RoomIn(x.item) /\ PoolSize - x.available <= x.max

(* Free items but j have used ones behind them.                              *)
ApartSave(t, j) == \A k \in 0..Top : t[k].state = "free" /\ k # j => t[t[k].next].state = "used"

LEMMA UsedSameTwice ==
    ASSUME NEW t, NEW u, NEW v, NEW i, UsedSame(t, u, i), UsedSame(v, t, i)
    PROVE  UsedSame(v, u, i)
BY DEF UsedSame

LEMMA WholeAccount ==
    ASSUME NEW x, NEW U, Whole(x, U), NEW y \in MemState, y.item = x.item, y.free = x.free
    PROVE  Whole(y, U)
BY DEF Whole

LEMMA MergeUsed ==
    ASSUME NEW u, NEW t, NEW k \in 0..Top, NEW n \in 0..Top, NEW e \in 0..Top, k < n, n < e,
           u[n].state = "free", IsMerge(t, u, Top, k, n, e), NEW q, u[k].state = "free" \/ q = k
    PROVE  UsedSame(t, u, q)
<1>1. /\ t[n].state = "none" /\ t[k].state = u[k].state
      /\ t[e].state = u[e].state /\ t[e].next = u[e].next
      /\ \A l \in 0..Top : l # k /\ l # n /\ l # e => t[l] = u[l]
  BY DEF IsMerge
<1>2. \A l \in 0..Top : l # n => t[l].state = u[l].state
  BY <1>1
<1>3. \A l \in 0..Top : l # n /\ l # k => t[l].next = u[l].next
  BY <1>1
<1> QED BY <1>1, <1>2, <1>3 DEF UsedSame

(* A cut leaves used items behind the free ones, but for the two parts.      *)
LEMMA CutApart ==
    ASSUME NEW u, Linked(u), NEW t, NEW i \in 0..Top, NEW j \in 0..Top, NEW e \in 0..Top, i < j, j < e,
           ~At(u, j), IsCut(t, u, Top, i, j, e, Edge), AllApart(u, Top),
           NEW k \in 0..Top, t[k].state = "free", k # i, k = j => u[e].state = "used"
    PROVE  t[t[k].next].state = "used"
<1>1. /\ t[j].next = e
      /\ t[i].state = u[i].state
      /\ t[e].state = u[e].state /\ t[e].next = u[e].next
      /\ \A l \in 0..Top : l # i /\ l # j /\ l # e => t[l] = u[l]
  BY DEF IsCut
<1>2. CASE k = j
  BY <1>1, <1>2
<1>3. CASE k # j
  <2>1. t[k].state = u[k].state /\ t[k].next = u[k].next
    BY <1>1, <1>3
  <2>2. PICK n : n = u[k].next
    OBVIOUS
  <2>3. n \in 0..Top
    BY <2>2 DEF Linked, Row, Items
  <2>4. u[n].state = "used"
    BY <2>1, <2>2 DEF AllApart
  <2>5. n # j
    BY <2>4 DEF At
  <2>6. t[n].state = u[n].state
    BY <2>3, <2>5, <1>1
  <2> QED BY <2>1, <2>2, <2>4, <2>6
<1> QED BY <1>2, <1>3

(* c is b after the free item k took in a free item behind it.               *)
Closed(c, b, U, k, n) ==
    /\ Whole(c, U) /\ AllApart(c.item, Top) /\ SameAccount(c, b)
    /\ \A q : UsedSame(c.item, b.item, q)
    /\ \A q \in 0..Top : c.item[q].state = "used" <=> b.item[q].state = "used"
    /\ c.item[k].state = "free"
    /\ IF b.item[n].state = "free"
       THEN RoomMoves(c.item, b.item, ItemSize) /\ c.item[k].next = b.item[n].next
       ELSE c = b

LEMMA JoinForward ==
    ASSUME NEW b, NEW U, Whole(b, U), NEW k \in 0..Top, b.item[k].state = "free",
           ApartSave(b.item, k), NEW n, n = b.item[k].next, n \notin U,
           NEW c, c = IF b.item[n].state = "free" THEN MemHeap!Join(MemHeap!TakeOut(b, n), k) ELSE b
    PROVE  Closed(c, b, U, k, n)
<1>1. PICK u : u = b.item
  OBVIOUS
<1>2. Linked(u) /\ u[k].state = "free" /\ At(u, k) /\ n = u[k].next /\ ApartSave(u, k) /\ b \in MemState
  BY <1>1 DEF Whole, At
<1>3. k # Edge
  BY <1>2 DEF Linked, Ring
<1>4. Ends(u, Top, Edge, ItemSize, k, n)
  BY <1>2, <1>3, LinkedNext
<1>5. n \in 0..Top /\ k < n /\ At(u, n)
  BY <1>4 DEF Ends
<1>6. CASE u[n].state = "free"
  <2>1. PICK e : e = u[n].next
    OBVIOUS
  <2>2. PICK V : V = U \cup {n}
    OBVIOUS
  <2>3. PICK o : o = MemHeap!TakeOut(b, n)
    OBVIOUS
  <2>4. c = MemHeap!Join(o, k)
    BY <2>3, <1>1, <1>6
  <2>5. Whole(o, V) /\ o.item = u /\ SameAccount(o, b)
    <3>1. n \in 0..Top /\ b.item[n].state = "free" /\ n \notin U
      BY <1>1, <1>5, <1>6
    <3> QED BY <3>1, <2>2, <2>3, <1>1, TakeOutOk
  <2>6. n \in V /\ U = V \ {n}
    BY <2>2
  <2>7. PICK d : d = ItemSize
    OBVIOUS
  <2>8. At(o.item, k) /\ n = o.item[k].next /\ e = o.item[n].next /\ o.item[k].state = "free"
    BY <2>1, <2>5, <1>2
  <2>9. (o.item[k].state = "free" => d = ItemSize) /\ (o.item[k].state = "used" => d = 0 - (e - n - ItemSize))
    BY <2>7, <2>8
  <2>10. Absorbs(c, o, U, k, n, e, d)
    BY <2>4, <2>5, <2>6, <2>8, <2>9, <1>3, JoinOk
  <2>11. PICK t : t = c.item
    OBVIOUS
  <2>12. /\ Whole(c, U) /\ SameAccount(c, o) /\ IsMerge(t, u, Top, k, n, e) /\ RoomMoves(t, u, d)
         /\ n < e /\ e \in 0..Top
    BY <2>5, <2>10, <2>11 DEF Absorbs
  <2>13. /\ t[n].state = "none" /\ t[k].state = u[k].state /\ t[k].next = e
         /\ t[e].state = u[e].state /\ t[e].next = u[e].next
         /\ \A l \in 0..Top : l # k /\ l # n /\ l # e => t[l] = u[l]
    BY <2>12 DEF IsMerge
  <2>14. \A l \in 0..Top : l # n => t[l].state = u[l].state
    BY <2>13
  <2>15. \A l \in 0..Top : l # n /\ l # k => t[l].next = u[l].next
    BY <2>13
  <2>16. AllApart(t, Top)
    <3> SUFFICES ASSUME NEW l \in 0..Top, t[l].state = "free" PROVE t[t[l].next].state = "used"
      BY DEF AllApart
    <3>1. l # n
      BY <2>13
    <3>2. CASE l = k
      <4>1. u[e].state = "used"
        BY <1>2, <1>5, <1>6, <2>1 DEF ApartSave
      <4> QED BY <4>1, <3>2, <2>13
    <3>3. CASE l # k
      <4>1. u[l].state = "free"
        BY <3>1, <2>14
      <4>2. u[u[l].next].state = "used" /\ t[l].next = u[l].next
        BY <4>1, <3>1, <3>3, <1>2, <2>15 DEF ApartSave
      <4>3. u[l].next # n /\ u[l].next \in 0..Top
        BY <4>2, <1>2, <1>6 DEF Linked, Row, Items
      <4> QED BY <4>2, <4>3, <2>14
    <3> QED BY <3>2, <3>3
  <2>17. \A q : UsedSame(t, u, q)
    BY <2>12, <1>2, <1>5, <1>6, MergeUsed
  <2>18. \A q \in 0..Top : t[q].state = "used" <=> u[q].state = "used"
    BY <2>13, <2>14, <1>6
  <2>19. SameAccount(c, b)
    BY <2>5, <2>12 DEF SameAccount
  <2>20. RoomMoves(t, u, ItemSize) /\ t[k].state = "free" /\ t[k].next = u[n].next
    BY <2>1, <2>7, <2>12, <2>13, <1>2
  <2> QED BY <2>11, <2>12, <2>16, <2>17, <2>18, <2>19, <2>20, <1>1, <1>6 DEF Closed
<1>7. CASE u[n].state # "free"
  <2>1. c = b
    BY <1>1, <1>7
  <2>2. u[n].state = "used"
    BY <1>2, <1>5, <1>7 DEF Linked, Row, Items, At
  <2>3. AllApart(u, Top)
    BY <1>2, <2>2 DEF AllApart, ApartSave
  <2>4. \A q : UsedSame(u, u, q)
    BY DEF UsedSame
  <2> QED BY <2>1, <2>3, <2>4, <1>1, <1>2, <1>7 DEF Closed, SameAccount
<1> QED BY <1>6, <1>7

LEMMA NoteMaxOk ==
    ASSUME NEW x \in MemState, NEW y, y = MemHeap!NoteMax(x)
    PROVE  /\ y \in MemState /\ y.item = x.item /\ y.free = x.free /\ y.available = x.available
           /\ PoolSize - y.available <= y.max
<1>1. PICK a : a = x.available
  OBVIOUS
<1>2. PICK b : b = x.max
  OBVIOUS
<1>3. PICK c : c = (IF PoolSize - a > b THEN PoolSize - a ELSE b)
  OBVIOUS
<1>4. a \in Int /\ b \in Int /\ PoolSize \in Int
  BY <1>1, <1>2, PoolFacts DEF MemState
<1>5. c \in Int /\ PoolSize - a <= c
  BY <1>3, <1>4
<1>6. y = [x EXCEPT !.max = c]
  BY <1>1, <1>2, <1>3 DEF MemHeap!NoteMax
<1>7. y \in MemState /\ y.item = x.item /\ y.free = x.free /\ y.available = a /\ y.max = c
  BY <1>1, <1>5, <1>6 DEF MemState
<1> QED BY <1>1, <1>5, <1>7

(* The free item i becomes a block with room for n bytes.                    *)
Taken(y, x, i, n) ==
    /\ MemSound(y) /\ UsedSame(y.item, x.item, i) /\ y.item[i].state = "used"
    /\ y.item[i].next - (i + ItemSize) >= n /\ i # Edge
    /\ n <= x.item[i].next - (i + ItemSize)

LEMMA MemOccupyOk ==
    ASSUME NEW x, MemSound(x), NEW i \in 0..Top, x.item[i].state = "free", NEW n \in Nat,
           MemHeap!ItemBytes(x, i) >= n, NEW y, y = MemHeap!Occupy(x, i, n)
    PROVE  Taken(y, x, i, n)
<1>1. PICK u : u = x.item
  OBVIOUS
<1>2. PICK e : e = u[i].next
  OBVIOUS
<1>3. PICK all : all = MemHeap!ItemBytes(x, i)
  OBVIOUS
<1>4. PICK o : o = MemHeap!TakeOut(x, i)
  OBVIOUS
<1>5. /\ Whole(x, {}) /\ Linked(u) /\ u \in [0..Top -> Items(Top)] /\ AllApart(u, Top)
      /\ x.available = RoomIn(u) /\ At(u, i) /\ u[i].state = "free"
  BY <1>1 DEF MemSound, Whole, Linked, Row, At
<1>6. i # Edge
  BY <1>5 DEF Linked, Ring
<1>7. /\ Top \in Nat /\ ItemSize \in Nat \ {0} /\ MiniAlloc \in Nat \ {0} /\ e \in 0..Top
      /\ all = e - i - ItemSize /\ all >= n
  BY <1>1, <1>2, <1>3, <1>5, PoolFacts DEF MemHeap!ItemBytes, Items
<1>8. PICK U : U = {i}
  OBVIOUS
<1>9. PICK W : W = {}
  OBVIOUS
<1>10. Whole(o, U) /\ o.item = u /\ SameAccount(o, x)
  <2>1. Whole(x, W) /\ i \notin W /\ U = W \cup {i} /\ x.item[i].state = "free"
    BY <1>1, <1>5, <1>8, <1>9
  <2> QED BY <2>1, <1>1, <1>4, TakeOutOk
<1>11. u[e].state = "used"
  BY <1>2, <1>5 DEF AllApart
<1>12. PICK s : s = IF all >= n + ItemSize + MiniAlloc
                    THEN [MemHeap!SplitAt(o, i, i + ItemSize + n) EXCEPT !.available = @ - n - ItemSize]
                    ELSE [o EXCEPT !.available = @ - all]
  OBVIOUS
<1>13. x.available \in Int /\ RoomIn(u) \in Int /\ o \in MemState
  BY <1>5, <1>10, RoomInIs DEF Whole
<1>14. PICK w : w = s.item
  OBVIOUS
<1>15. PICK f : f = w[i].next
  OBVIOUS
<1>16. /\ s \in MemState /\ Whole(s, U) /\ UsedSame(w, u, i) /\ w[i].state = "free"
       /\ f \in 0..Top /\ f - i - ItemSize >= n
       /\ \A k \in 0..Top : w[k].state = "free" /\ k # i => w[w[k].next].state = "used"
       /\ s.available = RoomIn(w) - (f - i - ItemSize)
  <2>1. CASE all >= n + ItemSize + MiniAlloc
    <3>1. PICK j : j = i + ItemSize + n
      OBVIOUS
    <3>2. j \in 0..Top /\ i + ItemSize <= j /\ j + ItemSize <= e
      BY <2>1, <3>1, <1>7
    <3>3. PICK z : z = MemHeap!SplitAt(o, i, j)
      OBVIOUS
    <3>4. PICK d : d = 0 - ItemSize
      OBVIOUS
    <3>5. At(o.item, i) /\ e = o.item[i].next
      BY <1>2, <1>5, <1>10
    <3>6. (o.item[i].state = "free" => d = 0 - ItemSize) /\ (o.item[i].state = "used" => d = e - j - ItemSize)
      BY <3>4, <1>5, <1>10
    <3>7. CutOff(z, o, U, i, j, e, d)
      BY <3>2, <3>3, <3>5, <3>6, <1>6, <1>10, SplitAtOk
    <3>8. PICK t : t = z.item
      OBVIOUS
    <3>9. /\ Whole(z, U) /\ z \in MemState /\ SameAccount(z, o) /\ IsCut(t, u, Top, i, j, e, Edge)
          /\ UsedSame(t, u, i) /\ RoomMoves(t, u, d) /\ ~At(u, j) /\ i < j /\ j < e
      BY <3>7, <3>8, <1>10 DEF CutOff, Whole
    <3>10. PICK a : a = z.available
      OBVIOUS
    <3>11. a = x.available /\ a \in Int
      BY <3>9, <3>10, <1>10, <1>13 DEF SameAccount
    <3>12. PICK c : c = a - n - ItemSize
      OBVIOUS
    <3>13. s = [z EXCEPT !.available = c]
      BY <2>1, <3>1, <3>3, <3>10, <3>12, <1>12
    <3>14. c \in Int
      BY <3>11, <3>12, <1>7
    <3>15. s \in MemState /\ s.item = t /\ s.free = z.free /\ s.available = c
      BY <3>8, <3>9, <3>13, <3>14 DEF MemState
    <3>16. Whole(s, U)
      BY <3>8, <3>9, <3>15, WholeAccount
    <3>17. t[i].state = "free" /\ t[i].next = j
      BY <3>9, <1>5 DEF IsCut
    <3>18. ASSUME NEW k \in 0..Top, t[k].state = "free", k # i PROVE t[t[k].next].state = "used"
      BY <3>18, <3>2, <3>9, <1>5, <1>7, <1>11, CutApart
    <3>19. RoomIn(t) = RoomIn(u) + d
      BY <3>9 DEF RoomMoves
    <3>20. c = RoomIn(t) - (j - i - ItemSize)
      BY <3>1, <3>4, <3>11, <3>12, <3>19, <1>5, <1>7, <1>13
    <3>21. w = t /\ f = j
      BY <3>15, <3>17, <1>14, <1>15
    <3>22. j - i - ItemSize >= n
      BY <3>1, <1>7
    <3> QED BY <3>2, <3>9, <3>15, <3>16, <3>17, <3>18, <3>20, <3>21, <3>22
  <2>2. CASE ~(all >= n + ItemSize + MiniAlloc)
    <3>1. PICK a : a = o.available
      OBVIOUS
    <3>2. a = x.available /\ a \in Int
      BY <3>1, <1>10, <1>13 DEF SameAccount
    <3>3. PICK c : c = a - all
      OBVIOUS
    <3>4. s = [o EXCEPT !.available = c]
      BY <2>2, <3>1, <3>3, <1>12
    <3>5. c \in Int
      BY <3>2, <3>3, <1>7
    <3>6. s \in MemState /\ s.item = u /\ s.free = o.free /\ s.available = c
      BY <3>4, <3>5, <1>10, <1>13 DEF MemState
    <3>7. Whole(s, U)
      BY <3>6, <1>10, WholeAccount
    <3>8. w = u /\ f = e
      BY <3>6, <1>2, <1>14, <1>15
    <3>9. UsedSame(u, u, i)
      BY DEF UsedSame
    <3>10. c = RoomIn(u) - (e - i - ItemSize) /\ e - i - ItemSize >= n
      BY <3>2, <3>3, <1>5, <1>7
    <3>11. \A k \in 0..Top : u[k].state = "free" /\ k # i => u[u[k].next].state = "used"
      BY <1>5 DEF AllApart
    <3> QED BY <3>6, <3>7, <3>8, <3>9, <3>10, <3>11, <1>5, <1>7
  <2> QED BY <2>1, <2>2
<1>17. PICK v : v = Marked(w, i, "used")
  OBVIOUS
<1>18. PICK q : q = [s EXCEPT !.item = v]
  OBVIOUS
<1>19. y = MemHeap!NoteMax(q)
  BY <1>3, <1>4, <1>12, <1>14, <1>17, <1>18 DEF MemHeap!Occupy, Marked
<1>20. PICK st \in {"free", "used"} : st = "used"
  OBVIOUS
<1>21. w \in [0..Top -> Items(Top)] /\ Linked(w) /\ At(w, i)
  BY <1>14, <1>16 DEF Whole, Linked, Row, At
<1>22. v \in [0..Top -> Items(Top)] /\ v = Marked(w, i, st)
  <2>1. v = Marked(w, i, st) /\ Top \in Nat /\ w \in [0..Top -> Items(Top)]
    BY <1>7, <1>17, <1>20, <1>21
  <2>2. v \in [0..Top -> Items(Top)]
    BY <2>1, MarkedFacts
  <2> QED BY <2>1, <2>2
<1>23. q \in MemState /\ q.item = v /\ q.free = s.free /\ q.available = s.available
  BY <1>16, <1>18, <1>22 DEF MemState
<1>24. PICK d : d = 0 - (f - i - ItemSize)
  OBVIOUS
<1>25. Turns(q, s, W, i, st, d)
  <2>1. At(s.item, i) /\ f = s.item[i].next /\ st # s.item[i].state
    BY <1>14, <1>15, <1>16, <1>20, <1>21
  <2>2. (st = "free" => W = U \cup {i}) /\ (st = "used" => i \in U /\ W = U \ {i})
    BY <1>8, <1>9, <1>20
  <2>3. (st = "free" => d = f - i - ItemSize) /\ (st = "used" => d = 0 - (f - i - ItemSize))
    BY <1>20, <1>24
  <2>4. q \in MemState /\ q.item = Marked(s.item, i, st) /\ q.free = s.free
    BY <1>14, <1>22, <1>23
  <2>5. Whole(s, U)
    BY <1>16
  <2> QED BY <2>1, <2>2, <2>3, <2>4, <2>5, <1>6, TurnOk
<1>26. Whole(q, W) /\ IsMark(v, w, Top, i, st) /\ UsedSame(v, w, i) /\ RoomMoves(v, w, d)
  BY <1>14, <1>23, <1>25 DEF Turns
<1>27. /\ y \in MemState /\ y.item = v /\ y.free = q.free /\ y.available = q.available
       /\ PoolSize - y.available <= y.max
  BY <1>19, <1>23, NoteMaxOk
<1>28. Whole(y, W)
  BY <1>23, <1>26, <1>27, WholeAccount
<1>29. v[i].state = "used" /\ v[i].next = f /\ \A k \in 0..Top : k # i => v[k] = w[k]
  BY <1>15, <1>20, <1>26 DEF IsMark
<1>30. AllApart(v, Top)
  <2> SUFFICES ASSUME NEW k \in 0..Top, v[k].state = "free" PROVE v[v[k].next].state = "used"
    BY DEF AllApart
  <2>1. k # i /\ w[k].state = "free" /\ v[k].next = w[k].next
    BY <1>29
  <2>2. w[w[k].next].state = "used"
    BY <2>1, <1>16
  <2>3. w[k].next \in 0..Top
    BY <1>21 DEF Items
  <2> QED BY <2>1, <2>2, <2>3, <1>29
<1>31. y.available = RoomIn(v)
  <2>1. RoomIn(v) = RoomIn(w) + d
    BY <1>26 DEF RoomMoves
  <2>2. RoomIn(w) \in Int
    BY <1>21, RoomInIs
  <2> QED BY <2>1, <2>2, <1>7, <1>16, <1>23, <1>24, <1>27
<1>32. UsedSame(v, u, i)
  BY <1>16, <1>26, UsedSameTwice
<1>33. f - (i + ItemSize) >= n /\ e - (i + ItemSize) >= n
  BY <1>7, <1>16
<1> QED BY <1>1, <1>2, <1>6, <1>9, <1>27, <1>28, <1>29, <1>30, <1>31, <1>32, <1>33 DEF Taken, MemSound

(* The block i is given back.                                                *)
Returned(y, x, i) ==
    MemSound(y) /\ UsedSame(y.item, x.item, i) /\ y.item[i].state # "used"

(* Where a free item comes first, the item behind it knows it.               *)
LEMMA MemPrev ==
    ASSUME NEW u, Linked(u), NEW i \in 0..Top, At(u, i), NEW p, p = u[i].prev
    PROVE  /\ p \in 0..Top /\ At(u, p) /\ p # i
           /\ p # Edge => u[p].next = i
           /\ \A k \in 0..Top : At(u, k) /\ k # Edge /\ u[k].next = i => k = p
<1>1. Top \in Nat /\ Edge \in 0..Top /\ ItemSize \in Nat \ {0} /\ Edge # 0
  BY PoolFacts
<1>2. \A k \in 0..Top : At(u, k) /\ k # Edge /\ u[k].next = i => k = p
  BY LinkedNext
<1>3. CASE i = 0
  <2>1. p = Edge
    BY <1>3 DEF Linked, Ring
  <2>2. At(u, Edge)
    BY DEF Linked, Row
  <2> QED BY <1>1, <1>2, <1>3, <2>1, <2>2
<1>4. CASE i # 0
  <2>1. PICK q \in 0..Top : At(u, q) /\ q # Edge /\ q < i /\ u[q].next = i
    BY <1>1, <1>4, RowPrev DEF Linked
  <2>2. p = q
    BY <1>2, <2>1
  <2>3. p # i
    BY <2>1, <2>2
  <2> QED BY <1>2, <2>1, <2>2, <2>3
<1> QED BY <1>3, <1>4

(* rt_memheap_free in its stages. *)
Freed(x, i) == [x EXCEPT !.item[i].state = "free", !.available = @ + MemHeap!ItemBytes(x, i)]
JoinedLeft(a, p) ==
    IF MemHeap!Is(a, p, "free") THEN [MemHeap!Join(a, p) EXCEPT !.available = @ + ItemSize] ELSE a
JoinedRight(b, n, k) ==
    IF MemHeap!Is(b, n, "free")
    THEN [MemHeap!Join(MemHeap!TakeOut(b, n), k) EXCEPT !.available = @ + ItemSize]
    ELSE b

LEMMA FreeItemIs ==
    ASSUME NEW x, NEW i
    PROVE  MemHeap!FreeItem(x, i)
           = LET a == Freed(x, i)
                 p == a.item[i].prev
                 left == MemHeap!Is(a, p, "free")
                 b == JoinedLeft(a, p)
                 k == IF left THEN p ELSE i
                 n == b.item[k].next
                 c == JoinedRight(b, n, k)
             IN  IF left THEN c ELSE Pushed(c, k)
  BY DEF MemHeap!FreeItem, Freed, JoinedLeft, JoinedRight, Pushed

LEMMA MemFreeOk ==
    ASSUME NEW x, MemSound(x), NEW i \in 0..Top, i # Edge, x.item[i].state = "used",
           NEW y, y = MemHeap!FreeItem(x, i)
    PROVE  Returned(y, x, i)
<1>1. PICK u : u = x.item
  OBVIOUS
<1>2. PICK n0 : n0 = u[i].next
  OBVIOUS
<1>3. PICK g : g = n0 - i - ItemSize
  OBVIOUS
<1>4. PICK W : W = {}
  OBVIOUS
<1>5. PICK U : U = {i}
  OBVIOUS
<1>6. PICK v : v = Marked(u, i, "free")
  OBVIOUS
<1>7. PICK b : b = x.available
  OBVIOUS
<1>8. PICK c : c = b + g
  OBVIOUS
<1>9. PICK a : a = [x EXCEPT !.item = v, !.available = c]
  OBVIOUS
<1>10. /\ Whole(x, W) /\ x \in MemState /\ Linked(u) /\ u \in [0..Top -> Items(Top)] /\ AllApart(u, Top)
       /\ At(u, i) /\ u[i].state = "used" /\ b = RoomIn(u) /\ PoolSize - b <= x.max
  BY <1>1, <1>4, <1>7 DEF MemSound, Whole, Linked, Row, At
<1>11. Top \in Nat /\ ItemSize \in Nat \ {0} /\ n0 \in 0..Top /\ b \in Int /\ PoolSize \in Nat /\ x.max \in Int
  BY <1>2, <1>10, PoolFacts, RoomInIs DEF Items, MemState
<1>12. g \in Nat /\ c \in Int
  <2>1. Ends(u, Top, Edge, ItemSize, i, n0)
    BY <1>2, <1>10, LinkedNext
  <2>2. i + ItemSize <= n0
    BY <2>1 DEF Ends
  <2> QED BY <2>2, <1>3, <1>8, <1>11
<1>13. a = [x EXCEPT !.item[i].state = "free", !.available = @ + MemHeap!ItemBytes(x, i)]
  <2>1. g = MemHeap!ItemBytes(x, i)
    BY <1>1, <1>2, <1>3 DEF MemHeap!ItemBytes
  <2> QED BY <2>1, <1>1, <1>6, <1>7, <1>8, <1>9 DEF Marked
<1>14. PICK st \in {"free", "used"} : st = "free"
  OBVIOUS
<1>15. v \in [0..Top -> Items(Top)] /\ v = Marked(u, i, st)
  <2>1. v = Marked(u, i, st) /\ Top \in Nat /\ u \in [0..Top -> Items(Top)]
    BY <1>6, <1>10, <1>11, <1>14
  <2>2. v \in [0..Top -> Items(Top)]
    BY <2>1, MarkedFacts
  <2> QED BY <2>1, <2>2
<1>16. a \in MemState /\ a.item = v /\ a.free = x.free /\ a.available = c /\ a.max = x.max
  BY <1>9, <1>10, <1>12, <1>15 DEF MemState
<1>17. Turns(a, x, U, i, st, g)
  <2>1. At(x.item, i) /\ n0 = x.item[i].next /\ st # x.item[i].state
    BY <1>1, <1>2, <1>10, <1>14
  <2>2. (st = "free" => U = W \cup {i}) /\ (st = "used" => i \in W /\ U = W \ {i})
    BY <1>4, <1>5, <1>14
  <2>3. (st = "free" => g = n0 - i - ItemSize) /\ (st = "used" => g = 0 - (n0 - i - ItemSize))
    BY <1>3, <1>14
  <2>4. a \in MemState /\ a.item = Marked(x.item, i, st) /\ a.free = x.free
    BY <1>1, <1>15, <1>16
  <2>5. Whole(x, W)
    BY <1>10
  <2> QED BY <2>1, <2>2, <2>3, <2>4, <2>5, TurnOk
<1>18. Whole(a, U) /\ Linked(v) /\ IsMark(v, u, Top, i, st) /\ UsedSame(v, u, i) /\ RoomMoves(v, u, g)
  BY <1>1, <1>16, <1>17 DEF Turns, Whole
<1>19. v[i].state = "free" /\ v[i].next = n0 /\ v[i].prev = u[i].prev /\ \A k \in 0..Top : k # i => v[k] = u[k]
  BY <1>2, <1>14, <1>18 DEF IsMark
<1>20. c = RoomIn(v)
  BY <1>8, <1>10, <1>18 DEF RoomMoves
<1>21. PICK p : p = v[i].prev
  OBVIOUS
<1>22. At(v, i)
  BY <1>19 DEF At
<1>23. /\ p \in 0..Top /\ At(v, p) /\ p # i
       /\ p # Edge => v[p].next = i
       /\ \A k \in 0..Top : At(v, k) /\ k # Edge /\ v[k].next = i => k = p
  BY <1>18, <1>21, <1>22, MemPrev
<1>24. PICK B : B = IF v[p].state = "free"
                    THEN [MemHeap!Join(a, p) EXCEPT !.available = @ + ItemSize] ELSE a
  OBVIOUS
<1>25. PICK k : k = IF v[p].state = "free" THEN p ELSE i
  OBVIOUS
<1>26. PICK V : V = IF v[p].state = "free" THEN W ELSE U
  OBVIOUS
<1>27. PICK r : r = B.item
  OBVIOUS
<1>28. /\ B \in MemState /\ Whole(B, V) /\ r[k].state = "free" /\ k \in 0..Top /\ ApartSave(r, k)
       /\ UsedSame(r, u, i) /\ r[i].state # "used"
       /\ B.available = RoomIn(r) /\ B.available >= b /\ B.max = x.max
       /\ (V = W \/ (k \in V /\ V = {k}))
  <2>1. CASE v[p].state = "free"
    <3>1. p # Edge
      BY <2>1, <1>18 DEF Linked, Ring
    <3>2. v[p].next = i /\ k = p /\ V = W
      BY <2>1, <3>1, <1>23, <1>25, <1>26
    <3>3. PICK z : z = MemHeap!Join(a, p)
      OBVIOUS
    <3>4. PICK d : d = ItemSize
      OBVIOUS
    <3>5. At(a.item, p) /\ i = a.item[p].next /\ i \in U /\ n0 = a.item[i].next /\ W = U \ {i}
      BY <3>2, <1>4, <1>5, <1>16, <1>19, <1>23
    <3>6. (a.item[p].state = "free" => d = ItemSize) /\ (a.item[p].state = "used" => d = 0 - (n0 - i - ItemSize))
      BY <2>1, <3>4, <1>16
    <3>7. Whole(a, U) /\ p \in 0..Top
      BY <1>18, <1>23
    <3>8. Absorbs(z, a, W, p, i, n0, d)
      BY <3>1, <3>3, <3>5, <3>6, <3>7, JoinOk
    <3>9. PICK t : t = z.item
      OBVIOUS
    <3>10. /\ Whole(z, W) /\ z \in MemState /\ SameAccount(z, a) /\ IsMerge(t, v, Top, p, i, n0)
           /\ RoomMoves(t, v, d) /\ p < i /\ i < n0
      BY <3>8, <3>9, <1>16 DEF Absorbs, Whole
    <3>11. PICK l : l = c + ItemSize
      OBVIOUS
    <3>12. z.available = c /\ z.max = x.max /\ l \in Int
      BY <3>10, <3>11, <1>11, <1>12, <1>16 DEF SameAccount
    <3>13. B = [z EXCEPT !.available = l]
      BY <2>1, <3>3, <3>11, <3>12, <1>24
    <3>14. B \in MemState /\ B.item = t /\ B.free = z.free /\ B.available = l /\ B.max = x.max
      BY <3>9, <3>10, <3>12, <3>13 DEF MemState
    <3>15. Whole(B, V)
      BY <3>2, <3>9, <3>10, <3>14, WholeAccount
    <3>16. /\ t[i].state = "none" /\ t[p].state = v[p].state /\ t[p].next = n0
           /\ t[n0].state = v[n0].state /\ t[n0].next = v[n0].next
           /\ \A q \in 0..Top : q # p /\ q # i /\ q # n0 => t[q] = v[q]
      BY <3>10 DEF IsMerge
    <3>17. \A q \in 0..Top : q # i => t[q].state = v[q].state
      BY <3>16
    <3>18. \A q \in 0..Top : q # i /\ q # p => t[q].next = v[q].next
      BY <3>16
    <3>19. ApartSave(t, p)
      <4> SUFFICES ASSUME NEW q \in 0..Top, t[q].state = "free", q # p PROVE t[t[q].next].state = "used"
        BY DEF ApartSave
      <4>1. q # i
        BY <3>16
      <4>2. u[q].state = "free" /\ t[q].next = u[q].next
        BY <4>1, <3>17, <3>18, <1>19
      <4>3. u[u[q].next].state = "used" /\ u[q].next \in 0..Top
        BY <4>2, <1>10 DEF AllApart, Items
      <4>4. u[q].next # i
        <5>1. v[q].next = u[q].next /\ At(v, q) /\ q # Edge
          BY <4>1, <4>2, <1>18, <1>19 DEF At, Linked, Ring
        <5> QED BY <5>1, <1>23
      <4>5. t[u[q].next].state = u[u[q].next].state
        BY <4>3, <4>4, <3>17, <1>19
      <4> QED BY <4>2, <4>3, <4>5
    <3>20. UsedSame(t, v, i)
      BY <2>1, <3>10, <1>11, <1>19, <1>23, MergeUsed
    <3>21. UsedSame(t, u, i)
      BY <3>20, <1>18, UsedSameTwice
    <3>22. RoomIn(t) = l
      BY <3>4, <3>10, <3>11, <1>20 DEF RoomMoves
    <3>23. l >= b
      BY <3>11, <1>8, <1>11, <1>12
    <3>24. r = t
      BY <3>14, <1>27
    <3> QED BY <2>1, <3>2, <3>14, <3>15, <3>16, <3>19, <3>21, <3>22, <3>23, <3>24, <1>23
  <2>2. CASE v[p].state # "free"
    <3>1. B = a /\ k = i /\ V = U /\ r = v
      BY <2>2, <1>16, <1>24, <1>25, <1>26, <1>27
    <3>2. ApartSave(v, i)
      <4> SUFFICES ASSUME NEW q \in 0..Top, v[q].state = "free", q # i PROVE v[v[q].next].state = "used"
        BY DEF ApartSave
      <4>1. v[q] = u[q] /\ u[q].state = "free"
        BY <1>19
      <4>2. u[u[q].next].state = "used" /\ u[q].next \in 0..Top
        BY <4>1, <1>10 DEF AllApart, Items
      <4>3. u[q].next # i
        <5>1. v[q].next = u[q].next /\ At(v, q) /\ q # Edge
          BY <4>1, <1>18 DEF At, Linked, Ring
        <5> QED BY <5>1, <2>2, <1>23
      <4> QED BY <4>1, <4>2, <4>3, <1>19
    <3>3. c >= b
      BY <1>8, <1>11, <1>12
    <3> QED BY <3>1, <3>2, <3>3, <1>5, <1>16, <1>18, <1>19, <1>20
  <2> QED BY <2>1, <2>2
<1>29. PICK n : n = r[k].next
  OBVIOUS
<1>30. PICK z : z = IF r[n].state = "free" THEN MemHeap!Join(MemHeap!TakeOut(B, n), k) ELSE B
  OBVIOUS
<1>31. n # k
  <2>1. Linked(r) /\ At(r, k) /\ k # Edge
    BY <1>27, <1>28 DEF Whole, At, Linked, Ring
  <2>2. Ends(r, Top, Edge, ItemSize, k, n)
    BY <2>1, <1>28, <1>29, LinkedNext
  <2> QED BY <2>2, <1>28 DEF Ends
<1>32. Closed(z, B, V, k, n)
  <2>1. n \notin V
    BY <1>4, <1>28, <1>31
  <2>2. /\ Whole(B, V) /\ B.item[k].state = "free" /\ ApartSave(B.item, k) /\ n = B.item[k].next
        /\ k \in 0..Top /\ z = IF B.item[n].state = "free" THEN MemHeap!Join(MemHeap!TakeOut(B, n), k) ELSE B
    BY <1>27, <1>28, <1>29, <1>30
  <2> QED BY <2>1, <2>2, JoinForward
<1>33. PICK t : t = z.item
  OBVIOUS
<1>34. /\ Whole(z, V) /\ z \in MemState /\ AllApart(t, Top) /\ SameAccount(z, B)
       /\ UsedSame(t, r, i) /\ (t[i].state = "used" <=> r[i].state = "used") /\ t[k].state = "free"
       /\ (r[n].state = "free" => RoomMoves(t, r, ItemSize)) /\ (r[n].state # "free" => z = B)
  BY <1>27, <1>32, <1>33 DEF Closed, Whole
<1>35. PICK C : C = IF r[n].state = "free"
                    THEN [MemHeap!Join(MemHeap!TakeOut(B, n), k) EXCEPT !.available = @ + ItemSize]
                    ELSE B
  OBVIOUS
<1>36. /\ C \in MemState /\ C.item = t /\ C.free = z.free /\ C.max = x.max
       /\ C.available = RoomIn(t) /\ C.available >= b
  <2>1. z.available \in Int /\ z.max = x.max /\ z.available = B.available
    BY <1>28, <1>34 DEF MemState, SameAccount
  <2>2. CASE r[n].state = "free"
    <3>1. PICK l : l = z.available + ItemSize
      OBVIOUS
    <3>2. C = [z EXCEPT !.available = l]
      BY <2>2, <3>1, <1>30, <1>35
    <3>3. l \in Int /\ l >= b
      BY <2>1, <3>1, <1>11, <1>28
    <3>4. C \in MemState /\ C.item = t /\ C.free = z.free /\ C.max = x.max /\ C.available = l
      BY <2>1, <3>2, <3>3, <1>33, <1>34 DEF MemState
    <3>5. l = RoomIn(t)
      BY <2>1, <2>2, <3>1, <1>28, <1>34 DEF RoomMoves
    <3> QED BY <3>3, <3>4, <3>5
  <2>3. CASE r[n].state # "free"
    <3>1. C = z /\ z = B /\ t = r
      BY <2>3, <1>27, <1>33, <1>34, <1>35
    <3> QED BY <2>1, <3>1, <1>28, <1>33
  <2> QED BY <2>2, <2>3
<1>37. Whole(C, V)
  BY <1>33, <1>34, <1>36, WholeAccount
<1>38. y = IF v[p].state = "free" THEN C ELSE Pushed(C, k)
  <2>1. a = Freed(x, i)
    BY <1>13 DEF Freed
  <2>2. p = a.item[i].prev /\ (MemHeap!Is(a, p, "free") <=> v[p].state = "free")
    BY <1>16, <1>21 DEF MemHeap!Is
  <2>3. B = JoinedLeft(a, p)
    BY <2>2, <1>24 DEF JoinedLeft
  <2>4. n = B.item[k].next /\ (MemHeap!Is(B, n, "free") <=> r[n].state = "free")
    BY <1>27, <1>29 DEF MemHeap!Is
  <2>5. C = JoinedRight(B, n, k)
    BY <2>4, <1>35 DEF JoinedRight
  <2> QED BY <2>1, <2>2, <2>3, <2>4, <2>5, <1>25, FreeItemIs
<1>39. Whole(y, W) /\ y.item = t /\ SameAccount(y, C)
  <2>1. CASE v[p].state = "free"
    BY <2>1, <1>26, <1>36, <1>37, <1>38 DEF SameAccount
  <2>2. CASE v[p].state # "free"
    <3>1. y = Pushed(C, k) /\ V = U /\ k = i
      BY <2>2, <1>25, <1>26, <1>38
    <3>2. k \in V /\ W = V \ {k}
      BY <3>1, <1>4, <1>5
    <3>3. Whole(y, W) /\ y.item = C.item /\ SameAccount(y, C)
      BY <3>1, <3>2, <1>37, PushOk
    <3> QED BY <3>3, <1>36
  <2> QED BY <2>1, <2>2
<1>40. y.available = RoomIn(t) /\ PoolSize - y.available <= y.max
  <2>1. y.available = C.available /\ y.max = x.max
    BY <1>36, <1>39 DEF SameAccount
  <2>2. C.available \in Int
    BY <1>36 DEF MemState
  <2> QED BY <2>1, <2>2, <1>10, <1>11, <1>36
<1>41. UsedSame(t, u, i)
  BY <1>28, <1>34, UsedSameTwice
<1> QED BY <1>1, <1>4, <1>28, <1>34, <1>39, <1>40, <1>41 DEF Returned, MemSound

(* The block i has n bytes now.                                              *)
Fits(y, x, i, n) ==
    /\ MemSound(y) /\ UsedSame(y.item, x.item, i) /\ y.item[i].state = "used"
    /\ y.item[i].next - (i + ItemSize) >= n /\ i # Edge

(* rt_memheap_realloc in its stages. *)
RestJoined(s, f, j) ==
    IF MemHeap!Is(s, f, "free")
    THEN [MemHeap!Join(MemHeap!TakeOut(s, f), j) EXCEPT !.available = @ - MemHeap!ItemBytes(s, f)]
    ELSE s
Credited(g, j) == [g EXCEPT !.available = @ + MemHeap!ItemBytes(g, j)]

LEMMA ShrinkIs ==
    ASSUME NEW x, NEW i, NEW n
    PROVE  MemHeap!Shrink(x, i, n)
           = LET j == i + ItemSize + n
                 s == MemHeap!SplitAt(x, i, j)
             IN  Credited(RestJoined(s, s.item[j].next, j), j)
  BY DEF MemHeap!Shrink, RestJoined, Credited

LEMMA MemShrinkOk ==
    ASSUME NEW x, MemSound(x), NEW i \in 0..Top, i # Edge, x.item[i].state = "used", NEW n \in Nat,
           n + ItemSize + MiniAlloc < MemHeap!ItemBytes(x, i), NEW y, y = MemHeap!Shrink(x, i, n)
    PROVE  Fits(y, x, i, n)
<1>1. PICK u : u = x.item
  OBVIOUS
<1>2. PICK e : e = u[i].next
  OBVIOUS
<1>3. PICK W : W = {}
  OBVIOUS
<1>4. PICK b : b = x.available
  OBVIOUS
<1>5. PICK j : j = i + ItemSize + n
  OBVIOUS
<1>6. /\ Whole(x, W) /\ x \in MemState /\ Linked(u) /\ u \in [0..Top -> Items(Top)] /\ AllApart(u, Top)
      /\ At(u, i) /\ u[i].state = "used" /\ b = RoomIn(u) /\ PoolSize - b <= x.max
  BY <1>1, <1>3, <1>4 DEF MemSound, Whole, Linked, Row, At
<1>7. /\ Top \in Nat /\ ItemSize \in Nat \ {0} /\ MiniAlloc \in Nat \ {0} /\ e \in 0..Top /\ b \in Int
      /\ PoolSize \in Nat /\ x.max \in Int
  BY <1>2, <1>6, PoolFacts, RoomInIs DEF Items, MemState
<1>8. n + ItemSize + MiniAlloc < e - i - ItemSize
  BY <1>1, <1>2 DEF MemHeap!ItemBytes
<1>9. j \in 0..Top /\ i + ItemSize <= j /\ j + ItemSize <= e
  BY <1>5, <1>7, <1>8
<1>10. PICK s : s = MemHeap!SplitAt(x, i, j)
  OBVIOUS
<1>11. PICK d : d = e - j - ItemSize
  OBVIOUS
<1>12. CutOff(s, x, W, i, j, e, d)
  <2>1. (x.item[i].state = "free" => d = 0 - ItemSize) /\ (x.item[i].state = "used" => d = e - j - ItemSize)
    BY <1>11
  <2>2. Whole(x, W) /\ At(x.item, i) /\ e = x.item[i].next
    BY <1>1, <1>2, <1>6
  <2> QED BY <2>1, <2>2, <1>9, <1>10, SplitAtOk
<1>13. PICK t : t = s.item
  OBVIOUS
<1>14. /\ Whole(s, W) /\ s \in MemState /\ SameAccount(s, x) /\ IsCut(t, u, Top, i, j, e, Edge)
       /\ UsedSame(t, u, i) /\ RoomMoves(t, u, d) /\ ~At(u, j) /\ i < j /\ j < e
       /\ Linked(t) /\ t \in [0..Top -> Items(Top)]
  BY <1>1, <1>12, <1>13 DEF CutOff, Whole, Linked, Row
<1>15. /\ t[j].state = "free" /\ t[j].next = e /\ t[i].state = "used" /\ t[i].next = j
  BY <1>6, <1>14 DEF IsCut
<1>16. ApartSave(t, j)
  <2> SUFFICES ASSUME NEW k \in 0..Top, t[k].state = "free", k # j PROVE t[t[k].next].state = "used"
    BY DEF ApartSave
  <2>1. k # i
    BY <1>15
  <2> QED BY <2>1, <1>6, <1>7, <1>9, <1>14, CutApart
<1>17. PICK z : z = IF t[e].state = "free" THEN MemHeap!Join(MemHeap!TakeOut(s, e), j) ELSE s
  OBVIOUS
<1>18. Closed(z, s, W, j, e)
  <2>1. /\ Whole(s, W) /\ s.item[j].state = "free" /\ ApartSave(s.item, j) /\ e = s.item[j].next
        /\ e \notin W /\ j \in 0..Top
        /\ z = IF s.item[e].state = "free" THEN MemHeap!Join(MemHeap!TakeOut(s, e), j) ELSE s
    BY <1>3, <1>9, <1>13, <1>14, <1>15, <1>16, <1>17
  <2> QED BY <2>1, JoinForward
<1>19. PICK r : r = z.item
  OBVIOUS
<1>20. PICK q : q = t[e].next
  OBVIOUS
<1>21. /\ Whole(z, W) /\ z \in MemState /\ AllApart(r, Top) /\ SameAccount(z, s) /\ UsedSame(r, t, i)
       /\ UsedSame(r, t, j) /\ (r[i].state = "used" <=> t[i].state = "used")
       /\ (t[e].state = "free" => RoomMoves(r, t, ItemSize) /\ r[j].next = q)
       /\ (t[e].state # "free" => z = s)
       /\ r \in [0..Top -> Items(Top)]
  BY <1>13, <1>18, <1>19, <1>20 DEF Closed, Whole, Linked, Row
<1>22. r[i].state = "used" /\ r[i].next = j
  BY <1>14, <1>15, <1>21 DEF UsedSame
<1>23. PICK g : g = RestJoined(s, e, j)
  OBVIOUS
<1>24. y = Credited(g, j)
  BY <1>5, <1>10, <1>13, <1>15, <1>23, ShrinkIs
<1>25. q \in 0..Top /\ z.available = b /\ z.max = x.max
  BY <1>4, <1>7, <1>14, <1>20, <1>21 DEF SameAccount, Items
<1>26. PICK c : c = IF t[e].state = "free" THEN b - (q - e - ItemSize) ELSE b
  OBVIOUS
<1>27. c \in Int
  BY <1>7, <1>25, <1>26
<1>28. g \in MemState /\ g.item = r /\ g.free = z.free /\ g.available = c /\ g.max = x.max
  <2>1. CASE t[e].state = "free"
    <3>1. MemHeap!Is(s, e, "free") /\ MemHeap!ItemBytes(s, e) = q - e - ItemSize
      BY <2>1, <1>13, <1>20 DEF MemHeap!Is, MemHeap!ItemBytes
    <3>2. g = [z EXCEPT !.available = @ - MemHeap!ItemBytes(s, e)]
      BY <2>1, <3>1, <1>17, <1>23 DEF RestJoined
    <3>3. g = [z EXCEPT !.available = c]
      BY <2>1, <3>1, <3>2, <1>25, <1>26
    <3> QED BY <3>3, <1>19, <1>21, <1>25, <1>27 DEF MemState
  <2>2. CASE t[e].state # "free"
    <3>1. ~MemHeap!Is(s, e, "free")
      BY <2>2, <1>13 DEF MemHeap!Is
    <3>2. g = s /\ z = s /\ c = b
      BY <2>2, <3>1, <1>21, <1>23, <1>26 DEF RestJoined
    <3> QED BY <3>2, <1>19, <1>21, <1>25
  <2> QED BY <2>1, <2>2
<1>29. PICK f : f = r[j].next
  OBVIOUS
<1>30. PICK l : l = c + (f - j - ItemSize)
  OBVIOUS
<1>31. f \in 0..Top /\ l \in Int
  BY <1>7, <1>9, <1>21, <1>27, <1>29, <1>30 DEF Items
<1>32. y = [g EXCEPT !.available = l]
  BY <1>24, <1>28, <1>29, <1>30 DEF Credited, MemHeap!ItemBytes
<1>33. y \in MemState /\ y.item = r /\ y.free = z.free /\ y.available = l /\ y.max = x.max
  BY <1>28, <1>31, <1>32 DEF MemState
<1>34. Whole(y, W)
  BY <1>19, <1>21, <1>33, WholeAccount
<1>35. RoomIn(t) = b + d /\ RoomIn(t) \in Int
  BY <1>6, <1>14, RoomInIs DEF RoomMoves
<1>36. l = RoomIn(r) /\ l >= b
  <2>1. CASE t[e].state = "free"
    <3>1. RoomIn(r) = RoomIn(t) + ItemSize /\ f = q
      BY <2>1, <1>21, <1>29 DEF RoomMoves
    <3>2. c = b - (q - e - ItemSize)
      BY <2>1, <1>26
    <3> QED BY <3>1, <3>2, <1>7, <1>9, <1>11, <1>25, <1>30, <1>35
  <2>2. CASE t[e].state # "free"
    <3>1. r = t /\ c = b /\ f = e
      BY <2>2, <1>13, <1>15, <1>19, <1>21, <1>26, <1>29
    <3> QED BY <3>1, <1>7, <1>9, <1>11, <1>30, <1>35
  <2> QED BY <2>1, <2>2
<1>37. y.available = RoomIn(r) /\ PoolSize - y.available <= y.max
  BY <1>6, <1>7, <1>31, <1>33, <1>36
<1>38. UsedSame(r, u, i)
  BY <1>14, <1>21, UsedSameTwice
<1>39. r[i].next - (i + ItemSize) >= n
  BY <1>5, <1>7, <1>22
<1> QED BY <1>1, <1>3, <1>21, <1>22, <1>33, <1>34, <1>37, <1>38, <1>39 DEF Fits, MemSound

LEMMA MemGrowOk ==
    ASSUME NEW x, MemSound(x), NEW i \in 0..Top, i # Edge, x.item[i].state = "used", NEW n \in Nat,
           NEW h, h = x.item[i].next, x.item[h].state = "free",
           MemHeap!ItemBytes(x, h) + MemHeap!ItemBytes(x, i) > n + MiniAlloc,
           n > MemHeap!ItemBytes(x, i), NEW y, y = MemHeap!Grow(x, i, n)
    PROVE  Fits(y, x, i, n)
<1>1. PICK u : u = x.item
  OBVIOUS
<1>2. PICK e : e = u[h].next
  OBVIOUS
<1>3. PICK W : W = {}
  OBVIOUS
<1>4. PICK b : b = x.available
  OBVIOUS
<1>5. PICK j : j = i + ItemSize + n
  OBVIOUS
<1>6. /\ Whole(x, W) /\ x \in MemState /\ Linked(u) /\ u \in [0..Top -> Items(Top)] /\ AllApart(u, Top)
      /\ At(u, i) /\ u[i].state = "used" /\ b = RoomIn(u) /\ PoolSize - b <= x.max
  BY <1>1, <1>3, <1>4 DEF MemSound, Whole, Linked, Row, At
<1>7. /\ Top \in Nat /\ ItemSize \in Nat \ {0} /\ MiniAlloc \in Nat \ {0} /\ b \in Int
      /\ PoolSize \in Nat /\ x.max \in Int
  BY <1>6, PoolFacts, RoomInIs DEF MemState
<1>8. u[h].state = "free" /\ h = u[i].next /\ h \in 0..Top
  BY <1>1, <1>6 DEF Items
<1>9. e \in 0..Top /\ u[e].state = "used"
  BY <1>2, <1>6, <1>8 DEF AllApart, Items
<1>10. i + ItemSize <= h
  <2>1. Ends(u, Top, Edge, ItemSize, i, h)
    BY <1>6, <1>8, LinkedNext
  <2> QED BY <2>1 DEF Ends
<1>11. (e - h - ItemSize) + (h - i - ItemSize) > n + MiniAlloc /\ n > h - i - ItemSize
  BY <1>1, <1>2, <1>8 DEF MemHeap!ItemBytes
<1>12. j \in 0..Top /\ i + ItemSize <= j /\ j + ItemSize <= e
  BY <1>5, <1>7, <1>8, <1>9, <1>11
<1>13. PICK c : c = b - (n - (h - i - ItemSize))
  OBVIOUS
<1>14. c \in Int
  BY <1>7, <1>8, <1>13
<1>15. PICK a : a = [x EXCEPT !.available = c]
  OBVIOUS
<1>16. a \in MemState /\ a.item = u /\ a.free = x.free /\ a.available = c
  BY <1>1, <1>6, <1>14, <1>15 DEF MemState
<1>17. PICK v : v = MemHeap!NoteMax(a)
  OBVIOUS
<1>18. /\ v \in MemState /\ v.item = u /\ v.free = x.free /\ v.available = c
       /\ PoolSize - v.available <= v.max
  BY <1>16, <1>17, NoteMaxOk
<1>19. y = MemHeap!SplitAt(MemHeap!Join(MemHeap!TakeOut(v, h), i), i, j)
  <2>1. MemHeap!ItemBytes(x, i) = h - i - ItemSize
    BY DEF MemHeap!ItemBytes
  <2>2. a = [x EXCEPT !.available = @ - (n - MemHeap!ItemBytes(x, i))]
    BY <2>1, <1>4, <1>13, <1>15
  <2>3. h = v.item[i].next
    BY <1>8, <1>18
  <2> QED BY <2>2, <2>3, <1>5, <1>17 DEF MemHeap!Grow
<1>20. PICK U : U = {h}
  OBVIOUS
<1>21. PICK o : o = MemHeap!TakeOut(v, h)
  OBVIOUS
<1>22. Whole(o, U) /\ o.item = u /\ SameAccount(o, v)
  <2>1. Whole(v, W)
    BY <1>1, <1>6, <1>18, WholeAccount
  <2>2. Whole(v, W) /\ h \notin W /\ U = W \cup {h} /\ v.item[h].state = "free"
    BY <2>1, <1>3, <1>8, <1>18, <1>20
  <2>3. Whole(o, U) /\ o.item = v.item /\ SameAccount(o, v)
    BY <2>2, <1>8, <1>21, TakeOutOk
  <2> QED BY <2>3, <1>18
<1>23. PICK z : z = MemHeap!Join(o, i)
  OBVIOUS
<1>24. PICK d : d = 0 - (e - h - ItemSize)
  OBVIOUS
<1>25. Absorbs(z, o, W, i, h, e, d)
  <2>1. At(o.item, i) /\ h = o.item[i].next /\ h \in U /\ e = o.item[h].next /\ W = U \ {h}
    BY <1>2, <1>3, <1>6, <1>8, <1>20, <1>22
  <2>2. (o.item[i].state = "free" => d = ItemSize) /\ (o.item[i].state = "used" => d = 0 - (e - h - ItemSize))
    BY <1>6, <1>22, <1>24
  <2>3. Whole(o, U)
    BY <1>22
  <2> QED BY <2>1, <2>2, <2>3, <1>23, JoinOk
<1>26. PICK t : t = z.item
  OBVIOUS
<1>27. /\ Whole(z, W) /\ SameAccount(z, o) /\ IsMerge(t, u, Top, i, h, e) /\ RoomMoves(t, u, d)
       /\ i < h /\ h < e /\ Linked(t) /\ t \in [0..Top -> Items(Top)]
  BY <1>22, <1>25, <1>26 DEF Absorbs, Whole, Linked, Row
<1>28. UsedSame(t, u, i)
  BY <1>8, <1>9, <1>27, MergeUsed
<1>29. /\ t[h].state = "none" /\ t[i].state = u[i].state /\ t[i].next = e /\ t[i].prev = u[i].prev
       /\ t[e].state = u[e].state /\ t[e].next = u[e].next
       /\ \A k \in 0..Top : k # i /\ k # h /\ k # e => t[k] = u[k]
  BY <1>27 DEF IsMerge
<1>30. \A k \in 0..Top : k # h => t[k].state = u[k].state
  BY <1>29
<1>31. \A k \in 0..Top : k # h /\ k # i => t[k].next = u[k].next
  BY <1>29
<1>32. AllApart(t, Top)
  <2> SUFFICES ASSUME NEW k \in 0..Top, t[k].state = "free" PROVE t[t[k].next].state = "used"
    BY DEF AllApart
  <2>1. k # h /\ k # i
    BY <1>6, <1>29
  <2>2. u[k].state = "free" /\ t[k].next = u[k].next
    BY <2>1, <1>30, <1>31
  <2>3. u[u[k].next].state = "used" /\ u[k].next \in 0..Top
    BY <2>2, <1>6 DEF AllApart, Items
  <2>4. u[k].next # h
    BY <2>3, <1>8
  <2> QED BY <2>2, <2>3, <2>4, <1>30
<1>33. PICK f : f = e - j - ItemSize
  OBVIOUS
<1>34. CutOff(y, z, W, i, j, e, f)
  <2>1. At(z.item, i) /\ e = z.item[i].next /\ z.item[i].state = "used"
    BY <1>6, <1>26, <1>29 DEF At
  <2>2. (z.item[i].state = "free" => f = 0 - ItemSize) /\ (z.item[i].state = "used" => f = e - j - ItemSize)
    BY <1>33, <2>1
  <2>3. Whole(z, W) /\ y = MemHeap!SplitAt(z, i, j)
    BY <1>19, <1>21, <1>23, <1>27
  <2> QED BY <2>1, <2>2, <2>3, <1>12, SplitAtOk
<1>35. PICK r : r = y.item
  OBVIOUS
<1>36. /\ Whole(y, W) /\ SameAccount(y, z) /\ IsCut(r, t, Top, i, j, e, Edge)
       /\ UsedSame(r, t, i) /\ RoomMoves(r, t, f) /\ ~At(t, j) /\ i < j /\ j < e
  BY <1>26, <1>34, <1>35 DEF CutOff
<1>37. r[i].state = "used" /\ r[i].next = j
  BY <1>6, <1>29, <1>36 DEF IsCut
<1>38. AllApart(r, Top)
  <2> SUFFICES ASSUME NEW k \in 0..Top, r[k].state = "free" PROVE r[r[k].next].state = "used"
    BY DEF AllApart
  <2>1. k # i
    BY <1>37
  <2>2. t[e].state = "used"
    BY <1>9, <1>29
  <2>3. /\ Linked(t) /\ AllApart(t, Top) /\ IsCut(r, t, Top, i, j, e, Edge) /\ ~At(t, j)
        /\ i < j /\ j < e /\ j \in 0..Top /\ e \in 0..Top /\ k # i
        /\ r[k].state = "free" /\ (k = j => t[e].state = "used")
    BY <2>1, <2>2, <1>9, <1>12, <1>27, <1>32, <1>36
  <2> QED BY ONLY <2>3, i \in 0..Top, k \in 0..Top, CutApart
<1>39. y.available = c /\ y.max = v.max
  BY <1>18, <1>22, <1>27, <1>36 DEF SameAccount
<1>40. c = RoomIn(r)
  <2>1. RoomIn(t) = b + d /\ RoomIn(r) = RoomIn(t) + f
    BY <1>6, <1>27, <1>36 DEF RoomMoves
  <2> QED BY <2>1, <1>5, <1>7, <1>8, <1>9, <1>13, <1>24, <1>33
<1>41. UsedSame(r, u, i)
  BY <1>28, <1>36, UsedSameTwice
<1>42. r[i].next - (i + ItemSize) >= n
  BY <1>5, <1>7, <1>37
<1>43. PoolSize - y.available <= y.max
  BY <1>18, <1>39
<1> QED BY <1>1, <1>3, <1>35, <1>36, <1>37, <1>38, <1>39, <1>40, <1>41, <1>42, <1>43 DEF Fits, MemSound

-----------------------------------------------------------------------------
(* The blocks of a memheap and their owners.                                 *)
OwnersFit(t, lv) ==
    /\ lv \in [0..Top -> Nat]
    /\ \A k \in 0..Top : lv[k] > 0 <=> (k # Edge /\ t[k].state = "used")
    /\ \A k \in 0..Top : lv[k] > 0 => lv[k] <= t[k].next - (k + ItemSize)

MemInv(x, lv, cp) ==
    /\ MemSound(x) /\ OwnersFit(x.item, lv)
    /\ cp \subseteq 0..Top /\ \A k \in cp : lv[k] > 0

LEMMA OwnersKept ==
    ASSUME NEW u, NEW t, NEW lv, OwnersFit(u, lv), NEW i \in 0..Top, i # Edge, UsedSame(t, u, i),
           NEW n \in Nat, n > 0 <=> t[i].state = "used", n > 0 => n <= t[i].next - (i + ItemSize),
           NEW lw, lw = [lv EXCEPT ![i] = n]
    PROVE  OwnersFit(t, lw)
<1>1. lv \in [0..Top -> Nat]
  BY DEF OwnersFit
<1>2. lw \in [0..Top -> Nat] /\ lw[i] = n /\ \A k \in 0..Top : k # i => lw[k] = lv[k]
  BY <1>1
<1>3. ASSUME NEW k \in 0..Top PROVE lw[k] > 0 <=> (k # Edge /\ t[k].state = "used")
  BY <1>2 DEF OwnersFit, UsedSame
<1>4. ASSUME NEW k \in 0..Top, lw[k] > 0 PROVE lw[k] <= t[k].next - (k + ItemSize)
  <2>1. CASE k = i
    BY <2>1, <1>2, <1>4
  <2>2. CASE k # i
    <3>1. lv[k] > 0 /\ u[k].state = "used" /\ lv[k] <= u[k].next - (k + ItemSize)
      BY <2>2, <1>2, <1>4 DEF OwnersFit
    <3>2. t[k].next = u[k].next
      BY <2>2, <3>1 DEF UsedSame
    <3> QED BY <2>2, <3>1, <3>2, <1>2
  <2> QED BY <2>1, <2>2
<1> QED BY <1>2, <1>3, <1>4 DEF OwnersFit

LEMMA MemShape ==
    ASSUME config = "memheap"
    PROVE  Shape[config] = [size |-> PoolSize, record |-> ItemSize]
<1>1. Shape["memheap"] = [size |-> PoolSize, record |-> ItemSize]
  BY DEF Shape
<1> QED BY <1>1

LEMMA MemRegionUnused ==
    ASSUME config = "memheap", NEW t, Linked(t), NEW lw, OwnersFit(t, lw), NEW X,
           live \in [0..Top -> Nat], \A k \in 0..Top : k \notin X => live[k] = lw[k],
           NEW i \in 0..Top, At(t, i), i # Edge, live[i] > 0 => i \in X,
           NEW n \in Nat, n <= t[i].next - (i + ItemSize)
    PROVE  Abs!Unused(i, n, X)
<1>1. /\ Shape[config].size = PoolSize /\ Shape[config].record = ItemSize /\ ItemSize \in Nat \ {0}
      /\ Top \in Nat /\ PoolSize = Top + 1 /\ Edge \in 0..Top
  BY MemShape, PoolFacts
<1>2. PICK e : e = t[i].next
  OBVIOUS
<1>3. Ends(t, Top, Edge, ItemSize, i, e)
  BY <1>2, LinkedNext
<1>4. e \in 0..Top /\ n <= e - (i + ItemSize)
  BY <1>2, <1>3 DEF Ends
<1>5. \A a, m : Abs!Extent(a, m) = a..(a + ItemSize + m - 1)
  BY <1>1 DEF Abs!Extent
<1>6. Abs!Extent(i, n) \subseteq 0..(Shape[config].size - 1)
  BY <1>1, <1>4, <1>5
<1>7. DOMAIN live = 0..Top
  OBVIOUS
<1>8. ASSUME NEW b \in 0..Top, b \notin X, live[b] > 0
      PROVE  Abs!Extent(i, n) \cap Abs!Extent(b, live[b]) = {}
  <2>1. PICK m : m = live[b]
    OBVIOUS
  <2>2. m \in Nat /\ b # Edge /\ t[b].state = "used" /\ m <= t[b].next - (b + ItemSize) /\ b # i
    BY <1>8, <2>1 DEF OwnersFit
  <2>3. /\ At(t, b) /\ Row(t, Top, Edge, ItemSize) /\ b # Edge /\ b # i
        /\ Holds(t, i, ItemSize, n) /\ Holds(t, b, ItemSize, m) /\ m \in Nat
    BY <2>2 DEF At, Linked, Holds
  <2>4. Bytes(i, ItemSize, n) \cap Bytes(b, ItemSize, m) = {}
    BY <2>3, <1>1, RegionsApart
  <2>5. Abs!Extent(i, n) = Bytes(i, ItemSize, n) /\ Abs!Extent(b, m) = Bytes(b, ItemSize, m)
    BY <1>5 DEF Bytes
  <2> QED BY <2>1, <2>4, <2>5
<1> QED BY <1>6, <1>7, <1>8 DEF Abs!Unused

LEMMA RoundedFacts ==
    ASSUME NEW n \in Request, NEW r, r = MemHeap!Rounded(n)
    PROVE  r \in Nat /\ r > 0
<1>1. Align \in Nat \ {0} /\ MiniAlloc \in Nat \ {0} /\ n \in Nat
  BY SmallMemAssumption, MemHeapAssumption
<1>2. PICK a : a = (n + Align - 1) - ((n + Align - 1) % Align)
  OBVIOUS
<1>3. a \in Int
  BY <1>1, <1>2
<1>4. r = IF a < MiniAlloc THEN MiniAlloc ELSE a
  BY <1>2 DEF MemHeap!Rounded
<1> QED BY <1>1, <1>3, <1>4

LEMMA MemFirstFit ==
    ASSUME NEW x, MemSound(x), NEW n \in Nat, MemHeap!CanAlloc(x, n), NEW i, i = MemHeap!FirstFit(x, n)
    PROVE  i \in 0..Top /\ x.item[i].state = "free" /\ MemHeap!ItemBytes(x, i) >= n
<1> DEFINE D == {k \in 1..Len(x.free) : MemHeap!ItemBytes(x, x.free[k]) >= n}
<1>1. x.free \in Seq(0..Top)
  BY DEF MemSound, Whole, MemState
<1>2. PICK fr \in Seq(0..Top) : fr = x.free
  BY <1>1
<1>3. D \subseteq Nat /\ D # {}
  BY <1>2 DEF MemHeap!CanAlloc
<1>4. PICK l \in D : \A q \in D : l <= q
  <2> HIDE DEF D
  <2> QED BY <1>3, Least
<1>5. MemHeap!SelectInSeq(x.free, LAMBDA k : MemHeap!ItemBytes(x, k) >= n) = l
  BY <1>3, <1>4 DEF MemHeap!SelectInSeq, MemHeap!Min
<1>6. i = fr[l] /\ l \in 1..Len(fr) /\ MemHeap!ItemBytes(x, fr[l]) >= n
  BY <1>2, <1>4, <1>5 DEF MemHeap!FirstFit
<1>7. i \in 0..Top /\ i \in Elems(fr)
  <2> HIDE DEF D
  <2>1. PICK S : S = 0..Top
    OBVIOUS
  <2>2. fr \in Seq(S)
    BY <2>1
  <2>3. DOMAIN fr = 1..Len(fr) /\ \A q \in DOMAIN fr : fr[q] \in S
    BY <2>2
  <2> QED BY <2>1, <2>3, <1>6 DEF Elems
<1>8. Listed(x.item, fr, {})
  BY <1>2 DEF MemSound, Whole
<1>9. x.item[i].state = "free"
  BY <1>7, <1>8 DEF Listed
<1> QED BY <1>6, <1>7, <1>9

-----------------------------------------------------------------------------
(* The calls of memheap are steps of an allocator.                           *)

(* rt_memheap_alloc, for a size that is rounded already. *)
LEMMA MemAllocStep ==
    ASSUME config = "memheap", NEW x, x = heap, MemInv(x, live, aside), NEW n \in Nat, n > 0,
           MemHeap!CanAlloc(x, n), NEW i, i = MemHeap!FirstFit(x, n),
           NEW y, y = MemHeap!Occupy(x, i, n), live' = [live EXCEPT ![i] = n]
    PROVE  /\ MemSound(y) /\ OwnersFit(y.item, live') /\ Abs!Allocate
           /\ \A k \in 0..Top : live[k] > 0 => live'[k] > 0
<1>1. MemSound(x) /\ OwnersFit(x.item, live) /\ live \in [0..Top -> Nat]
  BY DEF MemInv, OwnersFit
<1>2. i \in 0..Top /\ x.item[i].state = "free" /\ MemHeap!ItemBytes(x, i) >= n
  BY <1>1, MemFirstFit
<1>3. Taken(y, x, i, n)
  BY <1>1, <1>2, MemOccupyOk
<1>4. /\ MemSound(y) /\ UsedSame(y.item, x.item, i) /\ y.item[i].state = "used"
      /\ y.item[i].next - (i + ItemSize) >= n /\ i # Edge
      /\ n <= x.item[i].next - (i + ItemSize)
  BY <1>3 DEF Taken
<1>5. PICK lv : lv = live
  OBVIOUS
<1>6. PICK lw : lw = live'
  OBVIOUS
<1>7. lw = [lv EXCEPT ![i] = n] /\ OwnersFit(x.item, lv)
  BY <1>1, <1>5, <1>6
<1>8. n <= y.item[i].next - (i + ItemSize)
  <2>1. PICK f : f = y.item[i].next
    OBVIOUS
  <2>2. Whole(y, {})
    BY <1>4 DEF MemSound
  <2>3. f \in 0..Top
    BY <2>1, <2>2, <1>2 DEF Whole, MemState, Items
  <2> QED BY <2>1, <2>3, <1>2, <1>4, PoolFacts
<1>9. OwnersFit(y.item, lw)
  <2>1. n > 0 <=> y.item[i].state = "used"
    BY <1>4
  <2> QED BY <2>1, <1>2, <1>4, <1>7, <1>8, OwnersKept
<1>10. live[i] = 0
  BY <1>1, <1>2 DEF OwnersFit
<1>11. live'[i] = n /\ \A k \in 0..Top : k # i => live'[k] = live[k]
  BY <1>1, <1>2
<1>12. \A k \in 0..Top : live[k] > 0 => live'[k] > 0
  BY <1>11
<1>13. Abs!Unused(i, n, {})
  <2>1. ~(live[i] > 0)
    BY <1>10
  <2>2. PICK X : X = {}
    OBVIOUS
  <2>3. Linked(x.item) /\ At(x.item, i) /\ (live[i] > 0 => i \in X)
    BY <2>1, <1>1, <1>2 DEF MemSound, Whole, At
  <2>4. Abs!Unused(i, n, X)
    BY <2>3, <1>1, <1>2, <1>4, MemRegionUnused
  <2> QED BY <2>2, <2>4
<1>14. Abs!Allocate
  <2>1. i \in DOMAIN live /\ live[i] = 0 /\ live'[i] > 0 /\ live' = [live EXCEPT ![i] = live'[i]]
    BY <1>1, <1>2, <1>10, <1>11
  <2>2. Abs!Unused(i, live'[i], {})
    BY <1>11, <1>13
  <2> QED BY <2>1, <2>2 DEF Abs!Allocate
<1> QED BY <1>4, <1>6, <1>9, <1>12, <1>14

LEMMA MemMallocStep ==
    ASSUME config = "memheap", MemInv(heap, live, aside), NEW n \in Request, MemHeap!Malloc(n)
    PROVE  MemInv(heap, live, aside)' /\ Abs!Allocate
<1>1. PICK x : x = heap
  OBVIOUS
<1>2. PICK r : r = MemHeap!Rounded(n)
  OBVIOUS
<1>3. r \in Nat /\ r > 0
  BY <1>2, RoundedFacts
<1>4. PICK i : i = MemHeap!FirstFit(x, r)
  OBVIOUS
<1>5. PICK y : y = MemHeap!Occupy(x, i, r)
  OBVIOUS
<1>6. MemHeap!CanAlloc(x, r) /\ heap' = y /\ live' = [live EXCEPT ![i] = r] /\ aside' = aside
  BY <1>1, <1>2, <1>4, <1>5 DEF MemHeap!Malloc
<1>7. MemInv(x, live, aside)
  BY <1>1
<1>8. /\ MemSound(y) /\ OwnersFit(y.item, live') /\ Abs!Allocate
      /\ \A k \in 0..Top : live[k] > 0 => live'[k] > 0
  BY <1>1, <1>3, <1>4, <1>5, <1>6, <1>7, MemAllocStep
<1>9. MemInv(heap', live', aside')
  BY <1>6, <1>7, <1>8 DEF MemInv
<1> QED BY <1>8, <1>9

LEMMA MemMoveStep ==
    ASSUME config = "memheap", MemInv(heap, live, aside), NEW i \in 0..Top, NEW n \in Nat, n > 0,
           MemHeap!ReallocMove(i, n)
    PROVE  MemInv(heap, live, aside)' /\ Abs!Allocate
<1>1. PICK x : x = heap
  OBVIOUS
<1>2. PICK j : j = MemHeap!FirstFit(x, n)
  OBVIOUS
<1>3. PICK y : y = MemHeap!Occupy(x, j, n)
  OBVIOUS
<1>4. /\ MemHeap!CanAlloc(x, n) /\ heap' = y /\ live' = [live EXCEPT ![j] = n]
      /\ aside' = aside \cup {i} /\ i # Edge /\ x.item[i].state = "used"
  BY <1>1, <1>2, <1>3 DEF MemHeap!ReallocMove, MemHeap!Owned, MemHeap!Is, Edge
<1>5. MemInv(x, live, aside)
  BY <1>1
<1>6. /\ MemSound(y) /\ OwnersFit(y.item, live') /\ Abs!Allocate
      /\ \A k \in 0..Top : live[k] > 0 => live'[k] > 0
  BY <1>1, <1>2, <1>3, <1>4, <1>5, MemAllocStep
<1>7. live[i] > 0
  BY <1>4, <1>5 DEF MemInv, OwnersFit
<1>8. MemInv(heap', live', aside')
  BY <1>4, <1>5, <1>6, <1>7 DEF MemInv
<1> QED BY <1>6, <1>8

(* A block is given back; its place in aside, if it has one, goes with it. *)
LEMMA MemReleaseStep ==
    ASSUME MemInv(heap, live, aside), NEW i \in 0..Top, i # Edge, heap.item[i].state = "used",
           heap' = MemHeap!FreeItem(heap, i), live' = [live EXCEPT ![i] = 0],
           aside' \subseteq aside, i \notin aside'
    PROVE  MemInv(heap, live, aside)' /\ Abs!Release
<1>1. PICK x : x = heap
  OBVIOUS
<1>2. PICK y : y = heap'
  OBVIOUS
<1>3. PICK lv : lv = live
  OBVIOUS
<1>4. PICK lw : lw = live'
  OBVIOUS
<1>5. PICK n \in Nat : n = 0
  OBVIOUS
<1>6. /\ MemSound(x) /\ OwnersFit(x.item, lv) /\ lv \in [0..Top -> Nat]
      /\ y = MemHeap!FreeItem(x, i) /\ lw = [lv EXCEPT ![i] = n] /\ x.item[i].state = "used"
  BY <1>1, <1>2, <1>3, <1>4, <1>5 DEF MemInv, OwnersFit
<1>7. Returned(y, x, i)
  BY <1>6, MemFreeOk
<1>8. MemSound(y) /\ UsedSame(y.item, x.item, i) /\ y.item[i].state # "used"
  BY <1>7 DEF Returned
<1>9. OwnersFit(y.item, lw)
  <2>1. (n > 0 <=> y.item[i].state = "used") /\ (n > 0 => n <= y.item[i].next - (i + ItemSize))
    BY <1>5, <1>8
  <2> QED BY <2>1, <1>6, <1>8, OwnersKept
<1>10. aside' \subseteq 0..Top /\ \A k \in aside' : k # i /\ lv[k] > 0
  BY <1>3 DEF MemInv
<1>11. \A k \in aside' : lw[k] > 0
  BY <1>6, <1>10
<1>12. MemInv(heap', live', aside')
  BY <1>2, <1>4, <1>8, <1>9, <1>10, <1>11 DEF MemInv
<1>13. Abs!Release
  BY <1>3, <1>6 DEF Abs!Release
<1> QED BY <1>12, <1>13

LEMMA MemResized ==
    ASSUME config = "memheap", NEW x, MemSound(x), OwnersFit(x.item, live), NEW y, NEW i \in 0..Top,
           x.item[i].state = "used", NEW n \in Nat, n > 0, Fits(y, x, i, n),
           live' = [live EXCEPT ![i] = n]
    PROVE  /\ OwnersFit(y.item, live') /\ Abs!Resize
           /\ \A k \in 0..Top : live[k] > 0 => live'[k] > 0
<1>1. PICK t : t = y.item
  OBVIOUS
<1>2. PICK u : u = x.item
  OBVIOUS
<1>3. PICK lv : lv = live
  OBVIOUS
<1>4. PICK lw : lw = live'
  OBVIOUS
<1>5. /\ MemSound(y) /\ UsedSame(t, u, i) /\ t[i].state = "used" /\ i # Edge
      /\ t[i].next - (i + ItemSize) >= n
  BY <1>1, <1>2 DEF Fits
<1>6. /\ lv \in [0..Top -> Nat] /\ OwnersFit(u, lv) /\ lw = [lv EXCEPT ![i] = n] /\ u[i].state = "used"
  BY <1>2, <1>3, <1>4 DEF OwnersFit
<1>7. Linked(t) /\ At(t, i) /\ t \in [0..Top -> Items(Top)]
  BY <1>1, <1>5 DEF MemSound, Whole, At, Linked, Row
<1>8. n <= t[i].next - (i + ItemSize)
  <2>1. t[i].next \in 0..Top
    BY <1>7 DEF Items
  <2> QED BY <2>1, <1>5, PoolFacts
<1>9. OwnersFit(t, lw)
  <2>1. n > 0 <=> t[i].state = "used"
    BY <1>5
  <2> QED BY <2>1, <1>5, <1>6, <1>8, OwnersKept
<1>10. lw[i] = n /\ lv[i] > 0 /\ \A k \in 0..Top : k # i => lw[k] = lv[k]
  <2>1. lv[i] > 0
    BY <1>5, <1>6 DEF OwnersFit
  <2> QED BY <2>1, <1>6
<1>11. \A k \in 0..Top : lv[k] > 0 => lw[k] > 0
  BY <1>10
<1>12. Abs!Unused(i, n, {i})
  <2>1. PICK X : X = {i}
    OBVIOUS
  <2>2. \A k \in 0..Top : k # i => lw[k] = lv[k]
    BY <1>10
  <2>3. live[i] > 0 => i \in X
    BY <2>1
  <2>4. Abs!Unused(i, n, X)
    <3>1. live \in [0..Top -> Nat] /\ \A k \in 0..Top : k \notin X => live[k] = lw[k]
      BY <2>1, <2>2, <1>3, <1>6
    <3> QED BY <3>1, <2>3, <1>5, <1>7, <1>8, <1>9, MemRegionUnused
  <2> QED BY <2>1, <2>4
<1>13. Abs!Resize
  <2>1. i \in DOMAIN live /\ live[i] > 0 /\ live'[i] > 0
    BY <1>3, <1>4, <1>6, <1>10
  <2>2. live' = [live EXCEPT ![i] = 0, ![i] = live'[i]]
    BY <1>3, <1>4, <1>6, <1>10
  <2>3. Abs!Unused(i, live'[i], IF i = i THEN {i} ELSE {})
    BY <1>4, <1>10, <1>12
  <2> QED BY <2>1, <2>2, <2>3 DEF Abs!Resize
<1> QED BY <1>1, <1>3, <1>4, <1>9, <1>11, <1>13

LEMMA MemReallocStep ==
    ASSUME config = "memheap", MemInv(heap, live, aside), NEW i \in 0..Top, NEW n \in Nat, n > 0,
           \/ MemHeap!ReallocGrow(i, n) \/ MemHeap!ReallocKeep(i, n) \/ MemHeap!ReallocShrink(i, n)
    PROVE  MemInv(heap, live, aside)' /\ Abs!Resize
<1>1. PICK x : x = heap
  OBVIOUS
<1>2. PICK y : y = heap'
  OBVIOUS
<1>3. PICK cp : cp = aside'
  OBVIOUS
<1>4. /\ MemInv(x, live, aside) /\ MemSound(x) /\ OwnersFit(x.item, live)
      /\ x.item \in [0..Top -> Items(Top)]
  BY <1>1 DEF MemInv, OwnersFit, MemSound, Whole, Linked, Row
<1>5. i # Edge /\ x.item[i].state = "used" /\ live' = [live EXCEPT ![i] = n] /\ cp = aside
  BY <1>1, <1>3 DEF MemHeap!ReallocGrow, MemHeap!ReallocKeep, MemHeap!ReallocShrink, MemHeap!Owned,
     MemHeap!Is, Edge
<1>6. Fits(y, x, i, n)
  <2>1. CASE MemHeap!ReallocGrow(i, n)
    <3>1. PICK h : h = x.item[i].next
      OBVIOUS
    <3>2. /\ y = MemHeap!Grow(x, i, n) /\ n > MemHeap!ItemBytes(x, i) /\ x.item[h].state = "free"
          /\ MemHeap!ItemBytes(x, h) + MemHeap!ItemBytes(x, i) > n + MiniAlloc
      BY <2>1, <3>1, <1>1, <1>2 DEF MemHeap!ReallocGrow, MemHeap!Grows, MemHeap!Is
    <3> QED BY <3>1, <3>2, <1>4, <1>5, MemGrowOk
  <2>2. CASE MemHeap!ReallocKeep(i, n)
    <3>1. y = x /\ n <= MemHeap!ItemBytes(x, i)
      BY <2>2, <1>1, <1>2 DEF MemHeap!ReallocKeep
    <3>2. UsedSame(x.item, x.item, i)
      BY DEF UsedSame
    <3>3. x.item[i].next - (i + ItemSize) >= n
      <4>1. x.item[i].next \in 0..Top
        BY <1>4 DEF Items
      <4>2. n <= x.item[i].next - i - ItemSize
        BY <3>1 DEF MemHeap!ItemBytes
      <4> QED BY <4>1, <4>2, PoolFacts
    <3> QED BY <3>1, <3>2, <3>3, <1>4, <1>5 DEF Fits
  <2>3. CASE MemHeap!ReallocShrink(i, n)
    <3>1. y = MemHeap!Shrink(x, i, n) /\ n + ItemSize + MiniAlloc < MemHeap!ItemBytes(x, i)
      BY <2>3, <1>1, <1>2 DEF MemHeap!ReallocShrink
    <3> QED BY <3>1, <1>4, <1>5, MemShrinkOk
  <2> QED BY <2>1, <2>2, <2>3
<1>7. OwnersFit(y.item, live') /\ Abs!Resize /\ \A k \in 0..Top : live[k] > 0 => live'[k] > 0
  BY <1>4, <1>5, <1>6, MemResized
<1>8. MemSound(y)
  BY <1>6 DEF Fits
<1>9. MemInv(heap', live', aside')
  BY <1>2, <1>3, <1>4, <1>5, <1>7, <1>8 DEF MemInv
<1> QED BY <1>7, <1>9

(* One call of memheap: what holds of it before holds after it, and the      *)
(* caller sees what a heap promises.                                         *)
LEMMA MemStep ==
    ASSUME config = "memheap", MemInv(heap, live, aside), MemHeap!Next
    PROVE  MemInv(heap, live, aside)' /\ (Abs!Allocate \/ Abs!Release \/ Abs!Resize)
<1>1. MemHeap!Off = 0..Top
  BY PoolFacts
<1>2. ASSUME NEW n \in Request, MemHeap!Malloc(n)
      PROVE  MemInv(heap, live, aside)' /\ Abs!Allocate
  BY <1>2, MemMallocStep
<1>3. ASSUME NEW i \in 0..Top, MemHeap!Free(i)
      PROVE  MemInv(heap, live, aside)' /\ Abs!Release
  <2>1. /\ i # Edge /\ heap.item[i].state = "used" /\ i \notin aside
        /\ heap' = MemHeap!FreeItem(heap, i) /\ live' = [live EXCEPT ![i] = 0] /\ aside' = aside
    BY <1>3 DEF MemHeap!Free, MemHeap!Owned, MemHeap!Is, Edge
  <2>2. aside' \subseteq aside /\ i \notin aside'
    BY <2>1
  <2> QED BY <2>1, <2>2, MemReleaseStep
<1>4. ASSUME NEW i \in 0..Top, MemHeap!FreeOld(i)
      PROVE  MemInv(heap, live, aside)' /\ Abs!Release
  <2>1. /\ i \in aside /\ heap' = MemHeap!FreeItem(heap, i) /\ live' = [live EXCEPT ![i] = 0]
        /\ aside' = aside \ {i}
    BY <1>4 DEF MemHeap!FreeOld
  <2>2. i # Edge /\ heap.item[i].state = "used"
    BY <2>1 DEF MemInv, OwnersFit
  <2>3. aside' \subseteq aside /\ i \notin aside'
    BY <2>1
  <2> QED BY <2>1, <2>2, <2>3, MemReleaseStep
<1>5. ASSUME NEW i \in 0..Top, NEW n \in Request \ {0}, MemHeap!Realloc(i, n)
      PROVE  MemInv(heap, live, aside)' /\ (Abs!Allocate \/ Abs!Resize)
  <2>1. PICK r : r = MemHeap!Rounded(n)
    OBVIOUS
  <2>2. r \in Nat /\ r > 0
    BY <2>1, RoundedFacts
  <2>3. CASE MemHeap!ReallocMove(i, r)
    BY <2>2, <2>3, MemMoveStep
  <2>4. CASE MemHeap!ReallocGrow(i, r) \/ MemHeap!ReallocKeep(i, r) \/ MemHeap!ReallocShrink(i, r)
    BY <2>2, <2>4, MemReallocStep
  <2> QED BY <1>5, <2>1, <2>3, <2>4 DEF MemHeap!Realloc
<1> QED BY <1>1, <1>2, <1>3, <1>4, <1>5 DEF MemHeap!Next

-----------------------------------------------------------------------------
(* The properties of memheap follow.                                         *)
LEMMA MemTiles ==
    ASSUME MemInv(heap, live, aside)
    PROVE  MemHeap!ItemsTile
<1>1. PICK t : t = heap.item
  OBVIOUS
<1>2. Linked(t) /\ AllApart(t, Top) /\ t \in [0..Top -> Items(Top)]
  BY <1>1 DEF MemInv, MemSound, Whole, Linked, Row
<1>3. /\ Top \in Nat /\ Edge \in 0..Top /\ MemHeap!Off = 0..Top /\ MemHeap!Tailer = Edge
      /\ ItemSize \in Nat \ {0}
  BY PoolFacts DEF Edge
<1>4. At(t, 0) /\ t[Edge].state = "used" /\ t[Edge].next = 0 /\ t[0].prev = Edge
  BY <1>2 DEF Linked, Row, Ring
<1>5. ASSUME NEW i \in 0..Top, At(t, i), i # Edge, NEW n, n = t[i].next
      PROVE  /\ At(t, n) /\ t[n].prev = i /\ i + ItemSize <= n
             /\ \A j \in (i + 1)..(n - 1) : t[j].state = "none"
  <2>1. Ends(t, Top, Edge, ItemSize, i, n) /\ t[n].prev = i
    BY <1>2, <1>5, LinkedNext
  <2>2. n \in 0..Top /\ i + ItemSize <= n /\ At(t, n) /\ \A k \in 0..Top : At(t, k) /\ i < k => n <= k
    BY <2>1 DEF Ends
  <2>3. ASSUME NEW j \in (i + 1)..(n - 1) PROVE t[j].state = "none"
    <3>1. j \in 0..Top /\ i < j /\ ~(n <= j)
      BY <2>2, <1>3
    <3>2. ~At(t, j)
      BY <3>1, <2>2
    <3> QED BY <3>2 DEF At
  <2> QED BY <2>1, <2>2, <2>3
<1>6. ASSUME NEW i \in 0..Top, At(t, i), NEW n, n = t[i].next
      PROVE  /\ At(t, n) /\ t[n].prev = i
             /\ t[i].state = "free" => t[n].state = "used"
  <2>1. CASE i = Edge
    BY <2>1, <1>4, <1>6
  <2>2. CASE i # Edge
    <3>1. At(t, n) /\ t[n].prev = i
      BY <2>2, <1>5, <1>6
    <3>2. t[i].state = "free" => t[n].state = "used"
      BY <1>2, <1>6 DEF AllApart
    <3> QED BY <3>1, <3>2
  <2> QED BY <2>1, <2>2
<1>7. ~MemHeap!Is(heap, 0, "none") /\ MemHeap!Is(heap, Edge, "used")
  BY <1>1, <1>4 DEF MemHeap!Is, At
<1>8. ASSUME NEW i \in 0..Top, ~MemHeap!Is(heap, i, "none"), NEW n, n = heap.item[i].next
      PROVE  /\ ~MemHeap!Is(heap, n, "none") /\ heap.item[n].prev = i
             /\ IF i = Edge THEN n = 0
                ELSE /\ i + ItemSize <= n
                     /\ \A j \in (i + 1)..(n - 1) : MemHeap!Is(heap, j, "none")
             /\ MemHeap!Is(heap, i, "free") => MemHeap!Is(heap, n, "used")
  <2>1. At(t, i) /\ n = t[i].next
    BY <1>1, <1>8 DEF MemHeap!Is, At
  <2>2. ~MemHeap!Is(heap, n, "none") /\ heap.item[n].prev = i
    BY <2>1, <1>1, <1>6 DEF MemHeap!Is, At
  <2>3. MemHeap!Is(heap, i, "free") => MemHeap!Is(heap, n, "used")
    BY <2>1, <1>1, <1>6 DEF MemHeap!Is
  <2>4. i # Edge => /\ i + ItemSize <= n
                    /\ \A j \in (i + 1)..(n - 1) : MemHeap!Is(heap, j, "none")
    BY <2>1, <1>1, <1>5 DEF MemHeap!Is
  <2>5. i = Edge => n = 0
    BY <2>1, <1>4
  <2> QED BY <2>2, <2>3, <2>4, <2>5
<1> QED BY <1>3, <1>7, <1>8 DEF MemHeap!ItemsTile

LEMMA MemFreeList ==
    ASSUME MemInv(heap, live, aside)
    PROVE  MemHeap!FreeListExact
<1>1. PICK t : t = heap.item
  OBVIOUS
<1>2. PICK S : S = 0..Top
  OBVIOUS
<1>3. PICK fr \in Seq(S) : fr = heap.free
  BY <1>2 DEF MemInv, MemSound, Whole, MemState
<1>4. Listed(t, fr, {})
  BY <1>1, <1>3 DEF MemInv, MemSound, Whole
<1>5. 0 \in S
  BY <1>2, PoolFacts
<1>6. MemHeap!Elems(fr) = Elems(fr) /\ (MemHeap!IsOnce(fr) <=> IsOnce(fr))
  BY <1>5, MemLists
<1>7. IsOnce(fr) /\ \A k \in 0..Top : k \in Elems(fr) <=> t[k].state = "free"
  BY <1>4 DEF Listed
<1>8. Elems(fr) \subseteq 0..Top
  <2>1. \A q \in DOMAIN fr : fr[q] \in S
    OBVIOUS
  <2> QED BY <2>1, <1>2 DEF Elems
<1>9. Elems(fr) = {i \in 0..Top : t[i].state = "free"}
  BY <1>7, <1>8
<1>10. MemHeap!Off = 0..Top
  BY PoolFacts
<1> QED BY <1>1, <1>3, <1>6, <1>7, <1>9, <1>10 DEF MemHeap!FreeListExact, MemHeap!Is

LEMMA MemCounts ==
    ASSUME MemInv(heap, live, aside)
    PROVE  MemHeap!AvailableExact
<1>1. PICK x : x = heap
  OBVIOUS
<1>2. PICK t : t = x.item
  OBVIOUS
<1>3. /\ t \in [0..Top -> Items(Top)] /\ Linked(t)
      /\ x.available = RoomIn(t) /\ PoolSize - x.available <= x.max
  BY <1>1, <1>2 DEF MemInv, MemSound, Whole, Linked, Row
<1>4. Top \in Nat /\ MemHeap!Off = 0..Top /\ PoolSize - 1 = Top
  BY PoolFacts DEF Top
<1> DEFINE Rec(f) == f = [i \in 0..Top |-> (IF t[i].state = "free" THEN t[i].next - i - ItemSize ELSE 0)
                                           + (IF i = 0 THEN 0 ELSE f[i - 1])]
           room == CHOOSE f : Rec(f)
<1>5. PICK w : w = Rooms(t)
  OBVIOUS
<1>6. w \in [0..Top -> Int]
  BY <1>3, <1>5, RoomInIs
<1>7. ASSUME NEW f PROVE Rec(f) <=> SumsAlong(w, f, Top)
  <2>1. \A i \in 0..Top : w[i] = IF t[i].state = "free" THEN t[i].next - i - ItemSize ELSE 0
    BY <1>5 DEF Rooms, Room
  <2> QED BY <2>1 DEF SumsAlong
<1>8. SumsAlong(w, room, Top)
  <2>1. PICK z : SumsAlong(w, z, Top)
    BY <1>4, <1>6, SumsAlongExist
  <2> HIDE DEF Rec
  <2> QED BY <2>1, <1>7
<1> HIDE DEF room, Rec
<1>9. Totals(w, room, Top)
  BY <1>4, <1>6, <1>8, SumsAreTotals
<1>10. room[Top] = RoomIn(t)
  BY <1>3, <1>5, <1>9, RoomInIs
<1>11. RoomIn(t) >= 0
  <2>1. Row(t, Top, Edge, ItemSize) /\ t[Edge].state # "free"
    BY <1>3 DEF Linked, Ring
  <2> QED BY <2>1, RoomNat
<1>12. MemHeap!AvailableExact <=> (heap.available = room[Top] /\ heap.available >= 0
                                   /\ PoolSize - heap.available <= heap.max)
  BY <1>1, <1>2, <1>4 DEF MemHeap!AvailableExact, MemHeap!Is, MemHeap!ItemBytes, room, Rec
<1> QED BY <1>1, <1>3, <1>10, <1>11, <1>12

LEMMA MemInit ==
    ASSUME MemHeap!Init
    PROVE  MemInv(heap, live, aside)
<1>1. /\ Top \in Nat /\ Edge \in 0..Top /\ Edge # 0 /\ ItemSize \in Nat \ {0} /\ ItemSize <= Edge
      /\ MemHeap!Off = 0..Top /\ MemHeap!Tailer = Edge /\ PoolSize \in Nat /\ Edge = PoolSize - ItemSize
  BY PoolFacts DEF Edge
<1>2. PICK x : x = heap
  OBVIOUS
<1>3. PICK t : t = [i \in 0..Top |->
                      IF i = 0 THEN [state |-> "free", next |-> Edge, prev |-> Edge]
                      ELSE IF i = Edge THEN [state |-> "used", next |-> 0, prev |-> 0]
                      ELSE [state |-> "none", next |-> 0, prev |-> 0]]
  OBVIOUS
<1>4. PICK a : a = PoolSize - 2 * ItemSize
  OBVIOUS
<1>5. PICK b : b = 2 * ItemSize
  OBVIOUS
<1>6. a \in Int /\ b \in Int /\ PoolSize - a <= b /\ a = Edge - ItemSize
  BY <1>1, <1>4, <1>5
<1>7. x = [item |-> t, free |-> <<0>>, available |-> a, max |-> b]
  BY <1>1, <1>2, <1>3, <1>4, <1>5 DEF MemHeap!Init, MemHeap!NoItem
<1>8. t \in [0..Top -> Items(Top)]
  <2>1. ASSUME NEW i \in 0..Top PROVE t[i] \in Items(Top)
    BY <1>1, <1>3 DEF Items
  <2>2. t = [i \in 0..Top |-> t[i]]
    BY <1>3
  <2> QED BY <2>1, <2>2
<1>9. /\ t[0].state = "free" /\ t[0].next = Edge /\ t[0].prev = Edge
      /\ t[Edge].state = "used" /\ t[Edge].next = 0 /\ t[Edge].prev = 0
      /\ \A k \in 0..Top : k # 0 /\ k # Edge => t[k].state = "none"
  BY <1>1, <1>3
<1>10. Linked(t)
  <2>1. At(t, 0) /\ At(t, Edge)
    BY <1>9 DEF At
  <2>2. \A k \in 0..Top : At(t, k) => k <= Edge
    BY <1>1, <1>9 DEF At
  <2>3. ASSUME NEW k \in 0..Top, At(t, k), k # Edge PROVE Ends(t, Top, Edge, ItemSize, k, t[k].next)
    <3>1. k = 0 /\ t[k].next = Edge
      BY <2>3, <1>9 DEF At
    <3>2. \A l \in 0..Top : At(t, l) /\ 0 < l => Edge <= l
      BY <1>1, <1>9 DEF At
    <3>3. 0 + ItemSize <= Edge /\ 0 < Edge /\ Edge <= Edge
      BY <1>1
    <3> QED BY <3>1, <3>2, <3>3, <2>1, <1>1 DEF Ends
  <2>4. Row(t, Top, Edge, ItemSize)
    BY <2>1, <2>2, <2>3, <1>1, <1>8, RowFrom
  <2>5. Ring(t)
    BY <1>9 DEF Ring, At
  <2> QED BY <2>4, <2>5 DEF Linked
<1>11. AllApart(t, Top)
  BY <1>9 DEF AllApart
<1>12. PICK fr : fr = <<0>>
  OBVIOUS
<1>13. 0 \in 0..Top
  BY <1>1
<1>14. fr \in Seq(0..Top) /\ DOMAIN fr = {1} /\ fr[1] = 0
  BY <1>12, <1>13
<1>15. x \in MemState /\ x.item = t /\ x.free = fr /\ x.available = a /\ x.max = b
  BY <1>6, <1>7, <1>8, <1>12, <1>14 DEF MemState
<1>16. Listed(t, fr, {})
  <2>1. IsOnce(fr) /\ Elems(fr) = {0}
    BY <1>14 DEF IsOnce, Elems
  <2>2. \A k \in 0..Top : k = 0 <=> t[k].state = "free"
    BY <1>1, <1>9
  <2> QED BY <2>1, <2>2 DEF Listed
<1>17. RoomIn(t) = a
  <2>1. PICK w : w = Rooms(t)
    OBVIOUS
  <2>2. \A k \in 1..Top : w[k] = 0
    <3>1. \A k \in 1..Top : k \in 0..Top /\ k # 0
      OBVIOUS
    <3> QED BY <2>1, <3>1, <1>9 DEF Rooms, Room
  <2>3. w[0] = a
    BY <2>1, <1>1, <1>6, <1>9 DEF Rooms, Room
  <2>4. PICK z : z = [k \in 0..Top |-> a]
    OBVIOUS
  <2>5. z \in [0..Top -> Int] /\ z[0] = a /\ z[Top] = a
    BY <2>4, <1>1, <1>6
  <2>6. ASSUME NEW k \in 1..Top PROVE z[k] = w[k] + z[k - 1]
    <3>1. k \in 0..Top /\ k - 1 \in 0..Top
      BY <1>1
    <3>2. z[k] = a /\ z[k - 1] = a
      BY <3>1, <2>4
    <3> QED BY <3>2, <2>2, <1>6
  <2>7. Totals(w, z, Top)
    BY <2>3, <2>5, <2>6 DEF Totals
  <2> QED BY <2>1, <2>5, <2>7, <1>8, RoomInIs
<1>18. MemSound(x)
  <2>1. Whole(x, {})
    BY <1>10, <1>15, <1>16 DEF Whole
  <2> QED BY <2>1, <1>6, <1>11, <1>15, <1>17 DEF MemSound
<1>19. OwnersFit(t, live) /\ aside = {}
  <2>1. live = [i \in 0..Top |-> 0] /\ aside = {}
    BY <1>1 DEF MemHeap!Init
  <2>2. live \in [0..Top -> Nat] /\ \A k \in 0..Top : live[k] = 0
    BY <2>1
  <2> QED BY <2>1, <2>2, <1>9 DEF OwnersFit
<1> QED BY <1>2, <1>15, <1>18, <1>19 DEF MemInv

-----------------------------------------------------------------------------
(* The theorems.                                                             *)

HeapInv ==
    \/ config = "small" /\ SmallInv(heap, live)
    \/ config = "memheap" /\ MemInv(heap, live, aside)
    \/ config = "slab" /\ SlabInv(heap, live, aside)

LEMMA HeapInit ==
    ASSUME Init
    PROVE  HeapInv
  BY SmallInit, MemInit, SlabInit DEF Init, HeapInv

LEMMA HeapStep ==
    ASSUME HeapInv, Next
    PROVE  HeapInv' /\ config' = config /\ (Abs!Allocate \/ Abs!Release \/ Abs!Resize)
<1>1. CASE CallSmallMem
  <2>1. config = "small" /\ SmallInv(heap, live) /\ SmallMem!Next /\ config' = config
    BY <1>1 DEF HeapInv, CallSmallMem
  <2>2. SmallInv(heap, live)' /\ (Abs!Allocate \/ Abs!Release \/ Abs!Resize)
    BY <2>1, SmallStep
  <2> QED BY <2>1, <2>2 DEF HeapInv
<1>2. CASE CallMemHeap
  <2>1. config = "memheap" /\ MemInv(heap, live, aside) /\ MemHeap!Next /\ config' = config
    BY <1>2 DEF HeapInv, CallMemHeap
  <2>2. MemInv(heap, live, aside)' /\ (Abs!Allocate \/ Abs!Release \/ Abs!Resize)
    BY <2>1, MemStep
  <2> QED BY <2>1, <2>2 DEF HeapInv
<1>3. CASE CallSlab
  <2>1. config = "slab" /\ SlabInv(heap, live, aside) /\ Slab!Next /\ config' = config
    BY <1>3 DEF HeapInv, CallSlab
  <2>2. SlabInv(heap, live, aside)' /\ (Abs!Allocate \/ Abs!Release \/ Abs!Resize)
    BY <2>1, SlabStep
  <2> QED BY <2>1, <2>2 DEF HeapInv
<1> QED BY <1>1, <1>2, <1>3 DEF Next

LEMMA HeapInvariance ==
    Spec => []HeapInv
<1>1. Init => HeapInv
  BY HeapInit
<1>2. HeapInv /\ [Next]_vars => HeapInv'
  <2> SUFFICES ASSUME HeapInv, [Next]_vars PROVE HeapInv'
    OBVIOUS
  <2>1. CASE Next
    BY <2>1, HeapStep
  <2>2. CASE UNCHANGED vars
    <3>1. config' = config /\ heap' = heap /\ live' = live /\ aside' = aside
      BY <2>2 DEF vars
    <3>2. \/ config' = "small" /\ SmallInv(heap', live')
          \/ config' = "memheap" /\ MemInv(heap', live', aside')
          \/ config' = "slab" /\ SlabInv(heap', live', aside')
      BY <3>1 DEF HeapInv
    <3> QED BY <3>2 DEF HeapInv
  <2> QED BY <2>1, <2>2
<1> QED BY <1>1, <1>2, PTL DEF Spec

(* The blocks tile the memory, each linked to its neighbours, with no two    *)
(* free ones side by side: plug_holes, rt_memheap_free and                   *)
(* rt_slab_page_free join whatever was cut, for every size and alignment.    *)
THEOREM BlocksAlwaysTile == Spec => []BlocksTile
<1>1. HeapInv => BlocksTile
  BY SmallTiles, MemTiles, SlabTiles DEF HeapInv, BlocksTile
<1> QED BY <1>1, HeapInvariance, PTL

(* Their searches find every free block (lfree is the lowest one of mem.c,   *)
(* the free list of memheap.c has each once, and a zone of slab.c is listed  *)
(* exactly while it has a free chunk), and what rt_memory_info reports in    *)
(* use is what the blocks in use take up.                                    *)
THEOREM NoMemoryIsLost == Spec => []NothingLost
<1>1. ASSUME config = "small", SmallInv(heap, live) PROVE NothingLost
  BY <1>1, SmallTiles, SmallCounts DEF NothingLost, SearchFindsAll, UsedExact
<1>2. ASSUME config = "memheap", MemInv(heap, live, aside) PROVE NothingLost
  BY <1>2, MemFreeList, MemCounts DEF NothingLost, SearchFindsAll, UsedExact
<1>3. ASSUME config = "slab", SlabInv(heap, live, aside) PROVE NothingLost
  BY <1>3, SlabZonesExact, SlabUsedIsExact DEF NothingLost, SearchFindsAll, UsedExact
<1>4. HeapInv => NothingLost
  BY <1>1, <1>2, <1>3 DEF HeapInv
<1> QED BY <1>4, HeapInvariance, PTL

(* Every call of them is a step of the abstract allocator: rt_malloc and     *)
(* rt_realloc hand out bytes inside the heap that no other caller owns.      *)
THEOREM HeapsAreAllocators == Spec => HeapIsAllocator
<1>1. Init => Abs!Init
  <2>1. ASSUME SmallMem!Init PROVE live = [a \in DOMAIN live |-> 0]
    BY <2>1 DEF SmallMem!Init
  <2>2. ASSUME MemHeap!Init PROVE live = [a \in DOMAIN live |-> 0]
    BY <2>2 DEF MemHeap!Init
  <2>3. ASSUME Slab!Init PROVE live = [a \in DOMAIN live |-> 0]
    BY <2>3 DEF Slab!Init
  <2> QED BY <2>1, <2>2, <2>3 DEF Init, Abs!Init
<1>2. HeapInv /\ [Next]_vars => [Abs!Next]_<<live, Shape[config]>>
  <2> SUFFICES ASSUME HeapInv, [Next]_vars PROVE [Abs!Next]_<<live, Shape[config]>>
    OBVIOUS
  <2>1. CASE Next
    <3>1. config' = config /\ (Abs!Allocate \/ Abs!Release \/ Abs!Resize)
      BY <2>1, HeapStep
    <3>2. Shape[config]' = Shape[config]
      BY <3>1 DEF Shape, SmallMem!End
    <3> QED BY <3>1, <3>2 DEF Abs!Next
  <2>2. CASE UNCHANGED vars
    <3>1. config' = config /\ live' = live
      BY <2>2 DEF vars
    <3>2. Shape[config]' = Shape[config]
      BY <3>1 DEF Shape, SmallMem!End
    <3> QED BY <3>1, <3>2
  <2> QED BY <2>1, <2>2
<1> QED BY <1>1, <1>2, HeapInvariance, PTL DEF Spec, HeapIsAllocator, Abs!Spec
=============================================================================
