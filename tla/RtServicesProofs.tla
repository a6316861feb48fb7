--------------------------- MODULE RtServicesProofs ---------------------------
(***************************************************************************)
(* The safety theorems of RtServices: for any number of list heads, nodes,  *)
(* timers, objects, devices and threads.                                    *)
(***************************************************************************)
EXTENDS RtServices, ListsProofs

-----------------------------------------------------------------------------
(* The pointers.                                                             *)
PointersSound == TypeOK /\ WellLinked

LEMMA InsertAfterLinks ==
    ASSUME PointersSound, NEW n \in Node, NEW l \in Cell, IsEmpty(n), l # n, InsertAfter(l, n)
    PROVE  PointersSound'
<1> USE DEF TypeOK, WellLinked, Cell
<1>1. /\ prev[n] = n /\ next[n] = n
      /\ next[l] \in Cell /\ next[l] # n
  BY DEF IsEmpty, PointersSound
<1>2. next' = [next EXCEPT ![n] = next[l], ![l] = n]
  BY DEF InsertAfter
<1>3. prev' = [prev EXCEPT ![next[l]] = n, ![n] = l]
  BY DEF InsertAfter
<1>4. TypeOK'
  BY <1>1, <1>2, <1>3 DEF PointersSound
<1>5. WellLinked'
  BY <1>1, <1>2, <1>3 DEF PointersSound
<1> QED BY <1>4, <1>5 DEF PointersSound

LEMMA InsertBeforeLinks ==
    ASSUME PointersSound, NEW n \in Node, NEW l \in Cell, IsEmpty(n), l # n, InsertBefore(l, n)
    PROVE  PointersSound'
<1> USE DEF TypeOK, WellLinked, Cell
<1>1. /\ prev[n] = n /\ next[n] = n
      /\ prev[l] \in Cell /\ prev[l] # n
  BY DEF IsEmpty, PointersSound
<1>2. prev' = [prev EXCEPT ![n] = prev[l], ![l] = n]
  BY DEF InsertBefore
<1>3. next' = [next EXCEPT ![prev[l]] = n, ![n] = l]
  BY DEF InsertBefore
<1>4. TypeOK'
  BY <1>1, <1>2, <1>3 DEF PointersSound
<1>5. WellLinked'
  BY <1>1, <1>2, <1>3 DEF PointersSound
<1> QED BY <1>4, <1>5 DEF PointersSound

LEMMA RemoveLinks ==
    ASSUME PointersSound, NEW n \in Node, Remove(n)
    PROVE  PointersSound'
<1> USE DEF TypeOK, WellLinked, Cell
<1>1. prev[n] \in Cell /\ next[n] \in Cell /\ next[prev[n]] = n /\ prev[next[n]] = n
  BY DEF PointersSound
<1>2. next' = [next EXCEPT ![prev[n]] = next[n], ![n] = n]
  BY <1>1 DEF Remove, PointersSound
<1>3. prev' = [prev EXCEPT ![next[n]] = prev[n], ![n] = n]
  BY DEF Remove
<1>4. TypeOK'
  BY <1>1, <1>2, <1>3 DEF PointersSound
<1>5. WellLinked'
  BY <1>1, <1>2, <1>3 DEF PointersSound
<1> QED BY <1>4, <1>5 DEF PointersSound

LEMMA LinksStay == ASSUME PointersSound, UNCHANGED vars PROVE PointersSound'
BY DEF PointersSound, TypeOK, WellLinked, vars

LEMMA NextLinks == ASSUME PointersSound, Next PROVE PointersSound'
<1>1. CASE \E n \in Node : Remove(n)
  BY <1>1, RemoveLinks
<1>2. CASE \E n \in Node, l \in Cell :
              /\ IsEmpty(n)
              /\ l \in Heads \/ ~IsEmpty(l)
              /\ InsertAfter(l, n) \/ InsertBefore(l, n)
  <2>1. PICK n \in Node, l \in Cell : /\ IsEmpty(n)
                                      /\ l \in Heads \/ ~IsEmpty(l)
                                      /\ InsertAfter(l, n) \/ InsertBefore(l, n)
    BY <1>2
  <2>2. l # n
    BY <2>1, HeadsAreNotNodes
  <2> QED BY <2>1, <2>2, InsertAfterLinks, InsertBeforeLinks
<1> QED BY <1>1, <1>2 DEF Next

(* For any number of lists and nodes, forward and backward links are always  *)
(* inverse to each other under the callers' discipline, and every cell       *)
(* points to cells (rtservice.h never stores NULL).                          *)
THEOREM ListsWellLinked == ServiceSpec => []WellLinked
<1>1. ServiceInit => PointersSound
  BY DEF ServiceInit, Init, PointersSound, TypeOK, WellLinked
<1>2. PointersSound /\ [ServiceNext]_serviceVars => PointersSound'
  BY NextLinks, LinksStay
     DEF ServiceNext, Pointers, Timers, Objects, Devices, serviceVars
<1>3. PointersSound => WellLinked
  BY DEF PointersSound
<1> QED BY <1>1, <1>2, <1>3, PTL DEF ServiceSpec

-----------------------------------------------------------------------------
(* The sequences behind the pointers.  Chain(nx, h, s): following nx from    *)
(* the head h one meets the nodes of s, and then h again.                    *)
At(s, h, i) == IF i \in 1..Len(s) THEN s[i] ELSE h
Chain(nx, h, s) == \A i \in 0..Len(s) : nx[At(s, h, i)] = At(s, h, i + 1)

(* Every node is in one of these lists, in one place, or linked to itself.   *)
Apart(L) ==
    /\ \A h \in Heads : IsOnce(L[h])
    /\ \A h, g \in Heads : h # g => Elems(L[h]) \cap Elems(L[g]) = {}
InNone(L, n) == \A h \in Heads : n \notin Elems(L[h])
Chains(nx, L) ==
    /\ L \in [Heads -> Seq(Node)] /\ Apart(L)
    /\ \A h \in Heads : Chain(nx, h, L[h])
    /\ \A n \in Node : InNone(L, n) => nx[n] = n

(* Walk on any pointers. *)
WalkIn(nx, h, size) ==
    LET at[i \in 0..(size + 1)] == IF i = 0 THEN h ELSE nx[at[i - 1]]
        len == CHOOSE n \in 0..size : at[n + 1] = h /\ \A i \in 1..n : at[i] # h
    IN  [i \in 1..len |-> at[i]]
Steps(nx, h, z, M) ==
    z \in [0..M -> Cell] /\ z[0] = h /\ \A k \in 1..M : z[k] = nx[z[k - 1]]

LEMMA StepsExist ==
    ASSUME NEW M \in Nat, NEW nx \in [Cell -> Cell], NEW h \in Cell
    PROVE  \E z : Steps(nx, h, z, M)
<1> DEFINE S == {k \in 0..M : ~\E z : Steps(nx, h, z, k)}
<1> SUFFICES ASSUME S # {}
             PROVE  FALSE
  OBVIOUS
<1>1. S \subseteq Nat
  OBVIOUS
<1>2. PICK k \in S : \A j \in S : k <= j
  BY <1>1, Least
<1>3. CASE k = 0
  <2>1. Steps(nx, h, [i \in 0..0 |-> h], 0)
    BY DEF Steps
  <2> QED BY <1>3, <2>1
<1>4. CASE k # 0
  <2>1. k - 1 \in 0..M /\ k - 1 \notin S /\ k \in Nat /\ k - 1 \in Nat
    BY <1>2, <1>4
  <2>2. PICK y : Steps(nx, h, y, k - 1)
    BY <2>1
  <2> DEFINE z == [i \in 0..k |-> IF i = k THEN nx[y[k - 1]] ELSE y[i]]
  <2>3. y \in [0..(k - 1) -> Cell] /\ y[0] = h /\ \A i \in 1..(k - 1) : y[i] = nx[y[i - 1]]
    BY <2>2 DEF Steps
  <2>4. z \in [0..k -> Cell]
    BY <2>1, <2>3
  <2>5. z[0] = h
    BY <1>4, <2>1, <2>3
  <2>6. ASSUME NEW i \in 1..k
        PROVE  z[i] = nx[z[i - 1]]
    <3>1. CASE i = k
      BY <2>1, <3>1
    <3>2. CASE i # k
      BY <2>1, <2>3, <3>2
    <3> QED BY <3>1, <3>2
  <2>7. Steps(nx, h, z, k)
    BY <2>4, <2>5, <2>6 DEF Steps
  <2> QED BY <2>7
<1> QED BY <1>3, <1>4

(* A walk of enough steps finds the list. *)
LEMMA WalkFinds ==
    ASSUME NEW nx \in [Cell -> Cell], NEW h \in Heads, NEW s \in Seq(Node),
           NEW size \in Nat, Chain(nx, h, s), Len(s) <= size
    PROVE  WalkIn(nx, h, size) = s
<1> DEFINE Rec(f) == f = [i \in 0..(size + 1) |-> IF i = 0 THEN h ELSE nx[f[i - 1]]]
           at == CHOOSE f : Rec(f)
           Q(n) == at[n + 1] = h /\ \A i \in 1..n : at[i] # h
           len == CHOOSE n \in 0..size : Q(n)
<1>1. WalkIn(nx, h, size) = [i \in 1..len |-> at[i]]
  BY DEF WalkIn
<1>2. h \in Cell /\ \A i \in 1..Len(s) : s[i] \in Node /\ s[i] # h
  <2>1. \A i \in 1..Len(s) : s[i] \in Node
    BY ElementOfSeq
  <2> QED BY <2>1, HeadsAreNotNodes DEF Cell
<1>3. ASSUME NEW z, Steps(nx, h, z, size + 1)
      PROVE  Rec(z)
  BY <1>3 DEF Steps
<1>4. \E f : Rec(f)
  <2>1. PICK z : Steps(nx, h, z, size + 1)
    BY <1>2, StepsExist
  <2> QED BY <1>3, <2>1
<1>5. Rec(at)
  BY <1>4
<1>6. ASSUME NEW z, Rec(z)
      PROVE  z[0] = h /\ \A k \in 1..(size + 1) : z[k] = nx[z[k - 1]]
  BY <1>6
<1> HIDE DEF at, Rec
<1>7. at[0] = h /\ \A k \in 1..(size + 1) : at[k] = nx[at[k - 1]]
  BY <1>5, <1>6
<1>8. \A i \in 0..(Len(s) + 1) : at[i] = At(s, h, i)
  <2> DEFINE S == {i \in 0..(Len(s) + 1) : at[i] # At(s, h, i)}
  <2> SUFFICES ASSUME S # {}
               PROVE  FALSE
    OBVIOUS
  <2>1. S \subseteq Nat
    OBVIOUS
  <2>2. PICK k \in S : \A j \in S : k <= j
    BY <2>1, Least
  <2>3. k # 0
    BY <1>7 DEF At
  <2>4. k - 1 \in 0..Len(s) /\ k \in 1..(size + 1)
    BY <2>3
  <2>5. at[k - 1] = At(s, h, k - 1)
    BY <2>2, <2>4
  <2>6. nx[At(s, h, k - 1)] = At(s, h, k)
    BY <2>4 DEF Chain
  <2> QED BY <1>7, <2>4, <2>5, <2>6
<1>9. at[Len(s) + 1] = h /\ \A i \in 1..Len(s) : at[i] = s[i] /\ at[i] # h
  BY <1>2, <1>8 DEF At
<1>10. Len(s) \in 0..size /\ Q(Len(s))
  BY <1>9
<1>11. ASSUME NEW n \in 0..size, Q(n)
       PROVE  n = Len(s)
  <2>1. ~(n < Len(s))
    <3>1. n < Len(s) => n + 1 \in 1..Len(s)
      OBVIOUS
    <3> QED BY <1>9, <1>11, <3>1
  <2>2. ~(Len(s) < n)
    <3>1. Len(s) < n => Len(s) + 1 \in 1..n
      OBVIOUS
    <3> QED BY <1>9, <1>11, <3>1
  <2> QED BY <2>1, <2>2
<1>12. len \in 0..size /\ Q(len)
  BY <1>10
<1>13. len = Len(s)
  <2> HIDE DEF Q, len
  <2> QED BY <1>11, <1>12
<1> HIDE DEF len
<1>14. [i \in 1..len |-> at[i]] = s
  BY <1>9, <1>13
<1> QED BY <1>1, <1>14

(* A list that meets no node twice has at most as many as there are. *)
LEMMA ShortEnough ==
    ASSUME NEW s \in Seq(Node), IsOnce(s)
    PROVE  Cardinality(Node) \in Nat /\ Len(s) <= Cardinality(Node)
<1>1. s \in [1..Len(s) -> Node]
  BY LenProperties
<1>2. s \in Injection(1..Len(s), Node)
  BY <1>1 DEF IsOnce, Injection, IsInjective
<1>3. IsFiniteSet(1..Len(s)) /\ Cardinality(1..Len(s)) = Len(s)
  <2> PICK a \in Int, b \in Int : a = 1 /\ b = Len(s) /\ b >= 0
    BY LenProperties
  <2>1. IsFiniteSet(a..b) /\ Cardinality(a..b) = IF a > b THEN 0 ELSE b - a + 1
    BY FS_Interval
  <2>2. (IF a > b THEN 0 ELSE b - a + 1) = b
    OBVIOUS
  <2> QED BY <2>1, <2>2
<1>4. Cardinality(Node) \in Nat
  BY NodesFinite, FS_CardinalityType
<1>5. Cardinality(1..Len(s)) <= Cardinality(Node)
  BY <1>2, NodesFinite, FS_Injection
<1> QED BY <1>3, <1>4, <1>5

(* What the lists are is found by walking through them. *)
LEMMA WalksFind ==
    ASSUME NEW nx \in [Cell -> Cell], NEW L, Chains(nx, L), NEW h \in Heads
    PROVE  WalkIn(nx, h, Cardinality(Node)) = L[h]
<1> PICK s : s = L[h]
  OBVIOUS
<1>1. s \in Seq(Node) /\ Chain(nx, h, s)
  BY DEF Chains
<1>2. IsOnce(s)
  BY <1>1 DEF Chains, Apart, IsOnce
<1> QED BY <1>1, <1>2, ShortEnough, WalkFinds

(* Pointers that stay where the list is. *)
LEMMA ChainStays ==
    ASSUME NEW nx, NEW ny, NEW h \in Heads, NEW s \in Seq(Node), Chain(nx, h, s),
           ny[h] = nx[h], \A c \in Elems(s) : ny[c] = nx[c]
    PROVE  Chain(ny, h, s)
<1>1. \A i \in 0..Len(s) : At(s, h, i) = h \/ At(s, h, i) \in Elems(s)
  BY DEF At, Elems
<1> QED BY <1>1 DEF Chain

(* Node n comes behind cell p of a list, whose next pointer and n's change.  *)
Hooked(nx, ny, p, n) ==
    /\ ny[p] = n /\ ny[n] = nx[p]
    /\ \A c \in Cell \ {p, n} : ny[c] = nx[c]

LEMMA ChainGrows ==
    ASSUME NEW nx, NEW ny, NEW h \in Heads, NEW s \in Seq(Node), Chain(nx, h, s), IsOnce(s),
           NEW i \in 0..Len(s), NEW n \in Node, n \notin Elems(s),
           Hooked(nx, ny, At(s, h, i), n)
    PROVE  Chain(ny, h, LinkAfter(s, i, n))
<1> PICK r : r = LinkAfter(s, i, n)
  OBVIOUS
<1>1. /\ r = [j \in 1..(Len(s) + 1) |-> IF j <= i THEN s[j] ELSE IF j = i + 1 THEN n ELSE s[j - 1]]
      /\ Len(s) \in Nat
  BY DEF LinkAfter
<1>2. r \in Seq(Node) /\ Len(r) = Len(s) + 1
  <2>1. r \in Seq(Node)
    BY LinkAfterFacts
  <2> QED BY <1>1, <2>1
<1>3. \A j \in 0..i : At(r, h, j) = At(s, h, j)
  BY <1>1, <1>2 DEF At
<1>4. At(r, h, i + 1) = n
  BY <1>1, <1>2 DEF At
<1>5. \A j \in (i + 2)..(Len(s) + 2) : At(r, h, j) = At(s, h, j - 1)
  BY <1>1, <1>2 DEF At
<1>6. \A j \in 1..Len(s) : s[j] \in Node /\ s[j] # h /\ s[j] # n
  <2>1. \A j \in 1..Len(s) : s[j] \in Node
    BY ElementOfSeq
  <2> QED BY <2>1, HeadsAreNotNodes DEF Elems
<1>7. h \in Cell /\ h # n
  BY HeadsAreNotNodes DEF Cell
<1>8. \A j \in 0..Len(s) : At(s, h, j) \in Cell /\ At(s, h, j) # n
  BY <1>6, <1>7 DEF At, Cell
<1>9. \A j \in 0..Len(s) : j # i => At(s, h, j) # At(s, h, i)
  BY <1>6 DEF At, IsOnce
<1>10. \A j \in 0..Len(s) : j # i => ny[At(s, h, j)] = At(s, h, j + 1)
  BY <1>8, <1>9 DEF Hooked, Chain
<1>11. ASSUME NEW j \in 0..Len(r)
       PROVE  ny[At(r, h, j)] = At(r, h, j + 1)
  <2>1. CASE j < i
    <3>1. j \in 0..i /\ j + 1 \in 0..i /\ j \in 0..Len(s) /\ j # i
      BY <2>1
    <3> QED BY <1>3, <1>10, <3>1
  <2>2. CASE j = i
    <3>1. At(r, h, j) = At(s, h, i)
      BY <1>3, <2>2
    <3> QED BY <1>4, <2>2, <3>1 DEF Hooked
  <2>3. CASE j = i + 1
    <3>1. ny[At(r, h, j)] = nx[At(s, h, i)]
      BY <1>4, <2>3 DEF Hooked
    <3>2. nx[At(s, h, i)] = At(s, h, i + 1)
      BY DEF Chain
    <3>3. i + 2 \in (i + 2)..(Len(s) + 2)
      BY <1>1
    <3>4. At(r, h, i + 2) = At(s, h, i + 1)
      BY <1>5, <3>3
    <3> QED BY <2>3, <3>1, <3>2, <3>4
  <2>4. CASE j > i + 1
    <3>1. /\ j \in (i + 2)..(Len(s) + 2) /\ j + 1 \in (i + 2)..(Len(s) + 2)
          /\ j - 1 \in 0..Len(s) /\ j - 1 # i
      BY <1>1, <1>2, <2>4
    <3>2. At(r, h, j) = At(s, h, j - 1) /\ At(r, h, j + 1) = At(s, h, j)
      BY <1>5, <3>1
    <3> QED BY <1>10, <3>1, <3>2
  <2> QED BY <2>1, <2>2, <2>3, <2>4
<1> QED BY <1>11 DEF Chain

(* Node n leaves its list; p is the cell before it. *)
Unhooked(nx, ny, p, n) ==
    /\ ny[p] = nx[n] /\ ny[n] = n
    /\ \A c \in Cell \ {p, n} : ny[c] = nx[c]

LEMMA ChainShrinks ==
    ASSUME NEW nx, NEW ny, NEW h \in Heads, NEW s \in Seq(Node), Chain(nx, h, s), IsOnce(s),
           NEW k \in 1..Len(s), Unhooked(nx, ny, At(s, h, k - 1), s[k])
    PROVE  Chain(ny, h, Unlink(s, s[k]))
<1> PICK n, r : n = s[k] /\ r = Unlink(s, n)
  OBVIOUS
<1>1. n \in Elems(s) /\ Len(s) \in Nat /\ k \in DOMAIN s /\ DOMAIN s = 1..Len(s)
  BY DEF Elems
<1>2. (CHOOSE j \in DOMAIN s : s[j] = n) = k
  BY <1>1 DEF IsOnce
<1>3. r = [j \in 1..(Len(s) - 1) |-> IF j < k THEN s[j] ELSE s[j + 1]]
  BY <1>1, <1>2 DEF Unlink
<1>4. r \in Seq(Node) /\ Len(r) = Len(s) - 1
  <2>1. r \in Seq(Node)
    BY UnlinkFacts
  <2> QED BY <1>1, <1>3, <2>1
<1>5. \A j \in 0..(k - 1) : At(r, h, j) = At(s, h, j)
  BY <1>3, <1>4 DEF At
<1>6. \A j \in k..Len(s) : At(r, h, j) = At(s, h, j + 1)
  BY <1>1, <1>3, <1>4 DEF At
<1>7. \A j \in 1..Len(s) : s[j] \in Node /\ s[j] # h
  <2>1. \A j \in 1..Len(s) : s[j] \in Node
    BY ElementOfSeq
  <2> QED BY <2>1, HeadsAreNotNodes
<1>8. \A j \in 0..Len(s) : At(s, h, j) \in Cell
  BY <1>7 DEF At, Cell
<1>9. \A j \in 0..Len(s) : \A i \in 0..Len(s) : j # i => At(s, h, j) # At(s, h, i)
  BY <1>1, <1>7 DEF At, IsOnce
<1>10. At(s, h, k) = n
  BY DEF At
<1>11. \A j \in 0..Len(s) : j # k - 1 /\ j # k => ny[At(s, h, j)] = At(s, h, j + 1)
  <2> SUFFICES ASSUME NEW j \in 0..Len(s), j # k - 1, j # k
               PROVE  ny[At(s, h, j)] = At(s, h, j + 1)
    OBVIOUS
  <2>1. k - 1 \in 0..Len(s) /\ k \in 0..Len(s)
    BY <1>1
  <2>2. At(s, h, j) \in Cell \ {At(s, h, k - 1), n}
    BY <1>8, <1>9, <1>10, <2>1
  <2>3. ny[At(s, h, j)] = nx[At(s, h, j)]
    BY <2>2 DEF Unhooked
  <2> QED BY <2>3 DEF Chain
<1>12. ASSUME NEW j \in 0..Len(r)
       PROVE  ny[At(r, h, j)] = At(r, h, j + 1)
  <2>1. CASE j < k - 1
    <3>1. j \in 0..(k - 1) /\ j + 1 \in 0..(k - 1) /\ j \in 0..Len(s) /\ j # k - 1 /\ j # k
      BY <2>1
    <3> QED BY <1>5, <1>11, <3>1
  <2>2. CASE j = k - 1
    <3>1. At(r, h, j) = At(s, h, k - 1)
      BY <1>5, <2>2
    <3>2. ny[At(s, h, k - 1)] = nx[n]
      BY DEF Unhooked
    <3>3. nx[n] = At(s, h, k + 1)
      BY <1>1, <1>10 DEF Chain
    <3>4. At(r, h, k) = At(s, h, k + 1)
      BY <1>1, <1>6
    <3> QED BY <2>2, <3>1, <3>2, <3>3, <3>4
  <2>3. CASE j > k - 1
    <3>1. /\ j \in k..Len(s) /\ j + 1 \in k..Len(s) /\ j + 1 \in 0..Len(s)
          /\ j + 1 # k /\ j + 1 # k - 1
      <4>0. j \in 0..(Len(s) - 1)
        BY <1>4
      <4>1. j \in Nat /\ k \in Nat /\ k <= j /\ j + 1 <= Len(s) /\ Len(s) \in Nat
        BY <1>1, <2>3, <4>0
      <4> HIDE DEF Unhooked
      <4> QED BY ONLY <4>1
    <3>2. At(r, h, j) = At(s, h, j + 1) /\ At(r, h, j + 1) = At(s, h, j + 2)
      BY <1>6, <3>1
    <3> QED BY <1>11, <3>1, <3>2
  <2> QED BY <2>1, <2>2, <2>3
<1> QED BY <1>12 DEF Chain

(* The same for all lists. *)
LEMMA AtCell ==
    ASSUME NEW h \in Heads, NEW s \in Seq(Node), NEW i \in Nat
    PROVE  /\ At(s, h, i) = h \/ At(s, h, i) \in Elems(s)
           /\ At(s, h, i) \in Cell /\ Elems(s) \subseteq Node
<1>1. Elems(s) \subseteq Node
  BY ElemsType
<1>2. At(s, h, i) = h \/ At(s, h, i) \in Elems(s)
  BY DEF At, Elems
<1> QED BY <1>1, <1>2 DEF Cell

LEMMA ListsGrow ==
    ASSUME NEW nx, NEW ny, NEW L, Chains(nx, L), NEW h \in Heads, NEW i \in 0..Len(L[h]),
           NEW n \in Node, InNone(L, n), Hooked(nx, ny, At(L[h], h, i), n)
    PROVE  Chains(ny, [L EXCEPT ![h] = LinkAfter(L[h], i, n)])
<1> PICK s, r, p : s = L[h] /\ r = LinkAfter(s, i, n) /\ p = At(s, h, i)
  OBVIOUS
<1> DEFINE K == [L EXCEPT ![h] = r]
<1>1. /\ L \in [Heads -> Seq(Node)] /\ s \in Seq(Node) /\ IsOnce(s) /\ Chain(nx, h, s)
      /\ n \notin Elems(s) /\ i \in 0..Len(s) /\ i \in Nat
  BY DEF Chains, Apart, InNone
<1>2. r \in Seq(Node) /\ Elems(r) = Elems(s) \cup {n} /\ IsOnce(r)
  BY <1>1, LinkAfterFacts
<1>3. Chain(ny, h, r)
  BY <1>1, ChainGrows
<1>4. p = h \/ p \in Elems(s)
  BY <1>1, AtCell
<1>5. K \in [Heads -> Seq(Node)] /\ K[h] = r /\ \A g \in Heads \ {h} : K[g] = L[g]
  BY <1>1, <1>2
<1> HIDE DEF K
<1>6. Apart(K)
  <2>1. \A g \in Heads : IsOnce(K[g])
    BY <1>2, <1>5 DEF Chains, Apart
  <2>2. \A g \in Heads \ {h} : Elems(L[g]) \cap Elems(s) = {} /\ n \notin Elems(L[g])
    BY DEF Chains, Apart, InNone
  <2>3. \A g \in Heads \ {h} : Elems(K[g]) \cap Elems(K[h]) = {}
    BY <1>2, <1>5, <2>2
  <2>4. \A f, g \in Heads \ {h} : f # g => Elems(K[f]) \cap Elems(K[g]) = {}
    BY <1>5 DEF Chains, Apart
  <2> QED BY <2>1, <2>3, <2>4 DEF Apart
<1>7. ASSUME NEW g \in Heads \ {h}
      PROVE  Chain(ny, g, L[g])
  <2>1. Elems(L[g]) \subseteq Node /\ Elems(s) \subseteq Node
    BY <1>1, AtCell
  <2>2. Elems(L[g]) \cap Elems(s) = {} /\ n \notin Elems(L[g])
    BY DEF Chains, Apart, InNone
  <2>3. g \in Cell \ {p, n}
    BY <1>4, <2>1, HeadsAreNotNodes DEF Cell
  <2>4. Elems(L[g]) \subseteq Cell \ {p, n}
    BY <1>4, <2>1, <2>2, HeadsAreNotNodes DEF Cell
  <2>5. ny[g] = nx[g] /\ \A c \in Elems(L[g]) : ny[c] = nx[c]
    BY <2>3, <2>4 DEF Hooked
  <2>6. L[g] \in Seq(Node) /\ Chain(nx, g, L[g])
    BY DEF Chains
  <2> QED BY <2>5, <2>6, ChainStays
<1>8. ASSUME NEW m \in Node, InNone(K, m)
      PROVE  ny[m] = m
  <2>1. \A g \in Heads : m \notin Elems(L[g])
    BY <1>2, <1>5, <1>8 DEF InNone
  <2>2. m # n /\ m # p
    BY <1>2, <1>4, <1>5, <1>8, HeadsAreNotNodes DEF InNone
  <2>3. nx[m] = m
    BY <2>1 DEF Chains, InNone
  <2> QED BY <2>2, <2>3 DEF Hooked, Cell
<1>9. Chains(ny, K)
  BY <1>3, <1>5, <1>6, <1>7, <1>8 DEF Chains
<1> QED BY <1>9 DEF K

LEMMA ListsShrink ==
    ASSUME NEW nx, NEW ny, NEW L, Chains(nx, L), NEW h \in Heads, NEW k \in 1..Len(L[h]),
           Unhooked(nx, ny, At(L[h], h, k - 1), L[h][k])
    PROVE  Chains(ny, [g \in Heads |-> Unlink(L[g], L[h][k])])
<1> PICK s, n, p : s = L[h] /\ n = s[k] /\ p = At(s, h, k - 1)
  OBVIOUS
<1> DEFINE K == [g \in Heads |-> Unlink(L[g], n)]
<1>1. /\ L \in [Heads -> Seq(Node)] /\ s \in Seq(Node) /\ IsOnce(s) /\ Chain(nx, h, s)
      /\ n \in Elems(s) /\ k \in 1..Len(s) /\ k - 1 \in Nat
  BY DEF Chains, Apart, Elems
<1>2. Unlink(s, n) \in Seq(Node) /\ IsOnce(Unlink(s, n)) /\ Elems(Unlink(s, n)) = Elems(s) \ {n}
  BY <1>1, UnlinkFacts
<1>3. Chain(ny, h, Unlink(s, n))
  BY <1>1, ChainShrinks
<1>4. p = h \/ p \in Elems(s)
  BY <1>1, AtCell
<1>5. \A g \in Heads \ {h} : n \notin Elems(L[g]) /\ Unlink(L[g], n) = L[g]
  <2>1. \A g \in Heads \ {h} : n \notin Elems(L[g])
    BY <1>1 DEF Chains, Apart
  <2> QED BY <2>1, UnlinkAbsent
<1>6. K \in [Heads -> Seq(Node)] /\ K[h] = Unlink(s, n) /\ \A g \in Heads \ {h} : K[g] = L[g]
  BY <1>1, <1>2, <1>5
<1> HIDE DEF K
<1>7. Apart(K)
  <2>1. \A g \in Heads : IsOnce(K[g])
    BY <1>2, <1>6 DEF Chains, Apart
  <2>2. \A g \in Heads \ {h} : Elems(L[g]) \cap Elems(s) = {}
    BY DEF Chains, Apart
  <2>3. \A g \in Heads \ {h} : Elems(K[g]) \cap Elems(K[h]) = {}
    BY <1>2, <1>6, <2>2
  <2>4. \A f, g \in Heads \ {h} : f # g => Elems(K[f]) \cap Elems(K[g]) = {}
    BY <1>6 DEF Chains, Apart
  <2> QED BY <2>1, <2>3, <2>4 DEF Apart
<1>8. ASSUME NEW g \in Heads \ {h}
      PROVE  Chain(ny, g, L[g])
  <2>1. Elems(L[g]) \subseteq Node /\ Elems(s) \subseteq Node
    BY <1>1, AtCell
  <2>2. Elems(L[g]) \cap Elems(s) = {}
    BY DEF Chains, Apart
  <2>3. g \in Cell \ {p, n}
    BY <1>1, <1>4, <2>1, HeadsAreNotNodes DEF Cell
  <2>4. Elems(L[g]) \subseteq Cell \ {p, n}
    BY <1>1, <1>4, <2>1, <2>2, HeadsAreNotNodes DEF Cell
  <2>5. ny[g] = nx[g] /\ \A c \in Elems(L[g]) : ny[c] = nx[c]
    BY <2>3, <2>4 DEF Unhooked
  <2>6. L[g] \in Seq(Node) /\ Chain(nx, g, L[g])
    BY DEF Chains
  <2> QED BY <2>5, <2>6, ChainStays
<1>9. ASSUME NEW m \in Node, InNone(K, m)
      PROVE  ny[m] = m
  <2>1. CASE m = n
    BY <2>1 DEF Unhooked
  <2>2. CASE m # n
    <3>1. \A g \in Heads : m \notin Elems(L[g])
      BY <1>2, <1>6, <1>9, <2>2 DEF InNone
    <3>2. m # p
      BY <1>4, <3>1, HeadsAreNotNodes
    <3>3. nx[m] = m
      BY <3>1 DEF Chains, InNone
    <3> QED BY <2>2, <3>2, <3>3 DEF Unhooked, Cell
  <2> QED BY <2>1, <2>2
<1>10. Chains(ny, K)
  BY <1>3, <1>6, <1>7, <1>8, <1>9 DEF Chains
<1> QED BY <1>10 DEF K

(* A cell that is a head or not linked to itself has its place in a list,    *)
(* and a node in a list is not linked to itself.                             *)
LEMMA HasPlace ==
    ASSUME NEW nx, NEW L, Chains(nx, L), NEW c \in Cell, c \in Heads \/ nx[c] # c
    PROVE  \E h \in Heads : \E i \in 0..Len(L[h]) : c = At(L[h], h, i)
<1>1. CASE c \in Heads
  <2>1. L[c] \in Seq(Node)
    BY <1>1 DEF Chains
  <2>2. 0 \in 0..Len(L[c]) /\ c = At(L[c], c, 0)
    BY <2>1, LenProperties DEF At
  <2> QED BY <1>1, <2>2
<1>2. CASE c \notin Heads
  <2>1. PICK h \in Heads : c \in Elems(L[h])
    BY <1>2 DEF Chains, InNone, Cell
  <2>2. L[h] \in Seq(Node)
    BY DEF Chains
  <2>3. PICK i \in 1..Len(L[h]) : c = L[h][i]
    BY <2>1, <2>2 DEF Elems
  <2>4. i \in 0..Len(L[h]) /\ c = At(L[h], h, i)
    BY <2>3 DEF At
  <2> QED BY <2>4
<1> QED BY <1>1, <1>2

LEMMA ListedIsLinked ==
    ASSUME NEW nx, NEW L, Chains(nx, L), NEW n \in Node, nx[n] = n
    PROVE  InNone(L, n)
<1> SUFFICES ASSUME NEW h \in Heads, n \in Elems(L[h])
             PROVE  FALSE
  BY DEF InNone
<1> PICK s : s = L[h]
  OBVIOUS
<1>1. s \in Seq(Node) /\ IsOnce(s) /\ Chain(nx, h, s) /\ n \in Elems(s)
  BY DEF Chains, Apart
<1>2. PICK i \in 1..Len(s) : n = s[i]
  BY <1>1 DEF Elems
<1>3. At(s, h, i) = n /\ i \in 0..Len(s)
  BY <1>2 DEF At
<1>4. nx[n] = At(s, h, i + 1)
  BY <1>1, <1>3 DEF Chain
<1>5. At(s, h, i + 1) # n
  BY <1>1, <1>2, HeadsAreNotNodes DEF At, IsOnce
<1> QED BY <1>4, <1>5

WalkedLists == [h \in Heads |-> Walk(h, Cardinality(Node))]
PointersInv == PointersSound /\ Chains(next, WalkedLists)

LEMMA WalksAre ==
    /\ \A L : TypeOK /\ Chains(next, L) => WalkedLists = L
    /\ \A L : TypeOK' /\ Chains(next', L) => WalkedLists' = L
<1>1. ASSUME NEW L, TypeOK, Chains(next, L)
      PROVE  WalkedLists = L
  <2>1. \A h \in Heads : WalkIn(next, h, Cardinality(Node)) = L[h]
    BY <1>1, WalksFind DEF TypeOK
  <2>2. WalkedLists = [h \in Heads |-> WalkIn(next, h, Cardinality(Node))]
    BY DEF WalkedLists, Walk, WalkIn
  <2> QED BY <1>1, <2>1, <2>2 DEF Chains
<1>2. ASSUME NEW L, TypeOK', Chains(next', L)
      PROVE  WalkedLists' = L
  <2>1. \A h \in Heads : WalkIn(next', h, Cardinality(Node)) = L[h]
    BY <1>2, WalksFind DEF TypeOK
  <2>2. WalkedLists' = [h \in Heads |-> WalkIn(next', h, Cardinality(Node))]
    BY DEF WalkedLists, Walk, WalkIn
  <2> QED BY <1>2, <2>1, <2>2 DEF Chains
<1> QED BY <1>1, <1>2

(* A step of AbsLists, from lists L to lists K. *)
LinksIn(L, K) ==
    \E h \in Heads, n \in Node : \E i \in 0..Len(L[h]) :
        InNone(L, n) /\ K = [L EXCEPT ![h] = LinkAfter(L[h], i, n)]
UnlinksIn(L, K) == \E n \in Node : K = [h \in Heads |-> Unlink(L[h], n)]

(* Both insertions put the node behind a cell of a list. *)
LEMMA HookedIn ==
    ASSUME NEW L, Chains(next, L), NEW p \in Cell, NEW n \in Node,
           p \in Heads \/ next[p] # p, next[n] = n, Hooked(next, next', p, n)
    PROVE  \E K : Chains(next', K) /\ LinksIn(L, K)
<1> PICK h \in Heads : \E i \in 0..Len(L[h]) : p = At(L[h], h, i)
  BY HasPlace
<1>1. PICK i \in 0..Len(L[h]) : p = At(L[h], h, i)
  OBVIOUS
<1>2. InNone(L, n)
  BY ListedIsLinked
<1> DEFINE K == [L EXCEPT ![h] = LinkAfter(L[h], i, n)]
<1>3. Chains(next', K)
  BY <1>1, <1>2, ListsGrow
<1>4. LinksIn(L, K)
  BY <1>2 DEF LinksIn
<1> HIDE DEF K
<1> QED BY <1>3, <1>4

LEMMA InsertAfterIn ==
    ASSUME PointersSound, NEW L, Chains(next, L), NEW n \in Node, NEW l \in Cell,
           IsEmpty(n), l \in Heads \/ ~IsEmpty(l), InsertAfter(l, n)
    PROVE  \E K : Chains(next', K) /\ LinksIn(L, K)
<1>1. next[n] = n /\ (l \in Heads \/ next[l] # l) /\ l # n /\ n \in Cell
  BY HeadsAreNotNodes DEF IsEmpty, Cell
<1>2. next' = [next EXCEPT ![n] = next[l], ![l] = n]
  BY DEF InsertAfter
<1>3. Hooked(next, next', l, n)
  BY <1>1, <1>2 DEF Hooked, PointersSound, TypeOK
<1> QED BY <1>1, <1>3, HookedIn

LEMMA InsertBeforeIn ==
    ASSUME PointersSound, NEW L, Chains(next, L), NEW n \in Node, NEW l \in Cell,
           IsEmpty(n), l \in Heads \/ ~IsEmpty(l), InsertBefore(l, n)
    PROVE  \E K : Chains(next', K) /\ LinksIn(L, K)
<1> PICK p : p = prev[l]
  OBVIOUS
<1>1. next[n] = n /\ (l \in Heads \/ next[l] # l) /\ l # n /\ n \in Cell
  BY HeadsAreNotNodes DEF IsEmpty, Cell
<1>2. p \in Cell /\ next[p] = l
  BY DEF PointersSound, TypeOK, WellLinked
<1>3. p # n /\ (p \in Heads \/ next[p] # p)
  BY <1>1, <1>2 DEF Cell
<1>4. next' = [next EXCEPT ![p] = n, ![n] = l]
  BY DEF InsertBefore
<1>5. Hooked(next, next', p, n)
  BY <1>1, <1>2, <1>3, <1>4 DEF Hooked, PointersSound, TypeOK
<1> QED BY <1>1, <1>2, <1>3, <1>5, HookedIn

LEMMA RemoveIn ==
    ASSUME PointersSound, NEW L, Chains(next, L), NEW n \in Node, Remove(n)
    PROVE  \E K : Chains(next', K) /\ UnlinksIn(L, K)
<1> PICK p : p = prev[n]
  OBVIOUS
<1>1. n \in Cell /\ p \in Cell /\ next[p] = n /\ next[n] \in Cell /\ prev[next[n]] = n
  BY DEF PointersSound, TypeOK, WellLinked, Cell
<1>2. next' = [next EXCEPT ![p] = next[n], ![n] = n]
  BY <1>1 DEF Remove, PointersSound, TypeOK
<1> DEFINE K == [g \in Heads |-> Unlink(L[g], n)]
<1>3. UnlinksIn(L, K)
  BY DEF UnlinksIn
<1>4. CASE next[n] = n
  <2>1. p = n
    BY <1>1, <1>4
  <2>2. next' = next
    BY <1>1, <1>2, <1>4, <2>1 DEF PointersSound, TypeOK
  <2>3. \A g \in Heads : Unlink(L[g], n) = L[g]
    BY <1>4, ListedIsLinked, UnlinkAbsent DEF InNone
  <2>4. K = L
    BY <2>3 DEF Chains
  <2> HIDE DEF K
  <2> QED BY <1>3, <2>2, <2>4
<1>5. CASE next[n] # n
  <2>1. PICK h \in Heads : n \in Elems(L[h])
    BY <1>5 DEF Chains, InNone
  <2> PICK s : s = L[h]
    OBVIOUS
  <2>2. s \in Seq(Node) /\ Chain(next, h, s)
    BY DEF Chains
  <2>3. PICK k \in 1..Len(s) : n = s[k]
    BY <2>1, <2>2 DEF Elems
  <2>4. k - 1 \in 0..Len(s) /\ At(s, h, k) = n /\ (k - 1) + 1 = k /\ k - 1 \in Nat
    BY <2>2, <2>3 DEF At
  <2>5. next[At(s, h, k - 1)] = n
    BY <2>2, <2>4 DEF Chain
  <2>6. At(s, h, k - 1) \in Cell
    BY <2>2, <2>4, AtCell
  <2>7. At(s, h, k - 1) = p
    BY <2>5, <2>6 DEF PointersSound, WellLinked
  <2>8. p # n
    BY <1>1, <1>5
  <2>9. Unhooked(next, next', p, n)
    BY <1>1, <1>2, <2>8 DEF Unhooked, PointersSound, TypeOK
  <2>10. Unhooked(next, next', At(L[h], h, k - 1), L[h][k]) /\ k \in 1..Len(L[h])
    BY <2>3, <2>7, <2>9
  <2>11. Chains(next', [g \in Heads |-> Unlink(L[g], L[h][k])])
    BY <2>10, ListsShrink
  <2>12. Chains(next', K)
    BY <2>3, <2>11
  <2> HIDE DEF K
  <2> QED BY <1>3, <2>12
<1> QED BY <1>4, <1>5

LEMMA NextIn ==
    ASSUME PointersSound, NEW L, Chains(next, L), Next
    PROVE  \E K : Chains(next', K) /\ (LinksIn(L, K) \/ UnlinksIn(L, K))
<1>1. CASE \E n \in Node : Remove(n)
  BY <1>1, RemoveIn
<1>2. CASE \E n \in Node, l \in Cell :
              /\ IsEmpty(n)
              /\ l \in Heads \/ ~IsEmpty(l)
              /\ InsertAfter(l, n) \/ InsertBefore(l, n)
  BY <1>2, InsertAfterIn, InsertBeforeIn
<1> QED BY <1>1, <1>2 DEF Next

LEMMA PointersBegin ==
    ASSUME Init
    PROVE  PointersInv /\ WalkedLists = [h \in Heads |-> <<>>]
<1> DEFINE L == [h \in Heads |-> <<>>]
<1>1. PointersSound
  BY DEF Init, PointersSound, TypeOK, WellLinked
<1>2. Chains(next, L)
  <2>1. L \in [Heads -> Seq(Node)] /\ Apart(L)
    BY DEF Apart, IsOnce, Elems
  <2>2. \A h \in Heads : Chain(next, h, L[h])
    BY DEF Chain, At, Init, Cell
  <2>3. \A n \in Node : next[n] = n
    BY DEF Init, Cell
  <2> HIDE DEF L
  <2> QED BY <2>1, <2>2, <2>3 DEF Chains
<1>3. WalkedLists = L
  <2> HIDE DEF L
  <2> QED BY <1>1, <1>2, WalksAre DEF PointersSound
<1> QED BY <1>1, <1>2, <1>3 DEF PointersInv

LEMMA PointersStep ==
    ASSUME PointersInv, Next
    PROVE  PointersInv' /\ (LinksIn(WalkedLists, WalkedLists') \/ UnlinksIn(WalkedLists, WalkedLists'))
<1>1. PointersSound'
  BY NextLinks DEF PointersInv
<1>2. PICK K : Chains(next', K) /\ (LinksIn(WalkedLists, K) \/ UnlinksIn(WalkedLists, K))
  BY NextIn DEF PointersInv
<1>3. WalkedLists' = K
  BY <1>1, <1>2, WalksAre DEF PointersSound
<1> QED BY <1>1, <1>2, <1>3 DEF PointersInv

LEMMA PointersStay ==
    ASSUME PointersInv, UNCHANGED vars
    PROVE  PointersInv' /\ WalkedLists' = WalkedLists
<1>1. PointersSound'
  BY LinksStay DEF PointersInv
<1>2. next' = next
  BY DEF vars
<1>3. Chains(next', WalkedLists)
  BY <1>2 DEF PointersInv
<1>4. WalkedLists' = WalkedLists
  BY <1>1, <1>3, WalksAre DEF PointersSound
<1> QED BY <1>1, <1>3, <1>4 DEF PointersInv

LEMMA PointersInvariant == ServiceSpec => []PointersInv
<1>1. ServiceInit => PointersInv
  BY PointersBegin DEF ServiceInit
<1>2. PointersInv /\ [ServiceNext]_serviceVars => PointersInv'
  BY PointersStep, PointersStay
     DEF ServiceNext, Pointers, Timers, Objects, Devices, serviceVars
<1> QED BY <1>1, <1>2, PTL DEF ServiceSpec

(* The operators of Lists, as AbsLists sees them. *)
LEMMA AbsOperators ==
    /\ \A s : Abs!Elems(s) = Elems(s)
    /\ \A s, n : Abs!Unlink(s, n) = Unlink(s, n)
    /\ \A s, i, n : Abs!LinkAfter(s, i, n) = LinkAfter(s, i, n)
BY DEF Abs!Elems, Elems, Abs!Unlink, Unlink, Abs!LinkAfter, LinkAfter

Mapped == [h \in Heads |-> IF part = "pointers" THEN Walk(h, Cardinality(Node)) ELSE <<>>]

(* The pointers of rtservice.h implement lists that are sequences: each       *)
(* insertion puts a node that is in no list in one place, each removal takes  *)
(* one node out, and no other node is disturbed, for any heads and nodes.     *)
THEOREM ListsImplement == ServiceSpec => ImplementsLists
<1>1. ServiceInit => Abs!Init
  <2> SUFFICES ASSUME ServiceInit
               PROVE  Mapped = [h \in Heads |-> <<>>]
    BY DEF Abs!Init, Mapped
  <2>1. WalkedLists = [h \in Heads |-> <<>>]
    BY PointersBegin DEF ServiceInit
  <2>2. \A h \in Heads : Walk(h, Cardinality(Node)) = <<>>
    BY <2>1 DEF WalkedLists
  <2> QED BY <2>2 DEF Mapped
<1>2. PointersInv /\ [ServiceNext]_serviceVars => [Abs!Next]_Mapped
  <2> SUFFICES ASSUME PointersInv, [ServiceNext]_serviceVars
               PROVE  Abs!Next \/ Mapped' = Mapped
    OBVIOUS
  <2>1. CASE Pointers
    <3>1. LinksIn(WalkedLists, WalkedLists') \/ UnlinksIn(WalkedLists, WalkedLists')
      BY <2>1, PointersStep DEF Pointers
    <3>2. part = "pointers" /\ part' = "pointers"
      BY <2>1 DEF Pointers
    <3>3. Mapped = WalkedLists /\ Mapped' = WalkedLists'
      BY <3>2 DEF Mapped, WalkedLists
    <3>4. LinksIn(Mapped, Mapped') \/ UnlinksIn(Mapped, Mapped')
      BY <3>1, <3>3
    <3>5. CASE LinksIn(Mapped, Mapped')
      <4> PICK h \in Heads, n \in Node : \E i \in 0..Len(Mapped[h]) :
              InNone(Mapped, n) /\ Mapped' = [Mapped EXCEPT ![h] = LinkAfter(Mapped[h], i, n)]
        BY <3>5 DEF LinksIn
      <4>1. PICK i \in 0..Len(Mapped[h]) :
              InNone(Mapped, n) /\ Mapped' = [Mapped EXCEPT ![h] = LinkAfter(Mapped[h], i, n)]
        OBVIOUS
      <4>2. Abs!Insert(h, i, n)
        BY <4>1, AbsOperators DEF Abs!Insert, Abs!Free, InNone, Mapped
      <4> QED BY <4>1, <4>2 DEF Abs!Next, Mapped
    <3>6. CASE UnlinksIn(Mapped, Mapped')
      <4>1. PICK n \in Node : Mapped' = [h \in Heads |-> Unlink(Mapped[h], n)]
        BY <3>6 DEF UnlinksIn
      <4>2. Abs!Delete(n)
        BY <4>1, AbsOperators DEF Abs!Delete, Mapped
      <4> QED BY <4>2 DEF Abs!Next
    <3> QED BY <3>4, <3>5, <3>6
  <2>2. CASE ~Pointers
    <3>1. UNCHANGED <<part, vars>> \/ (part # "pointers" /\ part' = part)
      BY <2>2 DEF ServiceNext, Timers, Objects, Devices, serviceVars
    <3>2. CASE UNCHANGED <<part, vars>>
      <4>1. WalkedLists' = WalkedLists
        BY <3>2, PointersStay
      <4>2. \A h \in Heads : Walk(h, Cardinality(Node))' = Walk(h, Cardinality(Node))
        BY <4>1 DEF WalkedLists
      <4> QED BY <3>2, <4>2 DEF Mapped
    <3>3. CASE part # "pointers" /\ part' = part
      BY <3>3 DEF Mapped
    <3> QED BY <3>1, <3>2, <3>3
  <2> QED BY <2>1, <2>2
<1>3. PointersInv /\ [ServiceNext]_serviceVars =>
        [Abs!Next]_([h \in Heads |-> IF part = "pointers" THEN Walk(h, Cardinality(Node)) ELSE <<>>])
  BY <1>2 DEF Mapped
<1> QED BY <1>1, <1>3, PointersInvariant, PTL DEF ServiceSpec, ImplementsLists, Abs!Spec

-----------------------------------------------------------------------------
(* The operators of Lists, as RtTimer and RtDevice see them.                 *)
LEMMA TimerLists ==
    /\ \A s : T!Elems(s) = Elems(s)
    /\ \A s : T!IsOnce(s) = IsOnce(s)
    /\ \A s, n : T!Unlink(s, n) = Unlink(s, n)
    /\ \A s, i, n : T!LinkAfter(s, i, n) = LinkAfter(s, i, n)
BY DEF T!Elems, Elems, T!IsOnce, IsOnce, T!Unlink, Unlink, T!LinkAfter, LinkAfter

LEMMA ObjectLists ==
    /\ \A s : D!Elems(s) = Elems(s)
    /\ \A s : D!IsOnce(s) = IsOnce(s)
    /\ \A s, n : D!Unlink(s, n) = Unlink(s, n)
    /\ \A s, n : D!PushFront(s, n) = PushFront(s, n)
BY DEF D!Elems, Elems, D!IsOnce, IsOnce, D!Unlink, Unlink, D!PushFront, PushFront

-----------------------------------------------------------------------------
(* Instants, modulo a turn of rt_tick, and what is left until them.          *)
Ticks == 0..(TickMod - 1)

LEMMA TickFacts ==
    /\ TickMod \in Nat \ {0} /\ MaxLate \in Nat /\ T!Half \in Int
    /\ 2 * T!Half < TickMod /\ TickMod <= 2 * T!Half + 2
    /\ Ticks \subseteq Nat /\ 0 \in Ticks
    /\ \A n \in Periods : n \in 1..(T!Half - 1) /\ n + MaxLate <= T!Half
    /\ NoTimer \notin Timer
BY TimersConfigured DEF T!TimerAssumption, T!Half, Ticks

LEMMA MinusIs ==
    ASSUME NEW a \in Ticks, NEW b \in Ticks
    PROVE  T!Minus(a, b) \in Ticks /\ T!Minus(a, b) = IF b <= a THEN a - b ELSE a - b + TickMod
BY TickFacts DEF T!Minus, Ticks

LEMMA PlusIs ==
    ASSUME NEW a \in Ticks, NEW n \in Ticks
    PROVE  /\ (a + n) % TickMod \in Ticks
           /\ (a + n) % TickMod = IF a + n < TickMod THEN a + n ELSE a + n - TickMod
BY TickFacts DEF Ticks

(* What Remaining is for a timer with the timeout to at the time now. *)
Rest(to, now) == LET d == T!Minus(to, now) IN IF d < T!Half THEN d ELSE d - TickMod
Left(tm, now) == [t \in Timer |-> Rest(tm[t], now)]

LEMMA LeftIs ==
    ASSUME NEW tm \in [Timer -> Ticks], NEW now \in Ticks
    PROVE  /\ Left(tm, now) \in [Timer -> Int]
           /\ \A t \in Timer : Left(tm, now)[t] = Rest(tm[t], now)
<1>1. \A t \in Timer : T!Minus(tm[t], now) \in Int
  <2>1. \A t \in Timer : tm[t] \in Ticks
    OBVIOUS
  <2>2. \A t \in Timer : T!Minus(tm[t], now) \in Ticks
    BY <2>1, MinusIs
  <2>3. Ticks \subseteq Int
    BY DEF Ticks
  <2> QED BY <2>2, <2>3, Zenon
<1>2. \A t \in Timer : Rest(tm[t], now) \in Int
  BY <1>1, TickFacts DEF Rest
<1> QED BY <1>2 DEF Left

(* A timer is due when nothing is left. *)
LEMMA DueIs ==
    ASSUME NEW to \in Ticks, NEW now \in Ticks, Rest(to, now) > -T!Half
    PROVE  /\ T!Minus(now, to) < T!Half <=> Rest(to, now) <= 0
           /\ Rest(to, now) <= 0 => T!Minus(now, to) = -Rest(to, now)
<1>1. T!Minus(to, now) = IF now <= to THEN to - now ELSE to - now + TickMod
  BY MinusIs
<1>2. T!Minus(now, to) = IF to <= now THEN now - to ELSE now - to + TickMod
  BY MinusIs
<1>3. to \in Int /\ now \in Int /\ 0 <= to /\ to < TickMod /\ 0 <= now /\ now < TickMod
  BY TickFacts DEF Ticks
<1> QED BY <1>1, <1>2, <1>3, TickFacts DEF Rest

(* A tick takes one from what is left. *)
LEMMA TickPasses ==
    ASSUME NEW to \in Ticks, NEW now \in Ticks, Rest(to, now) > -T!Half
    PROVE  Rest(to, (now + 1) % TickMod) = Rest(to, now) - 1
<1> DEFINE next1 == (now + 1) % TickMod
<1>1. CASE TickMod = 1
  BY <1>1, TickFacts, MinusIs DEF Rest, Ticks
<1>2. CASE TickMod # 1
  <2>1. next1 \in Ticks /\ next1 = IF now + 1 < TickMod THEN now + 1 ELSE now + 1 - TickMod
    BY <1>2, PlusIs, TickFacts DEF Ticks
  <2> HIDE DEF next1
  <2>2. T!Minus(to, now) = IF now <= to THEN to - now ELSE to - now + TickMod
    BY MinusIs
  <2>3. T!Minus(to, next1) = IF next1 <= to THEN to - next1 ELSE to - next1 + TickMod
    BY <2>1, MinusIs
  <2>4. to \in Int /\ now \in Int /\ 0 <= to /\ to < TickMod /\ 0 <= now /\ now < TickMod
    BY TickFacts DEF Ticks
  <2>5. Rest(to, next1) = Rest(to, now) - 1
    BY <2>1, <2>2, <2>3, <2>4, TickFacts DEF Rest
  <2> QED BY <2>5 DEF next1
<1> QED BY <1>1, <1>2

(* A timer started for n ticks, against one that has r ticks left. *)
LEMMA LaterIs ==
    ASSUME NEW now \in Ticks, NEW n \in Periods, NEW at, at = (now + n) % TickMod
    PROVE  /\ at \in Ticks /\ Rest(at, now) = n
           /\ \A o \in Ticks : Rest(o, now) \in (-MaxLate)..(T!Half - 1) =>
                 (T!Minus(o, at) \in 1..(T!Half - 1) <=> Rest(o, now) > n)
<1>1. n \in Ticks /\ n \in Nat /\ n < T!Half /\ 0 < n /\ n + MaxLate <= T!Half
  BY TickFacts DEF Ticks
<1>2. at \in Ticks /\ at = IF now + n < TickMod THEN now + n ELSE now + n - TickMod
  BY <1>1, PlusIs
<1>3. T!Minus(at, now) = IF now <= at THEN at - now ELSE at - now + TickMod
  BY <1>2, MinusIs
<1>4. /\ TickMod \in Int /\ now \in Int /\ 0 <= now /\ now < TickMod
      /\ T!Half \in Int /\ 2 * T!Half < TickMod /\ TickMod <= 2 * T!Half + 2
      /\ MaxLate \in Int /\ 0 <= MaxLate
  BY TickFacts DEF Ticks
<1>5. Rest(at, now) = n
  BY <1>1, <1>2, <1>3, <1>4 DEF Rest
<1>6. ASSUME NEW o \in Ticks, Rest(o, now) \in (-MaxLate)..(T!Half - 1)
      PROVE  T!Minus(o, at) \in 1..(T!Half - 1) <=> Rest(o, now) > n
  <2>1. T!Minus(o, now) = IF now <= o THEN o - now ELSE o - now + TickMod
    BY MinusIs
  <2>2. T!Minus(o, at) = IF at <= o THEN o - at ELSE o - at + TickMod
    BY <1>2, MinusIs
  <2>3. o \in Int /\ 0 <= o /\ o < TickMod
    BY TickFacts DEF Ticks
  <2> QED BY <1>1, <1>2, <1>4, <1>6, <2>1, <2>2, <2>3 DEF Rest
<1> QED BY <1>2, <1>5, <1>6

(* The search of rt_timer_start finds the place of a timer in the order in   *)
(* which they are due.                                                       *)
LEMMA PlaceIs ==
    ASSUME NEW s \in Seq(Timer), NEW t \in Timer, t \notin Elems(s), NEW n \in Periods,
           tick \in Ticks, timeout \in [Timer -> Ticks],
           InOrder(s, Left(timeout, tick)),
           \A u \in Elems(s) : Left(timeout, tick)[u] \in (-MaxLate)..(T!Half - 1),
           NEW to, to = (tick + n) % TickMod, NEW g, g \in [Timer -> Int],
           g[t] = n, \A u \in Timer \ {t} : g[u] = Left(timeout, tick)[u]
    PROVE  /\ T!Place(s, to) \in 0..Len(s)
           /\ InOrder(LinkAfter(s, T!Place(s, to), t), g)
<1> DEFINE f == Left(timeout, tick)
           later == {i \in DOMAIN s : T!Minus(timeout[s[i]], to) \in 1..(T!Half - 1)}
           p == T!Place(s, to)
<1>1. to \in Ticks /\ n \in Int /\ Len(s) \in Nat /\ DOMAIN s = 1..Len(s)
  BY LaterIs, TickFacts
<1>2. \A i \in DOMAIN s : s[i] \in Timer /\ s[i] \in Elems(s) /\ s[i] # t
  BY DEF Elems
<1>3. \A i \in DOMAIN s : f[s[i]] = Rest(timeout[s[i]], tick) /\ timeout[s[i]] \in Ticks
  BY <1>2, LeftIs
<1>4. \A i \in DOMAIN s : i \in later <=> f[s[i]] > n
  BY <1>2, <1>3, LaterIs
<1>5. f \in [Timer -> Int]
  BY LeftIs
<1>6. InOrder(s, g)
  <2>1. \A e \in Elems(s) : g[e] = f[e]
    BY <1>2 DEF Elems
  <2> QED BY <2>1, InOrderSame
<1>7. \A i \in DOMAIN s : g[s[i]] = f[s[i]]
  BY <1>2
<1>8. p = IF later = {} THEN Len(s) ELSE (CHOOSE i \in later : \A j \in later : i <= j) - 1
  BY DEF T!Place
<1> HIDE DEF f, later, p
<1>9. /\ p \in 0..Len(s)
      /\ \A j \in 1..p : j \notin later
      /\ p < Len(s) => p + 1 \in later
  <2>1. CASE later = {}
    BY <1>1, <1>8, <2>1
  <2>2. CASE later # {}
    <3>1. later \subseteq Nat /\ later \subseteq 1..Len(s)
      BY <1>1 DEF later
    <3>2. \E m \in later : \A j \in later : m <= j
      BY <2>2, <3>1, Least
    <3>3. PICK m \in later : m = (CHOOSE i \in later : \A j \in later : i <= j)
      BY <3>2
    <3>4. \A j \in later : m <= j
      BY <3>2, <3>3
    <3>5. p = m - 1 /\ m \in 1..Len(s)
      BY <1>8, <2>2, <3>1, <3>3
    <3>6. p \in 0..Len(s) /\ p + 1 = m
      BY <1>1, <3>5
    <3>7. \A j \in 1..p : j \in Nat /\ j < m
      BY <1>1, <3>5
    <3>8. \A j \in 1..p : j \notin later
      BY <1>1, <3>1, <3>4, <3>5, <3>7
    <3> QED BY <3>6, <3>8
  <2> QED BY <2>1, <2>2
<1>10. \A j \in 1..p : g[s[j]] <= g[t]
  <2> SUFFICES ASSUME NEW j \in 1..p PROVE g[s[j]] <= g[t]
    OBVIOUS
  <2>1. j \in DOMAIN s /\ j \notin later
    BY <1>1, <1>9
  <2>2. f[s[j]] \in Int /\ ~(f[s[j]] > n)
    BY <1>2, <1>4, <1>5, <2>1
  <2> QED BY <1>1, <1>7, <2>1, <2>2
<1>11. p < Len(s) => g[t] <= g[s[p + 1]]
  BY <1>1, <1>2, <1>4, <1>5, <1>7, <1>9
<1>12. InOrder(LinkAfter(s, p, t), g)
  BY <1>6, <1>9, <1>10, <1>11, LinkAfterInOrder
<1> QED BY <1>9, <1>12 DEF p

-----------------------------------------------------------------------------
(* The invariant of the timers.                                              *)
Checks == {"hard", "soft"}
CheckPlaces == {"idle", "look", "call"}
ServicePlaces == {"look", "suspend", "delay", "gone", "delayed", "check", "call"}

TimersTyped ==
    /\ tick \in Ticks /\ known \subseteq Timer
    /\ active \in [Timer -> BOOLEAN] /\ periodic \in [Timer -> BOOLEAN]
    /\ isSoft \in [Timer -> BOOLEAN]
    /\ init \in [Timer -> Nat] /\ \A t \in known : init[t] \in Periods
    /\ timeout \in [Timer -> Ticks]
    /\ local \in [Checks -> Seq(Timer)]
    /\ check \in [at : CheckPlaces, timer : Timer \cup {NoTimer}]
    /\ service \in [at : ServicePlaces, timer : Timer \cup {NoTimer}, wait : Int]

(* The list s is sorted by what f says is left, which is lo at least. *)
Sorted(s, f, lo) ==
    /\ s \in Seq(Timer) /\ IsOnce(s) /\ InOrder(s, f)
    /\ \A u \in Elems(s) : f[u] \in lo..(T!Half - 1)

(* No hard timer is due when the clock interrupt is over. *)
Soonest == IF check.at = "idle" THEN 1 ELSE 0
Rem == Left(timeout, tick)
InTime == Sorted(hard, Rem, Soonest) /\ Sorted(soft, Rem, -MaxLate)

Members ==
    /\ \A t \in Elems(hard) : active[t] /\ ~isSoft[t]
    /\ \A t \in Elems(soft) : active[t] /\ isSoft[t]
    /\ \A t \in Timer : active[t] => t \in known

(* The list of a check holds the timer whose function it runs, or nothing. *)
Running(k) == IF k = "hard" THEN check.at = "call" ELSE service.at = "call"
Runner(k) == IF k = "hard" THEN check.timer ELSE service.timer
InChecks ==
    \A k \in Checks :
        /\ IsOnce(local[k])
        /\ \A t \in Elems(local[k]) :
              /\ Running(k) /\ t = Runner(k) /\ t \in known
              /\ t \notin Elems(hard) \cup Elems(soft) /\ isSoft[t] = (k = "soft")

TimersInv == TimersTyped /\ InTime /\ Members /\ InChecks

LEMMA RemIs ==
    ASSUME TimersTyped
    PROVE  /\ Rem \in [Timer -> Int]
           /\ \A t \in Timer : Rem[t] = Rest(timeout[t], tick) /\ T!Remaining(t) = Rem[t]
<1>1. Rem \in [Timer -> Int] /\ \A t \in Timer : Rem[t] = Rest(timeout[t], tick)
  BY LeftIs DEF TimersTyped, Rem
<1>2. \A t \in Timer : T!Remaining(t) = Rest(timeout[t], tick)
  BY DEF T!Remaining, Rest
<1> QED BY <1>1, <1>2

LEMMA SortedSame ==
    ASSUME NEW s, NEW f, NEW lo, Sorted(s, f, lo), NEW g, \A u \in Elems(s) : g[u] = f[u]
    PROVE  Sorted(s, g, lo)
<1>1. InOrder(s, g)
  BY InOrderSame DEF Sorted
<1> QED BY <1>1 DEF Sorted

LEMMA SortedUnlink ==
    ASSUME NEW s, NEW f, NEW lo, Sorted(s, f, lo), NEW t, NEW g, \A u \in Elems(s) \ {t} : g[u] = f[u]
    PROVE  Sorted(Unlink(s, t), g, lo) /\ Elems(Unlink(s, t)) = Elems(s) \ {t}
<1>1. /\ Unlink(s, t) \in Seq(Timer) /\ IsOnce(Unlink(s, t))
      /\ Elems(Unlink(s, t)) = Elems(s) \ {t}
  BY UnlinkFacts DEF Sorted
<1>2. InOrder(Unlink(s, t), f)
  BY UnlinkInOrder DEF Sorted
<1>3. Sorted(Unlink(s, t), f, lo)
  BY <1>1, <1>2 DEF Sorted
<1> QED BY <1>1, <1>3, SortedSame

LEMMA SortedLink ==
    ASSUME TimersTyped, NEW s, NEW lo \in (-MaxLate)..1, Sorted(s, Rem, lo), NEW t \in Timer,
           t \notin Elems(s), NEW n \in Periods, NEW to, to = (tick + n) % TickMod,
           NEW g \in [Timer -> Int], g[t] = n, \A u \in Timer \ {t} : g[u] = Rem[u]
    PROVE  LET r == LinkAfter(s, T!Place(s, to), t)
           IN  Sorted(r, g, lo) /\ Elems(r) = Elems(s) \cup {t}
<1> DEFINE p == T!Place(s, to)
           r == LinkAfter(s, p, t)
<1>1. MaxLate \in Nat /\ n \in 1..(T!Half - 1) /\ T!Half \in Int
  BY TickFacts
<1>2. \A u \in Elems(s) : Rem[u] \in (-MaxLate)..(T!Half - 1)
  BY <1>1 DEF Sorted
<1>3. p \in 0..Len(s) /\ InOrder(r, g)
  BY <1>2, PlaceIs DEF Sorted, TimersTyped, Rem
<1> HIDE DEF p
<1>4. r \in Seq(Timer) /\ Elems(r) = Elems(s) \cup {t} /\ IsOnce(r)
  BY <1>3, LinkAfterFacts DEF Sorted
<1> HIDE DEF r
<1>5. \A u \in Elems(r) : g[u] \in lo..(T!Half - 1)
  <2>1. g[t] \in lo..(T!Half - 1)
    BY <1>1
  <2>2. \A u \in Elems(s) : u \in Timer /\ u # t /\ Rem[u] \in lo..(T!Half - 1)
    BY ElemsType DEF Sorted
  <2> QED BY <1>4, <2>1, <2>2
<1> QED BY <1>3, <1>4, <1>5 DEF Sorted, r, p

-----------------------------------------------------------------------------
(* What the parts of timer.c do to the lists.                                *)
LEMMA RemChanges ==
    ASSUME TimersTyped, NEW t \in Timer, NEW to \in Ticks, timeout' = [timeout EXCEPT ![t] = to],
           tick' = tick
    PROVE  /\ timeout' \in [Timer -> Ticks]
           /\ Rem' \in [Timer -> Int]
           /\ Rem'[t] = Rest(to, tick)
           /\ \A u \in Timer \ {t} : Rem'[u] = Rem[u]
<1>1. timeout' \in [Timer -> Ticks] /\ timeout'[t] = to
      /\ \A u \in Timer \ {t} : timeout'[u] = timeout[u]
  BY DEF TimersTyped
<1>2. tick \in Ticks /\ timeout \in [Timer -> Ticks]
  BY DEF TimersTyped
<1>3. Rem' = Left(timeout', tick)
  BY DEF Rem
<1>4. /\ Left(timeout', tick) \in [Timer -> Int]
      /\ \A u \in Timer : Left(timeout', tick)[u] = Rest(timeout'[u], tick)
  BY <1>1, <1>2, LeftIs
<1> QED BY <1>1, <1>3, <1>4, RemIs

(* Every list loses t. *)
Loses(t) ==
    /\ Elems(hard') = Elems(hard) \ {t} /\ Elems(soft') = Elems(soft) \ {t}
    /\ local' \in [Checks -> Seq(Timer)]
    /\ \A k \in Checks : Elems(local'[k]) = Elems(local[k]) \ {t} /\ IsOnce(local'[k])

LEMMA LocalUnlinked ==
    ASSUME TimersTyped, InChecks, NEW t \in Timer,
           local' = [k \in DOMAIN local |-> T!Unlink(local[k], t)]
    PROVE  /\ local' \in [Checks -> Seq(Timer)]
           /\ \A k \in Checks : Elems(local'[k]) = Elems(local[k]) \ {t} /\ IsOnce(local'[k])
<1>1. \A k \in Checks : local[k] \in Seq(Timer) /\ IsOnce(local[k])
  BY DEF TimersTyped, InChecks
<1>2. local' = [k \in Checks |-> Unlink(local[k], t)]
  BY TimerLists DEF TimersTyped
<1>3. \A k \in Checks : /\ Unlink(local[k], t) \in Seq(Timer) /\ IsOnce(Unlink(local[k], t))
                        /\ Elems(Unlink(local[k], t)) = Elems(local[k]) \ {t}
  BY <1>1, UnlinkFacts
<1> QED BY <1>2, <1>3

LEMMA RemovedEffect ==
    ASSUME TimersTyped, InTime, InChecks, NEW t \in Timer, T!Removed(t),
           \A u \in Timer \ {t} : Rem'[u] = Rem[u], Soonest' = Soonest
    PROVE  InTime' /\ Loses(t)
<1>1. hard' = Unlink(hard, t) /\ soft' = Unlink(soft, t)
  BY TimerLists DEF T!Removed
<1>2. Elems(hard) \subseteq Timer /\ Elems(soft) \subseteq Timer
  BY ElemsType DEF InTime, Sorted
<1>3. Sorted(hard', Rem', Soonest) /\ Elems(hard') = Elems(hard) \ {t}
  BY <1>1, <1>2, SortedUnlink DEF InTime
<1>4. Sorted(soft', Rem', -MaxLate) /\ Elems(soft') = Elems(soft) \ {t}
  BY <1>1, <1>2, SortedUnlink DEF InTime
<1>5. InTime'
  BY <1>3, <1>4 DEF InTime
<1>6. /\ local' \in [Checks -> Seq(Timer)]
      /\ \A k \in Checks : Elems(local'[k]) = Elems(local[k]) \ {t} /\ IsOnce(local'[k])
  BY LocalUnlinked DEF T!Removed
<1> QED BY <1>3, <1>4, <1>5, <1>6 DEF Loses

(* rt_timer_start leaves t in the list of its kind, with its interval to go. *)
Enlists(t) ==
    /\ Elems(hard') = IF isSoft[t] THEN Elems(hard) \ {t} ELSE Elems(hard) \cup {t}
    /\ Elems(soft') = IF isSoft[t] THEN Elems(soft) \cup {t} ELSE Elems(soft) \ {t}
    /\ local' \in [Checks -> Seq(Timer)]
    /\ \A k \in Checks : Elems(local'[k]) = Elems(local[k]) \ {t} /\ IsOnce(local'[k])
    /\ active' = [active EXCEPT ![t] = TRUE]
    /\ timeout' \in [Timer -> Ticks]
    /\ Rem'[t] = init[t] /\ \A u \in Timer \ {t} : Rem'[u] = Rem[u]

LEMMA EnlistEffect ==
    ASSUME TimersTyped, InTime, InChecks, NEW t \in known, T!Enlist(t), tick' = tick,
           Soonest' = Soonest
    PROVE  InTime' /\ Enlists(t)
<1> DEFINE n == init[t]
           to == (tick + n) % TickMod
           h == Unlink(hard, t)
           s == Unlink(soft, t)
<1>1. t \in Timer /\ n \in Periods
  BY DEF TimersTyped
<1>2. to \in Ticks /\ Rest(to, tick) = n
  BY <1>1, LaterIs DEF TimersTyped
<1>3. /\ timeout' = [timeout EXCEPT ![t] = to]
      /\ hard' = IF isSoft[t] THEN h ELSE LinkAfter(h, T!Place(h, to), t)
      /\ soft' = IF isSoft[t] THEN LinkAfter(s, T!Place(s, to), t) ELSE s
      /\ active' = [active EXCEPT ![t] = TRUE]
      /\ local' = [k \in DOMAIN local |-> T!Unlink(local[k], t)]
  BY TimerLists DEF T!Enlist
<1>4. to = (tick + n) % TickMod
  OBVIOUS
<1> HIDE DEF n, to
<1>5. /\ timeout' \in [Timer -> Ticks] /\ Rem' \in [Timer -> Int]
      /\ Rem'[t] = n /\ \A u \in Timer \ {t} : Rem'[u] = Rem[u]
  BY <1>1, <1>2, <1>3, RemChanges
<1>6. Elems(hard) \subseteq Timer /\ Elems(soft) \subseteq Timer
  BY ElemsType DEF InTime, Sorted
<1>7. Sorted(h, Rem, Soonest) /\ Elems(h) = Elems(hard) \ {t} /\ Sorted(h, Rem', Soonest)
  BY <1>5, <1>6, SortedUnlink DEF InTime
<1>8. Sorted(s, Rem, -MaxLate) /\ Elems(s) = Elems(soft) \ {t} /\ Sorted(s, Rem', -MaxLate)
  BY <1>5, <1>6, SortedUnlink DEF InTime
<1> HIDE DEF h, s
<1>9. Soonest \in (-MaxLate)..1 /\ -MaxLate \in (-MaxLate)..1
  BY TickFacts DEF Soonest
<1>10. LET r == LinkAfter(h, T!Place(h, to), t)
       IN  Sorted(r, Rem', Soonest) /\ Elems(r) = Elems(h) \cup {t}
  BY <1>1, <1>4, <1>5, <1>7, <1>9, SortedLink
<1>11. LET r == LinkAfter(s, T!Place(s, to), t)
       IN  Sorted(r, Rem', -MaxLate) /\ Elems(r) = Elems(s) \cup {t}
  BY <1>1, <1>4, <1>5, <1>8, <1>9, SortedLink
<1>12. /\ Elems(hard') = IF isSoft[t] THEN Elems(hard) \ {t} ELSE Elems(hard) \cup {t}
       /\ Elems(soft') = IF isSoft[t] THEN Elems(soft) \cup {t} ELSE Elems(soft) \ {t}
       /\ Sorted(hard', Rem', Soonest) /\ Sorted(soft', Rem', -MaxLate)
  BY <1>3, <1>7, <1>8, <1>10, <1>11
<1>13. InTime'
  BY <1>12 DEF InTime
<1>14. /\ local' \in [Checks -> Seq(Timer)]
       /\ \A k \in Checks : Elems(local'[k]) = Elems(local[k]) \ {t} /\ IsOnce(local'[k])
  BY <1>1, <1>3, LocalUnlinked
<1> QED BY <1>3, <1>5, <1>12, <1>13, <1>14 DEF Enlists, n

(* The first timer of a list, which is due, is moved to the check's list.    *)
Takes(k, t) ==
    /\ Elems(hard') = Elems(hard) \ {t} /\ Elems(soft') = Elems(soft) \ {t}
    /\ timeout' \in [Timer -> Ticks] /\ active' = [active EXCEPT ![t] = periodic[t]]
    /\ \A u \in Timer \ {t} : Rem'[u] = Rem[u]
    /\ local' \in [Checks -> Seq(Timer)]
    /\ \A j \in Checks : IsOnce(local'[j])
                         /\ Elems(local'[j]) = IF j = k THEN {t} ELSE Elems(local[j])

LEMMA TakeEffect ==
    ASSUME TimersInv, NEW k \in Checks, NEW t \in Timer, T!Take(k, t),
           t \in Elems(hard) \cup Elems(soft), tick' = tick, Soonest' = Soonest
    PROVE  InTime' /\ Takes(k, t)
<1>1. TimersTyped /\ InTime /\ InChecks
  BY DEF TimersInv
<1>2. /\ hard' = Unlink(hard, t) /\ soft' = Unlink(soft, t)
      /\ local' = [local EXCEPT ![k] = <<t>>]
      /\ timeout' = [timeout EXCEPT ![t] = 0] /\ active' = [active EXCEPT ![t] = periodic[t]]
  BY TimerLists DEF T!Take
<1>3. timeout' \in [Timer -> Ticks] /\ \A u \in Timer \ {t} : Rem'[u] = Rem[u]
  BY <1>1, <1>2, RemChanges, TickFacts
<1>4. Elems(hard) \subseteq Timer /\ Elems(soft) \subseteq Timer
  BY <1>1, ElemsType DEF InTime, Sorted
<1>5. Sorted(hard', Rem', Soonest) /\ Elems(hard') = Elems(hard) \ {t}
  BY <1>1, <1>2, <1>3, <1>4, SortedUnlink DEF InTime
<1>6. Sorted(soft', Rem', -MaxLate) /\ Elems(soft') = Elems(soft) \ {t}
  BY <1>1, <1>2, <1>3, <1>4, SortedUnlink DEF InTime
<1>7. <<t>> \in Seq(Timer) /\ Elems(<<t>>) = {t} /\ IsOnce(<<t>>)
  BY DEF Elems, IsOnce
<1>8. local \in [Checks -> Seq(Timer)] /\ \A j \in Checks : IsOnce(local[j])
  BY <1>1 DEF TimersTyped, InChecks
<1>9. /\ local' \in [Checks -> Seq(Timer)]
      /\ \A j \in Checks : local'[j] = IF j = k THEN <<t>> ELSE local[j]
  BY <1>2, <1>7, <1>8
<1> QED BY <1>2, <1>3, <1>5, <1>6, <1>7, <1>8, <1>9 DEF InTime, Takes

(* The function of the timer t of check k is over. *)
LEMMA ReturnEffect ==
    ASSUME TimersInv, NEW k \in Checks, NEW t, t = Runner(k), T!Return(k, t), tick' = tick,
           Soonest' = Soonest
    PROVE  /\ InTime' /\ Members'
           /\ timeout' \in [Timer -> Ticks] /\ active' \in [Timer -> BOOLEAN]
           /\ UNCHANGED <<known, periodic, isSoft, init>>
           /\ local' \in [Checks -> Seq(Timer)] /\ Elems(local'[k]) = {}
           /\ \A j \in Checks :
                 /\ IsOnce(local'[j])
                 /\ \A u \in Elems(local'[j]) :
                       u \in Elems(local[j]) /\ u \notin Elems(hard') \cup Elems(soft')
<1>1. TimersTyped /\ InTime /\ Members /\ InChecks
  BY DEF TimersInv
<1>2. \A j \in Checks : local[j] \in Seq(Timer) /\ IsOnce(local[j])
                        /\ (local[j] = <<>> <=> Elems(local[j]) = {})
  BY <1>1, EmptyElems DEF TimersTyped, InChecks
<1>3. CASE local[k] = <<>>
  <2>1. UNCHANGED <<known, active, periodic, isSoft, init, timeout, hard, soft, local>>
    BY <1>3 DEF T!Return, T!fields, T!lists
  <2>2. Rem' = Rem
    BY <2>1 DEF Rem
  <2>3. InTime' /\ Members'
    BY <1>1, <2>1, <2>2 DEF InTime, Members
  <2> QED BY <1>1, <1>2, <1>3, <2>1, <2>3 DEF TimersTyped, InChecks
<1>4. CASE local[k] # <<>>
  <2>1. Elems(local[k]) = {t}
    <3>1. Elems(local[k]) # {}
      BY <1>2, <1>4
    <3>2. \A u \in Elems(local[k]) : u = t
      BY <1>1 DEF InChecks
    <3> QED BY <3>1, <3>2
  <2>2. t \in Timer /\ t \in known
    BY <1>1, <2>1 DEF InChecks, TimersTyped
  <2>3. CASE periodic[t] /\ active[t]
    <3>1. T!Enlist(t)
      BY <1>4, <2>3 DEF T!Return
    <3>2. InTime' /\ Enlists(t)
      BY <1>1, <2>2, <3>1, EnlistEffect
    <3>3. UNCHANGED <<known, periodic, isSoft, init>>
      BY <3>1 DEF T!Enlist
    <3>4. Members'
      BY <1>1, <2>2, <3>2, <3>3 DEF Members, Enlists, TimersTyped
    <3> QED BY <1>1, <2>1, <2>2, <3>2, <3>3, <3>4 DEF Enlists, InChecks, TimersTyped
  <2>4. CASE ~(periodic[t] /\ active[t])
    <3>1. T!Retire(t)
      BY <1>4, <2>4 DEF T!Return
    <3>2. T!Removed(t) /\ UNCHANGED <<known, active, periodic, isSoft, init, timeout>>
      BY <3>1 DEF T!Retire, T!fields
    <3>3. Rem' = Rem
      BY <3>2 DEF Rem
    <3>4. InTime' /\ Loses(t)
      BY <1>1, <2>2, <3>2, <3>3, RemovedEffect
    <3>5. Members'
      BY <1>1, <3>2, <3>4 DEF Members, Loses
    <3> QED BY <1>1, <2>1, <3>2, <3>4, <3>5 DEF Loses, InChecks, TimersTyped
  <2> QED BY <2>3, <2>4
<1> QED BY <1>3, <1>4

(* The lists of the checks only lose timers, and their checks go on.         *)
LEMMA ChecksStay ==
    ASSUME InChecks,
           \A j \in Checks :
              /\ IsOnce(local'[j])
              /\ \A u \in Elems(local'[j]) :
                    /\ u \in Elems(local[j]) /\ u \notin Elems(hard') \cup Elems(soft')
                    /\ u \in known' /\ isSoft'[u] = isSoft[u]
                    /\ Running(j)' = Running(j) /\ Runner(j)' = Runner(j)
    PROVE  InChecks'
BY DEF InChecks

-----------------------------------------------------------------------------
(* Every step of RtTimer keeps the invariant.                                *)
LEMMA MembersKnown ==
    ASSUME TimersInv
    PROVE  /\ \A u \in Elems(hard) : u \in Timer /\ u \in known
           /\ \A u \in Elems(soft) : u \in Timer /\ u \in known
           /\ \A j \in Checks : \A u \in Elems(local[j]) : u \in known /\ u \in Timer
           /\ \A j \in Checks : IsOnce(local[j])
<1>1. Elems(hard) \subseteq Timer /\ Elems(soft) \subseteq Timer
  BY ElemsType DEF TimersInv, InTime, Sorted
<1>2. known \subseteq Timer
  BY DEF TimersInv, TimersTyped
<1> QED BY <1>1, <1>2 DEF TimersInv, Members, InChecks

(* The lists stay and so do the settings of the timers in them. *)
LEMMA ListsStay ==
    ASSUME TimersInv, UNCHANGED <<tick, timeout, hard, soft, local>>, Soonest' <= Soonest,
           TimersTyped',
           \A u \in known : u \in known' /\ isSoft'[u] = isSoft[u] /\ active'[u] = active[u],
           \A u \in Timer : active'[u] => u \in known',
           \A j \in Checks : Elems(local[j]) # {} => Running(j)' = Running(j) /\ Runner(j)' = Runner(j)
    PROVE  TimersInv'
<1>1. Rem' = Rem
  BY DEF Rem
<1>2. InTime'
  <2>1. Soonest \in Int /\ Soonest' \in Int
    BY DEF Soonest
  <2>2. Sorted(hard, Rem, Soonest')
    BY <2>1, TickFacts, MembersKnown, RemIs DEF TimersInv, InTime, Sorted
  <2> QED BY <1>1, <2>2 DEF TimersInv, InTime
<1>3. Members'
  BY MembersKnown DEF TimersInv, Members
<1>4. InChecks'
  BY MembersKnown, ChecksStay DEF TimersInv, InChecks
<1> QED BY <1>2, <1>3, <1>4 DEF TimersInv

(* Where the timer thread goes. *)
LEMMA ServiceMoves ==
    ASSUME TimersTyped, NEW a \in ServicePlaces, NEW w \in Int
    PROVE  /\ [service EXCEPT !.at = a, !.wait = w]
                \in [at : ServicePlaces, timer : Timer \cup {NoTimer}, wait : Int]
           /\ [service EXCEPT !.wait = w]
                \in [at : ServicePlaces, timer : Timer \cup {NoTimer}, wait : Int]
<1>1. service \in [at : ServicePlaces, timer : Timer \cup {NoTimer}, wait : Int]
  BY DEF TimersTyped
<1> QED BY <1>1

LEMMA ServiceGoes ==
    ASSUME TimersTyped, NEW a \in ServicePlaces
    PROVE  /\ [service EXCEPT !.at = a]
                \in [at : ServicePlaces, timer : Timer \cup {NoTimer}, wait : Int]
           /\ \A u \in Timer \cup {NoTimer} :
                 [service EXCEPT !.at = a, !.timer = u]
                    \in [at : ServicePlaces, timer : Timer \cup {NoTimer}, wait : Int]
<1>1. service \in [at : ServicePlaces, timer : Timer \cup {NoTimer}, wait : Int]
  BY DEF TimersTyped
<1> QED BY <1>1

LEMMA SetupKeeps ==
    ASSUME TimersInv, NEW t \in Timer, T!Setup(t), UNCHANGED <<tick, check>>
    PROVE  TimersInv'
<1>1. PICK p \in BOOLEAN, s \in BOOLEAN, n \in Periods :
         /\ periodic' = [periodic EXCEPT ![t] = p]
         /\ isSoft' = [isSoft EXCEPT ![t] = s]
         /\ init' = [init EXCEPT ![t] = n]
  BY DEF T!Setup
<1>2. /\ t \notin known /\ known' = known \cup {t} /\ active' = [active EXCEPT ![t] = FALSE]
      /\ UNCHANGED <<timeout, hard, soft, local, service>>
  BY DEF T!Setup, T!lists
<1>3. n \in Nat
  BY TickFacts
<1>4. TimersTyped'
  BY <1>1, <1>2, <1>3 DEF TimersInv, TimersTyped
<1>5. /\ \A u \in known : u \in known' /\ isSoft'[u] = isSoft[u] /\ active'[u] = active[u]
      /\ \A u \in Timer : active'[u] => u \in known'
  BY <1>1, <1>2 DEF TimersInv, TimersTyped, Members
<1>6. Soonest' = Soonest /\ Soonest \in Int /\ \A j \in Checks : Running(j)' = Running(j) /\ Runner(j)' = Runner(j)
  BY <1>2 DEF Soonest, Running, Runner
<1>7. UNCHANGED <<tick, timeout, hard, soft, local>> /\ Soonest' <= Soonest
  BY <1>2, <1>6
<1> QED BY <1>4, <1>5, <1>6, <1>7, ListsStay

LEMMA ControlKeeps ==
    ASSUME TimersInv, NEW t \in Timer, T!Control(t), UNCHANGED <<tick, check>>
    PROVE  TimersInv'
<1>1. UNCHANGED <<known, active, isSoft, timeout, hard, soft, local, service>> /\ t \in known
  BY DEF T!Control, T!lists
<1>2. TimersTyped'
  <2>1. CASE \E n \in Periods \ {init[t]} : init' = [init EXCEPT ![t] = n] /\ UNCHANGED periodic
    BY <1>1, <2>1, TickFacts DEF TimersInv, TimersTyped
  <2>2. CASE periodic' = [periodic EXCEPT ![t] = ~@] /\ UNCHANGED init
    BY <1>1, <2>2 DEF TimersInv, TimersTyped
  <2> QED BY <2>1, <2>2 DEF T!Control
<1>3. /\ \A u \in known : u \in known' /\ isSoft'[u] = isSoft[u] /\ active'[u] = active[u]
      /\ \A u \in Timer : active'[u] => u \in known'
  BY <1>1 DEF TimersInv, Members
<1>4. Soonest' = Soonest /\ Soonest \in Int /\ \A j \in Checks : Running(j)' = Running(j) /\ Runner(j)' = Runner(j)
  BY <1>1 DEF Soonest, Running, Runner
<1> QED BY <1>1, <1>2, <1>3, <1>4, ListsStay

LEMMA StartKeeps ==
    ASSUME TimersInv, NEW t \in Timer, T!Start(t), UNCHANGED <<tick, check>>
    PROVE  TimersInv' /\ Enlists(t)
<1>1. t \in known /\ T!Enlist(t) /\ Soonest' = Soonest
  BY DEF T!Start, Soonest
<1>2. TimersTyped /\ InTime /\ InChecks /\ Members
  BY DEF TimersInv
<1>3. InTime' /\ Enlists(t)
  BY <1>1, <1>2, EnlistEffect
<1>4. UNCHANGED <<known, periodic, isSoft, init>>
  BY <1>1 DEF T!Enlist
<1>5. service' = IF T!Wakes(t) THEN [service EXCEPT !.at = "check", !.wait = 0] ELSE service
  BY DEF T!Start
<1>6. TimersTyped'
  <2>1. service' \in [at : ServicePlaces, timer : Timer \cup {NoTimer}, wait : Int]
    <3>1. "check" \in ServicePlaces /\ 0 \in Int
      BY DEF ServicePlaces
    <3>2. [service EXCEPT !.at = "check", !.wait = 0]
            \in [at : ServicePlaces, timer : Timer \cup {NoTimer}, wait : Int]
      BY <1>2, <3>1, ServiceMoves
    <3> QED BY <1>2, <1>5, <3>2 DEF TimersTyped
  <2>2. active' \in [Timer -> BOOLEAN]
    BY <1>2, <1>3 DEF TimersTyped, Enlists
  <2> QED BY <1>2, <1>3, <1>4, <2>1, <2>2 DEF Enlists, TimersTyped
<1>7. Members'
  BY <1>1, <1>2, <1>3, <1>4 DEF Members, Enlists, TimersTyped
<1>8. /\ service'.timer = service.timer
      /\ (service'.at = "call") = (service.at = "call")
  BY <1>2, <1>5 DEF T!Wakes, T!Suspended, T!Busy, TimersTyped
<1>9. \A j \in Checks : Running(j)' = Running(j) /\ Runner(j)' = Runner(j)
  BY <1>8 DEF Running, Runner
<1>10. InChecks'
  BY <1>2, <1>3, <1>4, <1>9, ChecksStay DEF Enlists, InChecks
<1> QED BY <1>3, <1>6, <1>7, <1>10 DEF TimersInv

(* rt_timer_stop and rt_timer_detach take t out of whatever list it is in.   *)
LEMMA LeaveKeeps ==
    ASSUME TimersInv, NEW t \in known, T!Removed(t), UNCHANGED <<tick, check, service>>,
           timeout' = [timeout EXCEPT ![t] = 0], active' = [active EXCEPT ![t] = FALSE],
           TimersTyped',
           \A u \in Timer \ {t} : (u \in known' <=> u \in known) /\ isSoft'[u] = isSoft[u]
    PROVE  TimersInv' /\ Loses(t)
<1>1. TimersTyped /\ InTime /\ InChecks /\ Members /\ t \in Timer
  BY DEF TimersInv, TimersTyped
<1>2. \A u \in Timer \ {t} : Rem'[u] = Rem[u]
  BY <1>1, TickFacts, RemChanges
<1>3. Soonest' = Soonest
  BY DEF Soonest
<1>4. InTime' /\ Loses(t)
  BY <1>1, <1>2, <1>3, RemovedEffect
<1>5. \A u \in Timer : u # t => active'[u] = active[u]
  BY <1>1 DEF TimersTyped
<1>6. active'[t] = FALSE
  BY <1>1 DEF TimersTyped
<1>7. Members'
  BY <1>1, <1>4, <1>5, <1>6, MembersKnown DEF Members, Loses
<1>8. \A j \in Checks : Running(j)' = Running(j) /\ Runner(j)' = Runner(j)
  BY DEF Running, Runner
<1>9. InChecks'
  BY <1>1, <1>4, <1>8, MembersKnown, ChecksStay DEF Loses, InChecks
<1> QED BY <1>4, <1>7, <1>9 DEF TimersInv

LEMMA StopKeeps ==
    ASSUME TimersInv, NEW t \in Timer, T!Stop(t), UNCHANGED <<tick, check>>
    PROVE  TimersInv' /\ (active[t] => Loses(t))
<1>1. t \in known /\ UNCHANGED <<known, periodic, isSoft, init, service>>
  BY DEF T!Stop
<1>2. CASE active[t]
  <2>1. /\ T!Removed(t) /\ timeout' = [timeout EXCEPT ![t] = 0]
        /\ active' = [active EXCEPT ![t] = FALSE]
    BY <1>2 DEF T!Stop
  <2>2. local' \in [Checks -> Seq(Timer)]
    BY <2>1, LocalUnlinked DEF T!Removed, TimersInv
  <2>3. TimersTyped'
    BY <1>1, <2>1, <2>2, TickFacts DEF TimersInv, TimersTyped
  <2> QED BY <1>1, <1>2, <2>1, <2>3, LeaveKeeps
<1>3. CASE ~active[t]
  <2>1. UNCHANGED <<hard, soft, local, active, timeout>>
    BY <1>3 DEF T!Stop, T!lists
  <2>2. TimersTyped'
    BY <1>1, <2>1 DEF TimersInv, TimersTyped
  <2>3. Soonest' = Soonest /\ Soonest \in Int /\ \A j \in Checks : Running(j)' = Running(j) /\ Runner(j)' = Runner(j)
    BY <1>1 DEF Soonest, Running, Runner
  <2> QED BY <1>1, <1>3, <2>1, <2>2, <2>3, ListsStay DEF TimersInv, Members
<1> QED BY <1>2, <1>3

LEMMA DetachKeeps ==
    ASSUME TimersInv, NEW t \in Timer, T!Detach(t), UNCHANGED <<tick, check>>
    PROVE  TimersInv' /\ Loses(t)
<1>1. /\ t \in known /\ known' = known \ {t} /\ T!Removed(t) /\ service' = service
      /\ timeout' = [timeout EXCEPT ![t] = 0]
      /\ active' = [active EXCEPT ![t] = FALSE]
      /\ periodic' = [periodic EXCEPT ![t] = FALSE]
      /\ isSoft' = [isSoft EXCEPT ![t] = FALSE]
      /\ init' = [init EXCEPT ![t] = 0]
  BY DEF T!Detach
<1>2. local' \in [Checks -> Seq(Timer)]
  BY <1>1, LocalUnlinked DEF T!Removed, TimersInv
<1>3. TimersTyped'
  BY <1>1, <1>2, TickFacts DEF TimersInv, TimersTyped
<1>4. \A u \in Timer \ {t} : (u \in known' <=> u \in known) /\ isSoft'[u] = isSoft[u]
  BY <1>1 DEF TimersInv, TimersTyped
<1> QED BY <1>1, <1>3, <1>4, LeaveKeeps

LEMMA ListedRem ==
    ASSUME TimersInv, NEW u \in Elems(hard) \cup Elems(soft)
    PROVE  /\ u \in Timer /\ Rem[u] \in (-MaxLate)..(T!Half - 1) /\ Rem[u] > -T!Half
           /\ Rem[u] = Rest(timeout[u], tick) /\ timeout[u] \in Ticks /\ tick \in Ticks
           /\ u \in Elems(hard) => Rem[u] >= Soonest
<1>1. u \in Timer /\ u \in known /\ TimersTyped /\ init[u] \in Periods
  BY MembersKnown DEF TimersInv, TimersTyped
<1>2. /\ u \in Elems(hard) => Rem[u] \in Soonest..(T!Half - 1)
      /\ u \in Elems(soft) => Rem[u] \in (-MaxLate)..(T!Half - 1)
  BY DEF TimersInv, InTime, Sorted
<1>3. Soonest \in {0, 1}
  BY DEF Soonest
<1>4. MaxLate \in Nat /\ MaxLate < T!Half /\ T!Half \in Int
  BY <1>1, TickFacts
<1>5. Rem[u] = Rest(timeout[u], tick) /\ timeout[u] \in Ticks /\ tick \in Ticks
  BY <1>1, RemIs DEF TimersTyped
<1>6. Rem[u] \in (-MaxLate)..(T!Half - 1)
  BY <1>2, <1>3, <1>4
<1>7. u \in Elems(hard) => Rem[u] >= Soonest
  BY <1>2, <1>3, <1>4
<1> QED BY <1>1, <1>4, <1>5, <1>6, <1>7

(* A listed timer is due when nothing is left. *)
LEMMA ListedDue ==
    ASSUME TimersInv, NEW u \in Elems(hard) \cup Elems(soft)
    PROVE  /\ T!Due(u) <=> Rem[u] <= 0
           /\ Rem[u] <= 0 => T!Late(u) = -Rem[u]
<1>1. /\ T!Minus(tick, timeout[u]) < T!Half <=> Rem[u] <= 0
      /\ Rem[u] <= 0 => T!Minus(tick, timeout[u]) = -Rem[u]
  BY ListedRem, DueIs
<1> QED BY <1>1 DEF T!Due, T!Late

(* The first timer of a list is the first one to be due. *)
LEMMA FirstIsNext ==
    ASSUME NEW s, NEW lo, Sorted(s, Rem, lo), TimersTyped, s # <<>>
    PROVE  /\ s[1] \in Elems(s) /\ s[1] \in Timer
           /\ \A u \in Elems(s) : Rem[s[1]] <= Rem[u]
<1>1. s \in Seq(Timer) /\ Head(s) = s[1] /\ Rem \in [Timer -> Int] /\ InOrder(s, Rem)
  BY RemIs DEF Sorted
<1>2. Head(s) \in Elems(s) /\ Head(s) \in Timer
  BY <1>1, HeadElem
<1>3. \A u \in Elems(s) : Rem[Head(s)] <= Rem[u]
  BY <1>1, InOrderHead
<1> QED BY <1>1, <1>2, <1>3

LEMMA TickLeft ==
    ASSUME TimersInv, tick' = (tick + 1) % TickMod, timeout' = timeout
    PROVE  \A u \in Elems(hard) \cup Elems(soft) : Rem'[u] = Rem[u] - 1
<1> SUFFICES ASSUME NEW u \in Elems(hard) \cup Elems(soft) PROVE Rem'[u] = Rem[u] - 1
  OBVIOUS
<1>1. /\ u \in Timer /\ Rem[u] > -T!Half /\ Rem[u] = Rest(timeout[u], tick)
      /\ timeout[u] \in Ticks /\ tick \in Ticks
  BY ListedRem
<1>2. Rest(timeout[u], (tick + 1) % TickMod) = Rem[u] - 1
  BY <1>1, TickPasses
<1>3. Rem'[u] = Rest(timeout[u], (tick + 1) % TickMod)
  BY <1>1 DEF Rem, Left
<1> QED BY <1>2, <1>3

LEMMA TickKeeps ==
    ASSUME TimersInv, T!Tick
    PROVE  TimersInv'
<1>1. /\ check.at = "idle" /\ tick' = (tick + 1) % TickMod /\ check' = [check EXCEPT !.at = "look"]
      /\ \A u \in Elems(soft) : T!Late(u) < MaxLate
      /\ UNCHANGED <<known, active, periodic, isSoft, init, timeout, hard, soft, local>>
  BY TimerLists DEF T!Tick, T!fields, T!lists
<1>2. service' = IF service.at # "delayed" THEN service
                 ELSE IF service.wait > 1 THEN [service EXCEPT !.wait = @ - 1]
                 ELSE [service EXCEPT !.at = "check", !.wait = 0]
  BY DEF T!Tick
<1>3. TimersTyped'
  <2>1. tick' \in Ticks
    BY <1>1, TickFacts DEF TimersInv, TimersTyped, Ticks
  <2>2. check' \in [at : CheckPlaces, timer : Timer \cup {NoTimer}]
    BY <1>1 DEF TimersInv, TimersTyped, CheckPlaces
  <2>3. TimersTyped /\ service.wait \in Int /\ service.wait - 1 \in Int /\ "check" \in ServicePlaces /\ 0 \in Int
    BY DEF TimersInv, TimersTyped, ServicePlaces
  <2>4. /\ [service EXCEPT !.at = "check", !.wait = 0]
             \in [at : ServicePlaces, timer : Timer \cup {NoTimer}, wait : Int]
        /\ [service EXCEPT !.wait = service.wait - 1]
             \in [at : ServicePlaces, timer : Timer \cup {NoTimer}, wait : Int]
    BY <2>3, ServiceMoves
  <2>5. service' \in [at : ServicePlaces, timer : Timer \cup {NoTimer}, wait : Int]
    BY <1>2, <2>3, <2>4 DEF TimersTyped
  <2> QED BY <1>1, <2>1, <2>2, <2>5 DEF TimersInv, TimersTyped
<1>4. \A u \in Elems(hard) \cup Elems(soft) : Rem'[u] = Rem[u] - 1
  BY <1>1, TickLeft
<1>5. check'.at = "look" /\ Soonest = 1 /\ Soonest' = 0
  BY <1>1 DEF TimersInv, TimersTyped, Soonest
<1>6. Sorted(hard, Rem', 0)
  <2>1. \A u \in Elems(hard) : Rem'[u] \in 0..(T!Half - 1)
    BY <1>4, <1>5, ListedRem, TickFacts
  <2>2. InOrder(hard, Rem')
    BY <1>4, ListedRem, TickFacts DEF TimersInv, InTime, Sorted, InOrder, Elems
  <2> QED BY <2>1, <2>2 DEF TimersInv, InTime, Sorted
<1>7. Sorted(soft, Rem', -MaxLate)
  <2>1. \A u \in Elems(soft) : Rem'[u] \in (-MaxLate)..(T!Half - 1)
    <3> SUFFICES ASSUME NEW u \in Elems(soft) PROVE Rem'[u] \in (-MaxLate)..(T!Half - 1)
      OBVIOUS
    <3>1. Rem[u] \in Int /\ Rem[u] <= T!Half - 1 /\ T!Half \in Int /\ MaxLate \in Nat
      BY ListedRem, TickFacts
    <3>2. Rem[u] > -MaxLate \/ (MaxLate = 0 /\ Rem[u] > 0)
      BY <1>1, <3>1, ListedDue
    <3>a. CASE Rem[u] > 0
      BY <1>4, <3>1, <3>a
    <3>b. CASE ~(Rem[u] > 0)
      BY <1>4, <3>1, <3>2, <3>b
    <3> QED BY <3>a, <3>b
  <2>2. InOrder(soft, Rem')
    BY <1>4, ListedRem, TickFacts DEF TimersInv, InTime, Sorted, InOrder, Elems
  <2> QED BY <2>1, <2>2 DEF TimersInv, InTime, Sorted
<1>8. InTime'
  BY <1>1, <1>5, <1>6, <1>7 DEF InTime
<1>9. Members'
  BY <1>1 DEF TimersInv, Members
<1>10. \A j \in Checks : Elems(local[j]) # {} => Running(j)' = Running(j) /\ Runner(j)' = Runner(j)
  BY <1>1, <1>2 DEF TimersInv, TimersTyped, InChecks, Running, Runner
<1>11. InChecks'
  BY <1>1, <1>10, MembersKnown, ChecksStay DEF TimersInv, InChecks
<1> QED BY <1>3, <1>8, <1>9, <1>11 DEF TimersInv

LEMMA FireKeeps ==
    ASSUME TimersInv, NEW k \in Checks, NEW s \in {hard, soft}, s # <<>>,
           s = (IF k = "hard" THEN hard ELSE soft), T!Take(k, s[1]), tick' = tick,
           Soonest' = Soonest, ~Running(k), Running(k)', Runner(k)' = s[1],
           \A j \in Checks \ {k} : Running(j)' = Running(j) /\ Runner(j)' = Runner(j),
           check' \in [at : CheckPlaces, timer : Timer \cup {NoTimer}],
           service' \in [at : ServicePlaces, timer : Timer \cup {NoTimer}, wait : Int]
    PROVE  TimersInv'
<1>1. TimersTyped /\ InTime /\ Members /\ InChecks
  BY DEF TimersInv
<1>a. s[1] \in Elems(s) /\ s[1] \in Timer
  BY <1>1, FirstIsNext DEF InTime
<1>b. PICK t \in Timer : t = s[1]
  BY <1>a
<1>2. t \in Elems(s) /\ t \in Elems(hard) \cup Elems(soft)
  BY <1>a, <1>b
<1>3. T!Take(k, t) /\ Runner(k)' = t
  BY <1>b
<1>4. isSoft[t] = (k = "soft")
  BY <1>1, <1>2 DEF Members, Checks, TimersTyped
<1>e. InTime' /\ Takes(k, t)
  BY <1>2, <1>3, TakeEffect, Zenon
<1>5. /\ Elems(hard') = Elems(hard) \ {t} /\ Elems(soft') = Elems(soft) \ {t}
      /\ timeout' \in [Timer -> Ticks] /\ active' = [active EXCEPT ![t] = periodic[t]]
      /\ \A u \in Timer \ {t} : Rem'[u] = Rem[u]
      /\ local' \in [Checks -> Seq(Timer)]
      /\ \A j \in Checks : IsOnce(local'[j])
                           /\ Elems(local'[j]) = IF j = k THEN {t} ELSE Elems(local[j])
  BY <1>e DEF Takes
<1>6. UNCHANGED <<known, periodic, isSoft, init>>
  BY <1>3 DEF T!Take
<1>7. t \in known
  BY <1>2, MembersKnown
<1>8. TimersTyped'
  <2>1. active' \in [Timer -> BOOLEAN]
    BY <1>1, <1>2, <1>5 DEF TimersTyped
  <2> QED BY <1>1, <1>5, <1>6, <2>1 DEF TimersTyped
<1>9. Members'
  <2>1. \A u \in Timer : u # t => active'[u] = active[u]
    BY <1>1, <1>5 DEF TimersTyped
  <2>2. \A u \in Timer : active'[u] => u \in known'
    BY <1>1, <1>6, <1>7, <2>1 DEF Members
  <2> QED BY <1>1, <1>5, <1>6, <2>1, <2>2, MembersKnown DEF Members
<1>10. InChecks'
  <2> SUFFICES ASSUME NEW j \in Checks, NEW u \in Elems(local'[j])
               PROVE  /\ Running(j)' /\ u = Runner(j)' /\ u \in known'
                      /\ u \notin Elems(hard') \cup Elems(soft') /\ isSoft'[u] = (j = "soft")
    BY <1>5 DEF InChecks
  <2>1. CASE j = k
    BY <1>3, <1>4, <1>5, <1>6, <1>7, <2>1
  <2>2. CASE j # k
    BY <1>1, <1>5, <1>6, <2>2 DEF InChecks
  <2> QED BY <2>1, <2>2
<1> QED BY <1>e, <1>8, <1>9, <1>10 DEF TimersInv

LEMMA HardFireKeeps ==
    ASSUME TimersInv, T!HardFire
    PROVE  TimersInv'
<1>1. /\ check.at = "look" /\ hard # <<>> /\ T!Take("hard", hard[1])
      /\ check' = [at |-> "call", timer |-> hard[1]] /\ UNCHANGED <<tick, service>>
  BY DEF T!HardFire
<1>2. hard[1] \in Timer
  BY <1>1, FirstIsNext DEF TimersInv, InTime
<1>3. check' \in [at : CheckPlaces, timer : Timer \cup {NoTimer}]
  BY <1>1, <1>2 DEF CheckPlaces
<1>4. /\ Soonest' = Soonest /\ ~Running("hard") /\ Running("hard")' /\ Runner("hard")' = hard[1]
      /\ \A j \in Checks \ {"hard"} : Running(j)' = Running(j) /\ Runner(j)' = Runner(j)
  BY <1>1 DEF Soonest, Running, Runner, Checks
<1>5. "hard" \in Checks /\ tick' = tick
  BY <1>1 DEF Checks
<1>6. service' \in [at : ServicePlaces, timer : Timer \cup {NoTimer}, wait : Int]
  BY <1>1 DEF TimersInv, TimersTyped
<1> QED BY <1>1, <1>3, <1>4, <1>5, <1>6, FireKeeps

LEMMA SoftFireKeeps ==
    ASSUME TimersInv, T!SoftFire
    PROVE  TimersInv'
<1>1. /\ service.at = "check" /\ soft # <<>> /\ T!Take("soft", soft[1])
      /\ service' = [service EXCEPT !.at = "call", !.timer = soft[1]] /\ UNCHANGED <<tick, check>>
  BY DEF T!SoftFire, T!At
<1>2. soft[1] \in Timer
  BY <1>1, FirstIsNext DEF TimersInv, InTime
<1>3. service' \in [at : ServicePlaces, timer : Timer \cup {NoTimer}, wait : Int]
  <2>1. "call" \in ServicePlaces /\ soft[1] \in Timer \cup {NoTimer}
    BY <1>2 DEF ServicePlaces
  <2> QED BY <1>1, <2>1, ServiceGoes DEF TimersInv
<1>4. /\ Soonest' = Soonest /\ ~Running("soft") /\ Running("soft")' /\ Runner("soft")' = soft[1]
      /\ \A j \in Checks \ {"soft"} : Running(j)' = Running(j) /\ Runner(j)' = Runner(j)
  BY <1>1 DEF Soonest, Running, Runner, Checks, TimersInv, TimersTyped
<1>5. "soft" \in Checks /\ tick' = tick
  BY <1>1 DEF Checks
<1>6. check' \in [at : CheckPlaces, timer : Timer \cup {NoTimer}]
  BY <1>1 DEF TimersInv, TimersTyped
<1> QED BY <1>1, <1>3, <1>4, <1>5, <1>6, FireKeeps

LEMMA BackKeeps ==
    ASSUME TimersInv, NEW k \in Checks, Running(k), T!Return(k, Runner(k)), tick' = tick,
           Soonest' = Soonest,
           \A j \in Checks \ {k} : Running(j)' = Running(j) /\ Runner(j)' = Runner(j),
           check' \in [at : CheckPlaces, timer : Timer \cup {NoTimer}],
           service' \in [at : ServicePlaces, timer : Timer \cup {NoTimer}, wait : Int]
    PROVE  TimersInv'
<1>1. /\ InTime' /\ Members'
      /\ timeout' \in [Timer -> Ticks] /\ active' \in [Timer -> BOOLEAN]
      /\ UNCHANGED <<known, periodic, isSoft, init>>
      /\ local' \in [Checks -> Seq(Timer)] /\ Elems(local'[k]) = {}
      /\ \A j \in Checks :
            /\ IsOnce(local'[j])
            /\ \A u \in Elems(local'[j]) :
                  u \in Elems(local[j]) /\ u \notin Elems(hard') \cup Elems(soft')
  BY ReturnEffect
<1>2. TimersTyped'
  BY <1>1 DEF TimersInv, TimersTyped
<1>3. InChecks'
  <2>1. \A j \in Checks : \A u \in Elems(local'[j]) :
           /\ u \in known' /\ isSoft'[u] = isSoft[u]
           /\ Running(j)' = Running(j) /\ Runner(j)' = Runner(j)
    BY <1>1, MembersKnown
  <2> QED BY <1>1, <2>1, ChecksStay DEF TimersInv
<1> QED BY <1>1, <1>2, <1>3 DEF TimersInv

LEMMA HardReturnKeeps ==
    ASSUME TimersInv, T!HardReturn
    PROVE  TimersInv'
<1>1. /\ check.at = "call" /\ T!Return("hard", check.timer)
      /\ check' = [at |-> "look", timer |-> NoTimer] /\ UNCHANGED <<tick, service>>
  BY DEF T!HardReturn
<1>2. check' \in [at : CheckPlaces, timer : Timer \cup {NoTimer}]
  BY <1>1 DEF CheckPlaces
<1>3. /\ Soonest' = Soonest /\ Running("hard") /\ Runner("hard") = check.timer
      /\ \A j \in Checks \ {"hard"} : Running(j)' = Running(j) /\ Runner(j)' = Runner(j)
      /\ "hard" \in Checks /\ tick' = tick
  BY <1>1 DEF Soonest, Running, Runner, Checks
<1>4. service' \in [at : ServicePlaces, timer : Timer \cup {NoTimer}, wait : Int]
  BY <1>1 DEF TimersInv, TimersTyped
<1> QED BY <1>1, <1>2, <1>3, <1>4, BackKeeps

LEMMA SoftReturnKeeps ==
    ASSUME TimersInv, T!SoftReturn
    PROVE  TimersInv'
<1>1. /\ service.at = "call" /\ T!Return("soft", service.timer)
      /\ service' = [service EXCEPT !.at = "check", !.timer = NoTimer] /\ UNCHANGED <<tick, check>>
  BY DEF T!SoftReturn, T!At
<1>2. check' \in [at : CheckPlaces, timer : Timer \cup {NoTimer}]
  BY <1>1 DEF TimersInv, TimersTyped
<1>3. /\ Soonest' = Soonest /\ Running("soft") /\ Runner("soft") = service.timer
      /\ \A j \in Checks \ {"soft"} : Running(j)' = Running(j) /\ Runner(j)' = Runner(j)
      /\ "soft" \in Checks /\ tick' = tick
  BY <1>1 DEF Soonest, Running, Runner, Checks
<1>4. service' \in [at : ServicePlaces, timer : Timer \cup {NoTimer}, wait : Int]
  <2>1. "check" \in ServicePlaces /\ NoTimer \in Timer \cup {NoTimer}
    BY DEF ServicePlaces
  <2> QED BY <1>1, <2>1, ServiceGoes DEF TimersInv
<1> QED BY <1>1, <1>2, <1>3, <1>4, BackKeeps

LEMMA HardEndKeeps ==
    ASSUME TimersInv, T!HardEnd
    PROVE  TimersInv'
<1>1. /\ check.at = "look" /\ (hard # <<>> => ~T!Due(hard[1])) /\ check' = [check EXCEPT !.at = "idle"]
      /\ UNCHANGED <<tick, known, active, periodic, isSoft, init, timeout, hard, soft, local, service>>
  BY DEF T!HardEnd, T!fields, T!lists
<1>2. TimersTyped'
  BY <1>1 DEF TimersInv, TimersTyped, CheckPlaces
<1>3. Rem' = Rem /\ Soonest = 0 /\ Soonest' = 1
  BY <1>1 DEF Rem, Soonest, TimersInv, TimersTyped
<1>4. \A u \in Elems(hard) : Rem[u] >= 1
  <2> SUFFICES ASSUME NEW u \in Elems(hard) PROVE Rem[u] >= 1
    OBVIOUS
  <2>1. hard \in Seq(Timer) /\ hard # <<>>
    BY EmptyElems DEF TimersInv, InTime, Sorted
  <2>2. hard[1] \in Elems(hard) /\ Rem[hard[1]] <= Rem[u]
    BY <2>1, FirstIsNext DEF TimersInv, InTime
  <2>3. ~(Rem[hard[1]] <= 0) /\ Rem[hard[1]] \in Int /\ Rem[u] \in Int
    BY <1>1, <2>1, <2>2, ListedDue, ListedRem
  <2> QED BY <2>2, <2>3
<1>5. InTime'
  BY <1>1, <1>3, <1>4, ListedRem, TickFacts DEF TimersInv, InTime, Sorted
<1>6. Members'
  BY <1>1 DEF TimersInv, Members
<1>7. \A j \in Checks : Elems(local[j]) # {} => Running(j)' = Running(j) /\ Runner(j)' = Runner(j)
  BY <1>1 DEF TimersInv, TimersTyped, InChecks, Running, Runner
<1>8. InChecks'
  BY <1>1, <1>7, MembersKnown, ChecksStay DEF TimersInv, InChecks
<1> QED BY <1>2, <1>5, <1>6, <1>8 DEF TimersInv

(* The timer thread looks, goes to sleep or ends its check. *)
LEMMA ServiceKeeps ==
    ASSUME TimersInv, service.at # "call", service'.at # "call", service'.timer = service.timer,
           service' \in [at : ServicePlaces, timer : Timer \cup {NoTimer}, wait : Int],
           UNCHANGED <<tick, known, active, periodic, isSoft, init, timeout, hard, soft, local, check>>
    PROVE  TimersInv'
<1>3. TimersTyped'
  BY DEF TimersInv, TimersTyped
<1>4. Soonest' = Soonest /\ Soonest \in Int
      /\ \A j \in Checks : Running(j)' = Running(j) /\ Runner(j)' = Runner(j)
  BY DEF Soonest, Running, Runner
<1>5. Soonest' <= Soonest /\ \A u \in Timer : active'[u] => u \in known'
  BY <1>4 DEF TimersInv, Members
<1> QED BY <1>3, <1>4, <1>5, ListsStay

LEMMA StepKeeps ==
    ASSUME TimersInv, NEW a \in ServicePlaces, a # "call", service.at # "call",
           service' = [service EXCEPT !.at = a],
           UNCHANGED <<tick, known, active, periodic, isSoft, init, timeout, hard, soft, local, check>>
    PROVE  TimersInv'
<1>1. service' \in [at : ServicePlaces, timer : Timer \cup {NoTimer}, wait : Int]
  BY ServiceGoes DEF TimersInv
<1>2. service'.at # "call" /\ service'.timer = service.timer
  BY DEF TimersInv, TimersTyped
<1> QED BY <1>1, <1>2, ServiceKeeps

LEMMA DelayKeeps ==
    ASSUME TimersInv, NEW w \in Int, service.at # "call",
           service' = [service EXCEPT !.at = "delay", !.wait = w],
           UNCHANGED <<tick, known, active, periodic, isSoft, init, timeout, hard, soft, local, check>>
    PROVE  TimersInv'
<1>1. "delay" \in ServicePlaces
  BY DEF ServicePlaces
<1>2. service' \in [at : ServicePlaces, timer : Timer \cup {NoTimer}, wait : Int]
  BY <1>1, ServiceMoves DEF TimersInv
<1>3. service'.at # "call" /\ service'.timer = service.timer
  BY DEF TimersInv, TimersTyped
<1> QED BY <1>2, <1>3, ServiceKeeps

LEMMA TimerNextKeeps ==
    ASSUME TimersInv, T!Next
    PROVE  TimersInv'
<1>1. CASE T!Operation
  <2>1. PICK t \in Timer : T!Setup(t) \/ T!Start(t) \/ T!Stop(t) \/ T!Detach(t) \/ T!Control(t)
    BY <1>1 DEF T!Operation
  <2>2. UNCHANGED <<tick, check>>
    BY <1>1 DEF T!Operation
  <2> QED BY <2>1, <2>2, SetupKeeps, StartKeeps, StopKeeps, DetachKeeps, ControlKeeps
<1>2. CASE T!Look
  <2>1. /\ service.at = "look"
        /\ UNCHANGED <<tick, known, active, periodic, isSoft, init, timeout, hard, soft, local, check>>
    BY <1>2 DEF T!Look, T!At, T!fields, T!lists
  <2>2. CASE soft = <<>>
    <3>1. service' = [service EXCEPT !.at = "suspend"]
      BY <1>2, <2>2 DEF T!Look, T!Goto
    <3> QED BY <2>1, <3>1, StepKeeps DEF ServicePlaces
  <2>3. CASE soft # <<>>
    <3> DEFINE wait == T!Minus(timeout[soft[1]], tick)
    <3>1. soft[1] \in Timer
      BY <2>3, FirstIsNext DEF TimersInv, InTime
    <3>2. wait \in Int
      <4>1. timeout[soft[1]] \in Ticks /\ tick \in Ticks
        BY <3>1 DEF TimersInv, TimersTyped
      <4>2. wait \in Ticks
        BY <4>1, MinusIs
      <4> QED BY <4>2 DEF Ticks
    <3>3. \/ service' = [service EXCEPT !.at = "delay", !.wait = wait]
          \/ service' = [service EXCEPT !.at = "check"]
      BY <1>2, <2>3 DEF T!Look, T!Goto
    <3> HIDE DEF wait
    <3> QED BY <2>1, <3>2, <3>3, StepKeeps, DelayKeeps DEF ServicePlaces
  <2> QED BY <2>2, <2>3
<1>3. CASE T!Sleep
  <2>1. /\ service.at \in {"suspend", "delay"}
        /\ UNCHANGED <<tick, known, active, periodic, isSoft, init, timeout, hard, soft, local, check>>
        /\ \/ service' = [service EXCEPT !.at = "gone"]
           \/ service' = [service EXCEPT !.at = "delayed"]
    BY <1>3 DEF T!Sleep, T!Decided, T!Goto, T!fields, T!lists
  <2> QED BY <2>1, StepKeeps DEF ServicePlaces
<1>4. CASE T!SoftEnd
  <2>1. /\ service.at = "check"
        /\ UNCHANGED <<tick, known, active, periodic, isSoft, init, timeout, hard, soft, local, check>>
        /\ service' = [service EXCEPT !.at = "look"]
    BY <1>4 DEF T!SoftEnd, T!At, T!Goto, T!fields, T!lists
  <2> QED BY <2>1, StepKeeps DEF ServicePlaces
<1> QED BY <1>1, <1>2, <1>3, <1>4, TickKeeps, HardFireKeeps, HardReturnKeeps, HardEndKeeps,
           SoftFireKeeps, SoftReturnKeeps DEF T!Next

-----------------------------------------------------------------------------
(* The timers within the services.                                           *)
LEMMA TimersBegin == ASSUME T!Init PROVE TimersInv
<1>1. /\ tick = 0 /\ known = {} /\ hard = <<>> /\ soft = <<>>
      /\ active = [t \in Timer |-> FALSE] /\ periodic = [t \in Timer |-> FALSE]
      /\ isSoft = [t \in Timer |-> FALSE] /\ init = [t \in Timer |-> 0]
      /\ timeout = [t \in Timer |-> 0] /\ local = [hard |-> <<>>, soft |-> <<>>]
      /\ check = [at |-> "idle", timer |-> NoTimer]
      /\ service = [at |-> "look", timer |-> NoTimer, wait |-> 0]
  BY DEF T!Init
<1>2. \A k \in Checks : local[k] = <<>>
  BY <1>1 DEF Checks
<1>3. Elems(<<>>) = {} /\ IsOnce(<<>>)
  BY DEF Elems, IsOnce
<1>4. TimersTyped
  <2>1. tick \in Ticks /\ timeout \in [Timer -> Ticks]
    BY <1>1, TickFacts
  <2>2. local \in [Checks -> Seq(Timer)]
    <3>1. <<>> \in Seq(Timer)
      OBVIOUS
    <3>2. DOMAIN local = Checks /\ local = [k \in Checks |-> local[k]]
      BY <1>1 DEF Checks
    <3> QED BY <1>2, <3>1, <3>2
  <2>3. /\ check \in [at : CheckPlaces, timer : Timer \cup {NoTimer}]
        /\ service \in [at : ServicePlaces, timer : Timer \cup {NoTimer}, wait : Int]
    BY <1>1 DEF CheckPlaces, ServicePlaces
  <2> QED BY <1>1, <2>1, <2>2, <2>3 DEF TimersTyped
<1>5. InTime
  BY <1>1, <1>3 DEF InTime, Sorted, InOrder
<1>6. Members /\ InChecks
  BY <1>1, <1>2, <1>3 DEF Members, InChecks
<1> QED BY <1>4, <1>5, <1>6 DEF TimersInv

LEMMA TimersStay ==
    ASSUME TimersInv, UNCHANGED timerVars
    PROVE  TimersInv'
<1>1. UNCHANGED <<tick, known, active, periodic, isSoft, init, timeout, hard, soft, local, check, service>>
  BY DEF timerVars
<1>2. TimersTyped'
  BY <1>1 DEF TimersInv, TimersTyped
<1>3. Rem' = Rem /\ Soonest' = Soonest
  BY <1>1 DEF Rem, Soonest
<1>4. InTime' /\ Members'
  BY <1>1, <1>3 DEF TimersInv, InTime, Members
<1>5. InChecks'
  BY <1>1 DEF TimersInv, InChecks, Running, Runner
<1> QED BY <1>2, <1>4, <1>5 DEF TimersInv

LEMMA TimersInvariant == ServiceSpec => []TimersInv
<1>1. ServiceInit => TimersInv
  BY TimersBegin DEF ServiceInit
<1>2. TimersInv /\ [ServiceNext]_serviceVars => TimersInv'
  <2> SUFFICES ASSUME TimersInv, [ServiceNext]_serviceVars PROVE TimersInv'
    OBVIOUS
  <2>1. CASE Timers
    BY <2>1, TimerNextKeeps DEF Timers
  <2>2. CASE Pointers \/ Objects \/ Devices
    <3>1. UNCHANGED timerVars
      BY <2>2 DEF Pointers, Objects, Devices
    <3> QED BY <3>1, TimersStay
  <2>3. CASE UNCHANGED serviceVars
    <3>1. UNCHANGED timerVars
      BY <2>3 DEF serviceVars
    <3> QED BY <3>1, TimersStay
  <2> QED BY <2>1, <2>2, <2>3 DEF ServiceNext
<1> QED BY <1>1, <1>2, PTL DEF ServiceSpec

LEMMA SortedListed ==
    ASSUME TimersInv, NEW s, NEW lo, Sorted(s, Rem, lo), \A u \in Elems(s) : u \in known /\ active[u]
    PROVE  T!ListSound(s)
<1>1. s \in Seq(Timer) /\ IsOnce(s) /\ InOrder(s, Rem)
  BY DEF Sorted
<1>2. \A i \in DOMAIN s : s[i] \in Elems(s) /\ s[i] \in Timer
  BY <1>1 DEF Elems
<1>3. \A i \in DOMAIN s : T!Remaining(s[i]) = Rem[s[i]]
  BY <1>2, RemIs DEF TimersInv
<1>4. \A i, j \in DOMAIN s : i < j => Rem[s[i]] <= Rem[s[j]]
  BY <1>1 DEF InOrder
<1>5. \A i, j \in DOMAIN s : i < j => T!Remaining(s[i]) <= T!Remaining(s[j])
  BY <1>3, <1>4
<1>6. T!IsOnce(s)
  BY <1>1, TimerLists
<1> QED BY <1>2, <1>5, <1>6 DEF T!ListSound

(* With any timers, whatever their functions start, stop, detach or change   *)
(* while they run: a timer is in one list at most, the timers in the lists   *)
(* are active, and each list is in the order in which they are due, across   *)
(* the wrap of rt_tick (timer.c: rt_timer_start, the two checks).            *)
THEOREM TimersStayListed == ServiceSpec => []TimersListed
<1>1. TimersInv => TimersListed
  <2> SUFFICES ASSUME TimersInv PROVE T!TimersListed
    BY DEF TimersListed
  <2>1. T!ListSound(hard) /\ T!ListSound(soft)
    BY MembersKnown, SortedListed DEF TimersInv, InTime, Members
  <2>2. /\ \A t \in Elems(hard) : ~isSoft[t]
        /\ \A t \in Elems(soft) : isSoft[t]
    BY DEF TimersInv, Members
  <2>3. \A k \in DOMAIN local : Elems(local[k]) \cap (Elems(hard) \cup Elems(soft)) = {}
    BY DEF TimersInv, InChecks, TimersTyped
  <2> QED BY <2>1, <2>2, <2>3, TimerLists DEF T!TimersListed
<1> QED BY <1>1, TimersInvariant, PTL

-----------------------------------------------------------------------------
(* The sleep of the timer thread.                                            *)
AsleepInTime(w, t) == w <= Rem[t] \/ (w <= 1 /\ Rem[t] <= 1)
WakeInv ==
    ~raced =>
        /\ service.at \in {"suspend", "gone"} => Elems(soft) = {}
        /\ service.at \in {"delay", "delayed"} =>
              \A t \in Elems(soft) : AsleepInTime(service.wait, t)

(* The soft timers that are left in the list are due when they were. *)
Shrinks == /\ Elems(soft') \subseteq Elems(soft)
           /\ \A u \in Elems(soft') : Rem'[u] = Rem[u]

LEMMA ShrinksAsleep ==
    ASSUME WakeInv, Shrinks, service' = service, raced => raced'
    PROVE  WakeInv'
BY DEF WakeInv, Shrinks, AsleepInTime

LEMMA SameShrinks ==
    ASSUME UNCHANGED <<soft, timeout, tick>>
    PROVE  Shrinks
BY DEF Shrinks, Rem

LEMMA LeftShrinks ==
    ASSUME TimersInv, NEW t \in Timer, NEW to \in Ticks, soft' = T!Unlink(soft, t),
           timeout' = [timeout EXCEPT ![t] = to], tick' = tick
    PROVE  Shrinks
<1>1. Elems(soft') = Elems(soft) \ {t}
  BY TimerLists, SortedUnlink DEF TimersInv, InTime
<1>2. \A u \in Timer \ {t} : Rem'[u] = Rem[u]
  BY RemChanges DEF TimersInv
<1>3. Elems(soft) \subseteq Timer
  BY MembersKnown
<1> QED BY <1>1, <1>2, <1>3 DEF Shrinks

LEMMA EnlistShrinks ==
    ASSUME TimersInv, NEW t \in Timer, ~isSoft[t], Enlists(t)
    PROVE  Shrinks
<1>1. Elems(soft') = Elems(soft) \ {t} /\ \A u \in Timer \ {t} : Rem'[u] = Rem[u]
  BY DEF Enlists
<1>2. Elems(soft) \subseteq Timer
  BY MembersKnown
<1> QED BY <1>1, <1>2 DEF Shrinks

(* A soft timer that is started wakes the timer thread or finds it awake.    *)
LEMMA StartAsleep ==
    ASSUME TimersInv, WakeInv, NEW t \in Timer, T!Start(t), UNCHANGED <<tick, check>>
    PROVE  WakeInv'
<1>1. Enlists(t)
  BY StartKeeps
<1>2. /\ service' = IF isSoft[t] /\ service.at \in {"gone", "delayed"}
                    THEN [service EXCEPT !.at = "check", !.wait = 0] ELSE service
      /\ raced' = (raced \/ (isSoft[t] /\ service.at \in {"suspend", "delay"}))
  BY DEF T!Start, T!Wakes, T!Suspended, T!Busy, T!Decided
<1>3. service \in [at : ServicePlaces, timer : Timer \cup {NoTimer}, wait : Int]
  BY DEF TimersInv, TimersTyped
<1>4. CASE ~isSoft[t]
  <2>1. service' = service /\ (raced => raced')
    BY <1>2, <1>4
  <2> QED BY <1>1, <1>4, <2>1, EnlistShrinks, ShrinksAsleep
<1>5. CASE isSoft[t] /\ service.at \in {"gone", "delayed"}
  <2>1. service'.at = "check"
    BY <1>2, <1>3, <1>5
  <2> QED BY <2>1 DEF WakeInv
<1>6. CASE isSoft[t] /\ service.at \notin {"gone", "delayed"}
  BY <1>2, <1>6 DEF WakeInv
<1> QED BY <1>4, <1>5, <1>6

LEMMA OperationAsleep ==
    ASSUME TimersInv, WakeInv, T!Operation
    PROVE  WakeInv'
<1>1. PICK t \in Timer : T!Setup(t) \/ T!Start(t) \/ T!Stop(t) \/ T!Detach(t) \/ T!Control(t)
  BY DEF T!Operation
<1>2. UNCHANGED <<tick, check>>
  BY DEF T!Operation
<1>3. CASE T!Setup(t) \/ T!Control(t)
  <2>1. UNCHANGED <<soft, timeout, tick, service, raced>>
    BY <1>2, <1>3 DEF T!Setup, T!Control, T!lists, T!history
  <2> QED BY <2>1, SameShrinks, ShrinksAsleep
<1>4. CASE T!Start(t)
  BY <1>2, <1>4, StartAsleep
<1>5. CASE T!Stop(t) \/ T!Detach(t)
  <2>1. UNCHANGED <<tick, service, raced>>
    BY <1>2, <1>5 DEF T!Stop, T!Detach
  <2>2. \/ soft' = T!Unlink(soft, t) /\ timeout' = [timeout EXCEPT ![t] = 0]
        \/ UNCHANGED <<soft, timeout>>
    BY <1>5 DEF T!Stop, T!Detach, T!Removed, T!lists
  <2>3. Shrinks
    BY <2>1, <2>2, LeftShrinks, SameShrinks, TickFacts
  <2> QED BY <2>1, <2>3, ShrinksAsleep
<1> QED BY <1>1, <1>3, <1>4, <1>5

LEMMA TickAsleep ==
    ASSUME TimersInv, WakeInv, T!Tick
    PROVE  WakeInv'
<1>1. /\ tick' = (tick + 1) % TickMod /\ timeout' = timeout /\ soft' = soft
      /\ raced' = (raced \/ service.at \in {"suspend", "delay"})
      /\ service' = IF service.at # "delayed" THEN service
                    ELSE IF service.wait > 1 THEN [service EXCEPT !.wait = service.wait - 1]
                    ELSE [service EXCEPT !.at = "check", !.wait = 0]
  BY DEF T!Tick, T!Decided, T!lists
<1>2. service \in [at : ServicePlaces, timer : Timer \cup {NoTimer}, wait : Int]
  BY DEF TimersInv, TimersTyped
<1>3. \A u \in Elems(soft) : Rem'[u] = Rem[u] - 1 /\ Rem[u] \in Int
  BY <1>1, TickLeft, ListedRem
<1>4. CASE service.at = "delayed" /\ service.wait > 1 /\ ~raced
  <2>1. service'.wait = service.wait - 1 /\ service'.at = "delayed" /\ service.wait \in Int
    BY <1>1, <1>2, <1>4
  <2>2. \A u \in Elems(soft) : service.wait <= Rem[u]
    <3> SUFFICES ASSUME NEW u \in Elems(soft) PROVE service.wait <= Rem[u]
      OBVIOUS
    <3>1. service.wait <= Rem[u] \/ (service.wait <= 1 /\ Rem[u] <= 1)
      BY <1>4 DEF WakeInv, AsleepInTime
    <3> QED BY <1>4, <2>1, <3>1
  <2>3. \A u \in Elems(soft') : service'.wait <= Rem'[u]
    BY <1>1, <1>3, <2>1, <2>2
  <2> QED BY <2>1, <2>3 DEF WakeInv, AsleepInTime
<1>5. CASE service.at = "delayed" /\ ~(service.wait > 1)
  <2>1. service'.at = "check"
    BY <1>1, <1>2, <1>5
  <2> QED BY <2>1 DEF WakeInv
<1>6. CASE service.at # "delayed" \/ raced
  <2>1. CASE raced
    BY <1>1, <2>1 DEF WakeInv
  <2>2. CASE ~raced
    BY <1>1, <1>6, <2>2 DEF WakeInv
  <2> QED BY <2>1, <2>2
<1> QED BY <1>4, <1>5, <1>6

LEMMA HardReturnAsleep ==
    ASSUME TimersInv, WakeInv, T!HardReturn
    PROVE  WakeInv'
<1>1. /\ T!Return("hard", check.timer) /\ UNCHANGED <<tick, service, raced>>
      /\ check.at = "call" /\ check'.at = "look"
  BY DEF T!HardReturn
<1>2. "hard" \in Checks /\ Soonest' = Soonest /\ Runner("hard") = check.timer
  BY <1>1 DEF Checks, Soonest, Runner
<1>3. CASE local["hard"] = <<>>
  <2>1. UNCHANGED <<soft, timeout>>
    BY <1>1, <1>3 DEF T!Return, T!lists
  <2> QED BY <1>1, <2>1, SameShrinks, ShrinksAsleep
<1>4. CASE local["hard"] # <<>>
  <2>1. local["hard"] \in Seq(Timer) /\ Elems(local["hard"]) # {}
    BY <1>2, <1>4, EmptyElems DEF TimersInv, TimersTyped
  <2>2. PICK u \in Elems(local["hard"]) : TRUE
    BY <2>1
  <2>3. check.timer \in known /\ ~isSoft[check.timer] /\ check.timer \in Timer
    <3>1. u = Runner("hard") /\ u \in known /\ isSoft[u] = ("hard" = "soft") /\ u \in Timer
      BY <1>2, MembersKnown DEF TimersInv, InChecks
    <3> QED BY <1>2, <3>1
  <2>4. CASE T!Enlist(check.timer)
    <3>1. Enlists(check.timer)
      BY <1>1, <1>2, <2>3, <2>4, EnlistEffect DEF TimersInv
    <3> QED BY <1>1, <2>3, <3>1, EnlistShrinks, ShrinksAsleep
  <2>5. CASE T!Retire(check.timer)
    <3>1. soft' = T!Unlink(soft, check.timer) /\ timeout' = timeout
      BY <2>5 DEF T!Retire, T!Removed
    <3>2. Elems(soft') = Elems(soft) \ {check.timer}
      BY <3>1, TimerLists, SortedUnlink DEF TimersInv, InTime
    <3>3. Rem' = Rem
      BY <1>1, <3>1 DEF Rem
    <3> QED BY <1>1, <3>2, <3>3, ShrinksAsleep DEF Shrinks
  <2> QED BY <1>1, <1>4, <2>4, <2>5 DEF T!Return
<1> QED BY <1>3, <1>4

(* The look at the list, after which the timer thread may sleep.             *)
LEMMA LookAsleep ==
    ASSUME TimersInv, WakeInv, T!Look
    PROVE  WakeInv'
<1>1. UNCHANGED <<soft, timeout, tick>>
  BY DEF T!Look, T!lists
<1>2. service \in [at : ServicePlaces, timer : Timer \cup {NoTimer}, wait : Int]
  BY DEF TimersInv, TimersTyped
<1>3. Rem' = Rem
  BY <1>1 DEF Rem
<1>4. CASE soft = <<>>
  <2>1. service' = [service EXCEPT !.at = "suspend"]
    BY <1>4 DEF T!Look, T!Goto
  <2>2. Elems(soft') = {}
    BY <1>1, <1>4 DEF Elems
  <2> QED BY <1>2, <2>1, <2>2 DEF WakeInv
<1>5. CASE soft # <<>>
  <2>1. /\ soft[1] \in Elems(soft) /\ soft[1] \in Timer
        /\ \A u \in Elems(soft) : Rem[soft[1]] <= Rem[u]
    BY <1>5, FirstIsNext DEF TimersInv, InTime
  <2>2. Rem[soft[1]] = Rest(timeout[soft[1]], tick)
    BY <2>1, RemIs DEF TimersInv
  <2>3. CASE T!Minus(timeout[soft[1]], tick) < T!Half
    <3>1. service' = [service EXCEPT !.at = "delay", !.wait = T!Minus(timeout[soft[1]], tick)]
      BY <1>5, <2>3 DEF T!Look
    <3>2. Rem[soft[1]] = T!Minus(timeout[soft[1]], tick)
      BY <2>2, <2>3 DEF Rest
    <3>3. service'.at = "delay" /\ service'.wait = Rem[soft[1]]
      BY <1>2, <3>1, <3>2
    <3>4. \A u \in Elems(soft') : service'.wait <= Rem'[u]
      BY <1>1, <1>3, <2>1, <3>3
    <3> QED BY <3>3, <3>4 DEF WakeInv, AsleepInTime
  <2>4. CASE ~(T!Minus(timeout[soft[1]], tick) < T!Half)
    <3>1. service' = [service EXCEPT !.at = "check"]
      BY <1>5, <2>4 DEF T!Look, T!Goto
    <3>2. service'.at = "check"
      BY <1>2, <3>1
    <3> QED BY <3>2 DEF WakeInv
  <2> QED BY <2>3, <2>4
<1> QED BY <1>4, <1>5

LEMMA TimerNextAsleep ==
    ASSUME TimersInv, WakeInv, T!Next
    PROVE  WakeInv'
<1>1. service \in [at : ServicePlaces, timer : Timer \cup {NoTimer}, wait : Int]
  BY DEF TimersInv, TimersTyped
<1>2. CASE T!HardFire
  <2>1. /\ hard # <<>> /\ T!Take("hard", hard[1]) /\ UNCHANGED <<tick, service, raced>>
    BY <1>2 DEF T!HardFire
  <2>2. hard[1] \in Timer
    BY <2>1, FirstIsNext DEF TimersInv, InTime
  <2>3. soft' = T!Unlink(soft, hard[1]) /\ timeout' = [timeout EXCEPT ![hard[1]] = 0]
    BY <2>1 DEF T!Take
  <2>4. Shrinks
    BY <2>1, <2>2, <2>3, LeftShrinks, TickFacts
  <2> QED BY <2>1, <2>4, ShrinksAsleep
<1>3. CASE T!HardEnd
  <2>1. UNCHANGED <<soft, timeout, tick, service, raced>>
    BY <1>3 DEF T!HardEnd, T!lists, T!history
  <2> QED BY <2>1, SameShrinks, ShrinksAsleep
<1>4. CASE T!Sleep
  <2>1. /\ service.at = "suspend" => service' = [service EXCEPT !.at = "gone"]
        /\ service.at # "suspend" => service' = [service EXCEPT !.at = "delayed"]
        /\ service.at \in {"suspend", "delay"} /\ UNCHANGED <<soft, timeout, tick, raced>>
    BY <1>4 DEF T!Sleep, T!Decided, T!Goto, T!lists, T!history
  <2>2. /\ service.at = "suspend" => service'.at = "gone"
        /\ service.at # "suspend" => service'.at = "delayed"
        /\ service'.wait = service.wait
    BY <1>1, <2>1
  <2>3. Rem' = Rem
    BY <2>1 DEF Rem
  <2> QED BY <2>1, <2>2, <2>3 DEF WakeInv, AsleepInTime
<1>5. CASE T!SoftFire \/ T!SoftReturn \/ T!SoftEnd
  <2>1. service'.at \in {"call", "check", "look"}
    BY <1>1, <1>5 DEF T!SoftFire, T!SoftReturn, T!SoftEnd, T!Goto
  <2> QED BY <2>1 DEF WakeInv
<1> QED BY <1>2, <1>3, <1>4, <1>5, OperationAsleep, TickAsleep, HardReturnAsleep, LookAsleep DEF T!Next

LEMMA WakeStays ==
    ASSUME TimersInv, WakeInv, UNCHANGED timerVars
    PROVE  WakeInv'
<1>1. UNCHANGED <<soft, timeout, tick, service, raced>>
  BY DEF timerVars
<1> QED BY <1>1, SameShrinks, ShrinksAsleep

(* The timer thread never oversleeps a soft timer: it sleeps without limit   *)
(* only while no soft timer is active, and otherwise until the first one is  *)
(* due at the latest (at the next tick if that one is due already), unless a *)
(* timer was started or a tick passed between its look at the list and its   *)
(* sleep (timer.c:800-819).                                                  *)
THEOREM TimerThreadWakes == ServiceSpec => []ServiceWakesInTime
<1>1. ServiceInit => WakeInv
  BY DEF ServiceInit, T!Init, WakeInv
<1>2. TimersInv /\ WakeInv /\ [ServiceNext]_serviceVars => WakeInv'
  <2> SUFFICES ASSUME TimersInv, WakeInv, [ServiceNext]_serviceVars PROVE WakeInv'
    OBVIOUS
  <2>1. CASE Timers
    BY <2>1, TimerNextAsleep DEF Timers
  <2>2. CASE Pointers \/ Objects \/ Devices
    <3>1. UNCHANGED timerVars
      BY <2>2 DEF Pointers, Objects, Devices
    <3> QED BY <3>1, WakeStays
  <2>3. CASE UNCHANGED serviceVars
    <3>1. UNCHANGED timerVars
      BY <2>3 DEF serviceVars
    <3> QED BY <3>1, WakeStays
  <2> QED BY <2>1, <2>2, <2>3 DEF ServiceNext
<1>3. TimersInv /\ WakeInv => ServiceWakesInTime
  <2> SUFFICES ASSUME TimersInv, WakeInv, T!Suspended, ~raced, NEW t \in T!Elems(soft)
               PROVE  /\ service.at = "delayed"
                      /\ service.wait <= T!Remaining(t) \/ (service.wait <= 1 /\ T!Remaining(t) <= 1)
    BY DEF ServiceWakesInTime, T!ServiceWakesInTime
  <2>1. t \in Elems(soft) /\ t \in Timer
    BY TimerLists, MembersKnown
  <2>2. service.at = "delayed"
    BY <2>1 DEF WakeInv, T!Suspended
  <2>3. T!Remaining(t) = Rem[t]
    BY <2>1, RemIs DEF TimersInv
  <2> QED BY <2>1, <2>2, <2>3 DEF WakeInv, AsleepInTime
<1> QED BY <1>1, <1>2, <1>3, TimersInvariant, PTL DEF ServiceSpec

-----------------------------------------------------------------------------
(* The refinement of AbsTimers: the expressions RtTimer gives for phase and  *)
(* left, and what they are in every state of the invariant.                  *)
Phase == [t \in Timer |-> CASE T!Listed(t) -> "going"
                            [] T!InCheck(t) /\ active[t] -> "again"
                            [] T!InCheck(t) /\ ~active[t] -> "once"
                            [] OTHER -> "off"]
ToGo == [t \in Timer |-> IF T!Listed(t) THEN T!Remaining(t) ELSE 0]

Queued == Elems(hard) \cup Elems(soft)
Shown(t) ==
    /\ t \in Queued => Phase[t] = "going" /\ ToGo[t] = Rem[t]
    /\ t \notin Queued => ToGo[t] = 0
    /\ \A k \in Checks : t \in Elems(local[k]) => Phase[t] = IF active[t] THEN "again" ELSE "once"
    /\ t \notin Queued /\ (\A k \in Checks : t \notin Elems(local[k])) => Phase[t] = "off"
AllShown == \A t \in Timer : Shown(t)

LEMMA PhaseShown == (TimersInv => AllShown) /\ (TimersInv => AllShown)'
<1>1. TimersInv => AllShown
  <2> SUFFICES ASSUME TimersInv, NEW t \in Timer PROVE Shown(t)
    BY DEF AllShown
  <2>1. T!Listed(t) <=> t \in Queued
    BY TimerLists DEF T!Listed, Queued
  <2>2. T!InCheck(t) <=> \E k \in Checks : t \in Elems(local[k])
    BY TimerLists DEF T!InCheck, TimersInv, TimersTyped
  <2>3. \A k \in Checks : t \in Elems(local[k]) => t \notin Queued
    BY DEF TimersInv, InChecks, Queued
  <2>4. T!Remaining(t) = Rem[t]
    BY RemIs DEF TimersInv
  <2>5. /\ Phase[t] = (CASE T!Listed(t) -> "going"
                         [] T!InCheck(t) /\ active[t] -> "again"
                         [] T!InCheck(t) /\ ~active[t] -> "once"
                         [] OTHER -> "off")
        /\ ToGo[t] = IF T!Listed(t) THEN T!Remaining(t) ELSE 0
    BY DEF Phase, ToGo
  <2>6. CASE t \in Queued
    BY <2>1, <2>2, <2>3, <2>4, <2>5, <2>6 DEF Shown
  <2>7. CASE t \notin Queued
    BY <2>1, <2>2, <2>4, <2>5, <2>7 DEF Shown
  <2> QED BY <2>6, <2>7
<1> QED BY <1>1, PTL

(* Nothing but t changes its list, its flag or the time left. *)
OthersStay(t) ==
    \A u \in Timer \ {t} :
        /\ u \in Queued' <=> u \in Queued
        /\ Rem'[u] = Rem[u] /\ active'[u] = active[u]
        /\ \A k \in Checks : u \in Elems(local'[k]) <=> u \in Elems(local[k])

LEMMA AbsPut ==
    ASSUME NEW t, NEW p, NEW n, Phase' = [Phase EXCEPT ![t] = p], ToGo' = [ToGo EXCEPT ![t] = n]
    PROVE  T!Abs!Put(t, p, n)
BY DEF T!Abs!Put, Phase, ToGo

LEMMA PutIs ==
    ASSUME TimersInv, TimersInv', NEW t \in Timer, OthersStay(t),
           NEW p, NEW n, Phase'[t] = p, ToGo'[t] = n
    PROVE  T!Abs!Put(t, p, n)
<1>1. AllShown /\ AllShown'
  BY PhaseShown
<1>2. \A u \in Timer \ {t} : Phase'[u] = Phase[u] /\ ToGo'[u] = ToGo[u]
  <2> SUFFICES ASSUME NEW u \in Timer \ {t} PROVE Phase'[u] = Phase[u] /\ ToGo'[u] = ToGo[u]
    OBVIOUS
  <2>1. Shown(u) /\ Shown(u)'
    BY <1>1 DEF AllShown
  <2>2. /\ u \in Queued' <=> u \in Queued
        /\ Rem'[u] = Rem[u] /\ active'[u] = active[u]
        /\ \A k \in Checks : u \in Elems(local'[k]) <=> u \in Elems(local[k])
    BY DEF OthersStay
  <2>3. CASE u \in Queued
    BY <2>1, <2>2, <2>3 DEF Shown
  <2>4. CASE u \notin Queued
    BY <2>1, <2>2, <2>4 DEF Shown
  <2> QED BY <2>3, <2>4
<1>3. /\ Phase = [u \in Timer |-> Phase[u]] /\ Phase' = [u \in Timer |-> Phase'[u]]
      /\ ToGo = [u \in Timer |-> ToGo[u]] /\ ToGo' = [u \in Timer |-> ToGo'[u]]
  BY DEF Phase, ToGo, T!Listed, T!InCheck, T!Remaining
<1>4. Phase' = [Phase EXCEPT ![t] = p] /\ ToGo' = [ToGo EXCEPT ![t] = n]
  BY <1>2, <1>3
<1> QED BY <1>4, AbsPut

LEMMA PhaseStays ==
    ASSUME UNCHANGED <<active, timeout, tick, hard, soft, local>>
    PROVE  UNCHANGED <<Phase, ToGo>>
BY DEF Phase, ToGo, T!Listed, T!InCheck, T!Remaining

LEMMA StutterIs ==
    ASSUME UNCHANGED <<active, timeout, tick, hard, soft, local, wanted, periodic, isSoft, init>>
    PROVE  UNCHANGED T!Abs!vars
<1>1. UNCHANGED <<Phase, ToGo>>
  BY PhaseStays
<1> QED BY <1>1 DEF T!Abs!vars, T!Abs!settings, Phase, ToGo

LEMMA ChangeIs ==
    ASSUME UNCHANGED <<active, timeout, tick, hard, soft, local, wanted>>, NEW t \in Timer,
           \A u \in Timer \ {t} : periodic'[u] = periodic[u] /\ isSoft'[u] = isSoft[u] /\ init'[u] = init[u]
    PROVE  T!Abs!Change(t)
<1>1. UNCHANGED <<Phase, ToGo>>
  BY PhaseStays
<1> QED BY <1>1 DEF T!Abs!Change, T!Abs!OnlyOf, Phase, ToGo

LEMMA EnlistsShown ==
    ASSUME TimersInv, TimersInv', NEW t \in Timer, Enlists(t), NEW n, n = init[t]
    PROVE  T!Abs!Put(t, "going", n)
<1>1. /\ t \in Queued' /\ Rem'[t] = n
      /\ OthersStay(t)
  BY DEF Enlists, OthersStay, Queued, TimersInv, TimersTyped
<1>2. Shown(t)'
  BY PhaseShown DEF AllShown
<1>3. Phase'[t] = "going" /\ ToGo'[t] = n
  BY <1>1, <1>2 DEF Shown
<1> QED BY <1>1, <1>3, PutIs

LEMMA LosesShown ==
    ASSUME TimersInv, TimersInv', NEW t \in Timer, Loses(t),
           \A u \in Timer \ {t} : Rem'[u] = Rem[u] /\ active'[u] = active[u]
    PROVE  T!Abs!Put(t, "off", 0)
<1>1. /\ t \notin Queued' /\ \A k \in Checks : t \notin Elems(local'[k])
      /\ OthersStay(t)
  BY DEF Loses, OthersStay, Queued
<1>2. Shown(t)'
  BY PhaseShown DEF AllShown
<1>3. Phase'[t] = "off" /\ ToGo'[t] = 0
  BY <1>1, <1>2 DEF Shown
<1> QED BY <1>1, <1>3, PutIs

LEMMA OperationRefines ==
    ASSUME TimersInv, TimersInv', T!Operation
    PROVE  T!Abs!Next \/ UNCHANGED T!Abs!vars
<1>1. PICK t \in Timer : T!Setup(t) \/ T!Start(t) \/ T!Stop(t) \/ T!Detach(t) \/ T!Control(t)
  BY DEF T!Operation
<1>2. UNCHANGED <<tick, check>>
  BY DEF T!Operation
<1>3. TimersTyped
  BY DEF TimersInv
<1>4. CASE T!Setup(t)
  <2>1. UNCHANGED <<timeout, tick, hard, soft, local, wanted>>
    BY <1>2, <1>4 DEF T!Setup, T!lists, T!history
  <2>2. active' = active
    <3>1. t \notin known /\ active' = [active EXCEPT ![t] = FALSE]
      BY <1>4 DEF T!Setup
    <3>2. active \in [Timer -> BOOLEAN] /\ ~active[t]
      BY <3>1 DEF TimersInv, TimersTyped, Members
    <3> QED BY <3>1, <3>2
  <2>3. PICK p, s \in BOOLEAN, n \in Periods :
           /\ periodic' = [periodic EXCEPT ![t] = p]
           /\ isSoft' = [isSoft EXCEPT ![t] = s]
           /\ init' = [init EXCEPT ![t] = n]
    BY <1>4 DEF T!Setup
  <2>4. \A u \in Timer \ {t} :
           periodic'[u] = periodic[u] /\ isSoft'[u] = isSoft[u] /\ init'[u] = init[u]
    BY <1>3, <2>3 DEF TimersTyped
  <2>5. UNCHANGED <<active, timeout, tick, hard, soft, local, wanted>>
    BY <2>1, <2>2
  <2>6. T!Abs!Change(t)
    BY <2>4, <2>5, ChangeIs
  <2> QED BY <2>6 DEF T!Abs!Next
<1>5. CASE T!Control(t)
  <2>1. UNCHANGED <<active, timeout, tick, hard, soft, local, wanted>>
    BY <1>2, <1>5 DEF T!Control, T!lists, T!history
  <2>2. isSoft' = isSoft /\ \/ UNCHANGED periodic /\ \E n \in Periods : init' = [init EXCEPT ![t] = n]
                            \/ UNCHANGED init /\ periodic' = [periodic EXCEPT ![t] = ~periodic[t]]
    BY <1>5 DEF T!Control
  <2>3. \A u \in Timer \ {t} :
           periodic'[u] = periodic[u] /\ isSoft'[u] = isSoft[u] /\ init'[u] = init[u]
    BY <1>3, <2>2 DEF TimersTyped
  <2>4. T!Abs!Change(t)
    BY <2>1, <2>3, ChangeIs
  <2> QED BY <2>4 DEF T!Abs!Next
<1>6. CASE T!Start(t)
  <2>1. Enlists(t)
    BY <1>2, <1>6, StartKeeps
  <2>2. UNCHANGED <<periodic, isSoft, init>> /\ wanted' = wanted \cup {t}
    BY <1>6 DEF T!Start, T!Enlist
  <2>3. PICK n : n = init[t]
    OBVIOUS
  <2>4. T!Abs!Put(t, "going", n)
    BY <2>1, <2>3, EnlistsShown
  <2>5. T!Abs!Start(t)
    BY <2>2, <2>3, <2>4 DEF T!Abs!Start, T!Abs!Put, T!Abs!settings
  <2> QED BY <2>5 DEF T!Abs!Next
<1>7. CASE T!Stop(t) /\ ~active[t]
  <2>1. UNCHANGED <<active, timeout, tick, hard, soft, local, wanted, periodic, isSoft, init>>
    BY <1>2, <1>7 DEF T!Stop, T!lists
  <2> QED BY <2>1, StutterIs
<1>8. CASE T!Detach(t) \/ (T!Stop(t) /\ active[t])
  <2>1. Loses(t)
    BY <1>2, <1>8, StopKeeps, DetachKeeps
  <2>2. /\ wanted' = wanted \ {t} /\ timeout' = [timeout EXCEPT ![t] = 0]
        /\ active' = [active EXCEPT ![t] = FALSE]
    BY <1>8 DEF T!Stop, T!Detach
  <2>3. \A u \in Timer \ {t} : Rem'[u] = Rem[u] /\ active'[u] = active[u]
    BY <1>2, <1>3, <2>2, RemChanges, TickFacts DEF TimersTyped
  <2>4. \A u \in Timer \ {t} :
           periodic'[u] = periodic[u] /\ isSoft'[u] = isSoft[u] /\ init'[u] = init[u]
    BY <1>3, <1>8 DEF T!Stop, T!Detach, TimersTyped
  <2>5. T!Abs!Put(t, "off", 0)
    BY <2>1, <2>3, LosesShown
  <2>6. T!Abs!Stop(t)
    BY <2>2, <2>4, <2>5 DEF T!Abs!Stop, T!Abs!OnlyOf
  <2> QED BY <2>6 DEF T!Abs!Next
<1> QED BY <1>1, <1>4, <1>5, <1>6, <1>7, <1>8

(* A timer fires when nothing is left, in the clock interrupt at once.       *)
LEMMA FireRefines ==
    ASSUME TimersInv, TimersInv', NEW k \in Checks, NEW t \in Timer, T!Take(k, t), t \in Queued,
           tick' = tick, Soonest' = Soonest, ~Running(k),
           Rem[t] <= 0, k = "hard" => Rem[t] = 0, k = "soft" => isSoft[t]
    PROVE  T!Abs!Next
<1>1. Takes(k, t)
  BY TakeEffect DEF Queued
<1>2. Elems(local[k]) = {}
  BY DEF TimersInv, InChecks
<1>3. OthersStay(t)
  <2>1. active \in [Timer -> BOOLEAN]
    BY DEF TimersInv, TimersTyped
  <2> QED BY <1>1, <1>2, <2>1 DEF OthersStay, Queued, Takes
<1>4. t \notin Queued' /\ t \in Elems(local'[k]) /\ active'[t] = periodic[t]
  BY <1>1 DEF Takes, Queued, TimersInv, TimersTyped
<1>5. PICK p : p = IF periodic[t] THEN "again" ELSE "once"
  OBVIOUS
<1>6. Shown(t) /\ Shown(t)'
  BY PhaseShown DEF AllShown
<1>7. Phase'[t] = p /\ ToGo'[t] = 0
  BY <1>4, <1>5, <1>6 DEF Shown
<1>8. T!Abs!Put(t, p, 0)
  BY <1>3, <1>7, PutIs
<1>9. Phase[t] = "going" /\ (ToGo[t] = 0 \/ (ToGo[t] < 0 /\ isSoft[t]))
  <2>1. Rem[t] \in Int
    BY ListedRem DEF Queued
  <2> QED BY <1>6, <2>1 DEF Shown, Checks
<1>10. /\ wanted' = IF periodic[t] THEN wanted ELSE wanted \ {t}
       /\ UNCHANGED <<periodic, isSoft, init>>
  BY DEF T!Take
<1>11. T!Abs!Fire(t)
  BY <1>5, <1>8, <1>9, <1>10 DEF T!Abs!Fire, T!Abs!settings, Phase, ToGo
<1> QED BY <1>11 DEF T!Abs!Next

LEMMA ReturnRefines ==
    ASSUME TimersInv, TimersInv', NEW k \in Checks, NEW t, t = Runner(k), T!Return(k, t),
           tick' = tick, Soonest' = Soonest
    PROVE  T!Abs!Next \/ UNCHANGED T!Abs!vars
<1>1. TimersTyped /\ InTime /\ InChecks
  BY DEF TimersInv
<1>2. CASE local[k] = <<>>
  <2>1. UNCHANGED <<active, timeout, tick, hard, soft, local, wanted, periodic, isSoft, init>>
    BY <1>2 DEF T!Return, T!fields, T!lists
  <2> QED BY <2>1, StutterIs
<1>3. CASE local[k] # <<>>
  <2>1. local[k] \in Seq(Timer)
    BY <1>1 DEF TimersTyped
  <2>2. PICK u \in Elems(local[k]) : TRUE
    BY <1>3, <2>1, EmptyElems
  <2>3. t \in Elems(local[k]) /\ t \in known /\ t \in Timer
    BY <2>2, MembersKnown DEF TimersInv, InChecks
  <2>4. Shown(t)
    BY <2>3, PhaseShown DEF AllShown
  <2>5. Phase[t] = IF active[t] THEN "again" ELSE "once"
    BY <2>3, <2>4 DEF Shown
  <2>6. CASE periodic[t] /\ active[t]
    <3>1. T!Enlist(t) /\ wanted' = wanted
      BY <1>3, <2>6 DEF T!Return
    <3>2. Enlists(t)
      BY <1>1, <2>3, <3>1, EnlistEffect
    <3>3. UNCHANGED <<periodic, isSoft, init>>
      BY <3>1 DEF T!Enlist
    <3>4. PICK n : n = init[t]
      OBVIOUS
    <3>5. T!Abs!Put(t, "going", n)
      BY <2>3, <3>2, <3>4, EnlistsShown
    <3>6. T!Abs!Finish(t)
      BY <2>5, <2>6, <3>1, <3>3, <3>4, <3>5 DEF T!Abs!Finish, T!Abs!Put, T!Abs!settings, Phase
    <3> QED BY <2>3, <3>6 DEF T!Abs!Next
  <2>7. CASE ~(periodic[t] /\ active[t])
    <3>1. T!Retire(t)
      BY <1>3, <2>7 DEF T!Return
    <3>2. /\ T!Removed(t) /\ wanted' = wanted \ {t}
          /\ UNCHANGED <<active, timeout, periodic, isSoft, init>>
      BY <3>1 DEF T!Retire, T!fields
    <3>3. Rem' = Rem
      BY <3>2 DEF Rem
    <3>4. Loses(t)
      BY <1>1, <2>3, <3>2, <3>3, RemovedEffect
    <3>5. T!Abs!Put(t, "off", 0)
      BY <2>3, <3>2, <3>3, <3>4, LosesShown
    <3>6. T!Abs!Finish(t)
      BY <2>5, <2>7, <3>2, <3>5 DEF T!Abs!Finish, T!Abs!settings, Phase
    <3> QED BY <2>3, <3>6 DEF T!Abs!Next
  <2> QED BY <2>6, <2>7
<1> QED BY <1>2, <1>3

LEMMA TickRefines ==
    ASSUME TimersInv, TimersInv', T!Tick
    PROVE  T!Abs!Next
<1>1. /\ check.at = "idle" /\ tick' = (tick + 1) % TickMod
      /\ UNCHANGED <<active, periodic, isSoft, init, timeout, hard, soft, local, wanted>>
  BY DEF T!Tick, T!fields, T!lists
<1>2. AllShown /\ AllShown'
  BY PhaseShown
<1>3. \A t \in Queued : Rem'[t] = Rem[t] - 1
  BY <1>1, TickLeft DEF Queued
<1>4. Queued' = Queued
  BY <1>1 DEF Queued
<1>5. \A t \in Timer : Phase[t] = "going" <=> t \in Queued
  <2> SUFFICES ASSUME NEW t \in Timer PROVE Phase[t] = "going" <=> t \in Queued
    OBVIOUS
  <2>1. Shown(t)
    BY <1>2 DEF AllShown
  <2> QED BY <2>1 DEF Shown
<1>6. \A t \in Timer : Phase[t] = "going" /\ ~isSoft[t] => ToGo[t] > 0
  <2> SUFFICES ASSUME NEW t \in Timer, t \in Queued, ~isSoft[t] PROVE ToGo[t] > 0
    BY <1>5
  <2>1. t \in Elems(hard) /\ Shown(t)
    BY <1>2 DEF AllShown, Queued, TimersInv, Members
  <2>2. Rem[t] >= 1 /\ Rem[t] \in Int
    BY <1>1, <2>1, ListedRem DEF Soonest
  <2> QED BY <2>1, <2>2 DEF Shown
<1>7. Phase' = Phase
  BY <1>1 DEF Phase, T!Listed, T!InCheck
<1>8. ToGo' = [t \in Timer |-> IF Phase[t] = "going" THEN ToGo[t] - 1 ELSE 0]
  <2>1. \A t \in Timer : ToGo'[t] = IF Phase[t] = "going" THEN ToGo[t] - 1 ELSE 0
    <3> SUFFICES ASSUME NEW t \in Timer
                 PROVE  ToGo'[t] = IF Phase[t] = "going" THEN ToGo[t] - 1 ELSE 0
      OBVIOUS
    <3>1. Shown(t) /\ Shown(t)'
      BY <1>2 DEF AllShown
    <3> QED BY <1>3, <1>4, <1>5, <3>1 DEF Shown
  <2>2. ToGo' = [t \in Timer |-> ToGo'[t]]
    BY DEF ToGo, T!Listed, T!Remaining
  <2> QED BY <2>1, <2>2
<1>9. T!Abs!Tick
  BY <1>1, <1>6, <1>7, <1>8 DEF T!Abs!Tick, T!Abs!settings, Phase, ToGo
<1> QED BY <1>9 DEF T!Abs!Next

LEMMA TimerNextRefines ==
    ASSUME TimersInv, TimersInv', T!Next
    PROVE  T!Abs!Next \/ UNCHANGED T!Abs!vars
<1>1. CASE T!HardFire
  <2>1. /\ check.at = "look" /\ hard # <<>> /\ T!Due(hard[1]) /\ T!Take("hard", hard[1])
        /\ check' = [at |-> "call", timer |-> hard[1]] /\ tick' = tick
    BY <1>1 DEF T!HardFire
  <2>2. hard[1] \in Timer /\ hard[1] \in Elems(hard)
    BY <2>1, FirstIsNext DEF TimersInv, InTime
  <2>3. Soonest = 0 /\ Soonest' = Soonest /\ ~Running("hard") /\ "hard" \in Checks
    BY <2>1 DEF Soonest, Running, Checks
  <2>4. Rem[hard[1]] <= 0 /\ Rem[hard[1]] >= 0 /\ Rem[hard[1]] \in Int
    BY <2>1, <2>2, <2>3, ListedDue, ListedRem
  <2>5. Rem[hard[1]] = 0
    BY <2>4
  <2>6. hard[1] \in Queued /\ "hard" # "soft"
    BY <2>2 DEF Queued
  <2> QED BY <2>1, <2>2, <2>3, <2>4, <2>5, <2>6, FireRefines
<1>2. CASE T!SoftFire
  <2>1. /\ service.at = "check" /\ soft # <<>> /\ T!Due(soft[1]) /\ T!Take("soft", soft[1])
        /\ UNCHANGED <<tick, check>>
    BY <1>2 DEF T!SoftFire, T!At
  <2>2. soft[1] \in Timer /\ soft[1] \in Elems(soft)
    BY <2>1, FirstIsNext DEF TimersInv, InTime
  <2>3. Soonest' = Soonest /\ ~Running("soft") /\ "soft" \in Checks /\ tick' = tick
    BY <2>1 DEF Soonest, Running, Checks
  <2>4. Rem[soft[1]] <= 0
    BY <2>1, <2>2, ListedDue
  <2>5. isSoft[soft[1]] /\ soft[1] \in Queued /\ "hard" # "soft"
    BY <2>2 DEF TimersInv, Members, Queued
  <2> QED BY <2>1, <2>2, <2>3, <2>4, <2>5, FireRefines
<1>3. CASE T!HardReturn
  <2>1. /\ check.at = "call" /\ check'.at = "look" /\ T!Return("hard", check.timer) /\ tick' = tick
    BY <1>3 DEF T!HardReturn
  <2>2. Soonest' = Soonest /\ "hard" \in Checks /\ Runner("hard") = check.timer
    BY <2>1 DEF Soonest, Checks, Runner
  <2> QED BY <2>1, <2>2, ReturnRefines
<1>4. CASE T!SoftReturn
  <2>1. /\ UNCHANGED <<tick, check>> /\ T!Return("soft", service.timer)
    BY <1>4 DEF T!SoftReturn
  <2>2. Soonest' = Soonest /\ "soft" \in Checks /\ Runner("soft") = service.timer /\ tick' = tick
    BY <2>1 DEF Soonest, Checks, Runner
  <2> QED BY <2>1, <2>2, ReturnRefines
<1>5. CASE T!HardEnd \/ T!Look \/ T!Sleep \/ T!SoftEnd
  <2>1. UNCHANGED <<active, timeout, tick, hard, soft, local, wanted, periodic, isSoft, init>>
    BY <1>5 DEF T!HardEnd, T!Look, T!Sleep, T!SoftEnd, T!fields, T!lists, T!history
  <2> QED BY <2>1, StutterIs
<1> QED BY <1>1, <1>2, <1>3, <1>4, <1>5, OperationRefines, TickRefines DEF T!Next

(* The lists of timer.c implement AbsTimers: a timer that is started fires   *)
(* when its interval is over and not before, in the clock interrupt in that  *)
(* very tick, never once it is stopped, and is armed again after its         *)
(* function unless that, or somebody meanwhile, stopped it.                  *)
THEOREM TimersImplement == ServiceSpec => TimersKeepPromises
<1>1. ServiceInit => T!Abs!Init
  <2> SUFFICES ASSUME ServiceInit PROVE T!Abs!Init
    OBVIOUS
  <2>1. T!Init /\ TimersInv
    BY TimersBegin DEF ServiceInit
  <2>2. hard = <<>> /\ soft = <<>> /\ \A k \in Checks : local[k] = <<>>
    BY <2>1 DEF T!Init, Checks
  <2>3. Elems(<<>>) = {}
    BY DEF Elems
  <2>4. \A t \in Timer : Phase[t] = "off" /\ ToGo[t] = 0
    <3> SUFFICES ASSUME NEW t \in Timer PROVE Phase[t] = "off" /\ ToGo[t] = 0
      OBVIOUS
    <3>1. Shown(t)
      BY <2>1, PhaseShown DEF AllShown
    <3> QED BY <2>2, <2>3, <3>1 DEF Shown, Queued
  <2>5. Phase = [t \in Timer |-> "off"] /\ ToGo = [t \in Timer |-> 0]
    BY <2>4 DEF Phase, ToGo
  <2>6. wanted = {} /\ TimersTyped
    BY <2>1 DEF T!Init, TimersInv
  <2> QED BY <2>5, <2>6 DEF T!Abs!Init, TimersTyped, Phase, ToGo
<1>2. TimersInv /\ TimersInv' /\ [ServiceNext]_serviceVars => [T!Abs!Next]_(T!Abs!vars)
  <2> SUFFICES ASSUME TimersInv, TimersInv', [ServiceNext]_serviceVars
               PROVE  T!Abs!Next \/ UNCHANGED T!Abs!vars
    OBVIOUS
  <2>1. CASE Timers
    BY <2>1, TimerNextRefines DEF Timers
  <2>2. CASE ~Timers
    <3>1. UNCHANGED timerVars
      BY <2>2 DEF ServiceNext, Pointers, Objects, Devices, serviceVars
    <3>2. UNCHANGED <<active, timeout, tick, hard, soft, local, wanted, periodic, isSoft, init>>
      BY <3>1 DEF timerVars
    <3> QED BY <3>2, StutterIs
  <2> QED BY <2>1, <2>2
<1> QED BY <1>1, <1>2, TimersInvariant, PTL
        DEF ServiceSpec, TimersKeepPromises, T!TimersKeepPromises, T!Abs!Spec

-----------------------------------------------------------------------------
(* The containers: what the calls in progress know of their objects.         *)
Places == {"idle", "search", "found", "fields", "insert", "reset", "unlink"}
Calls == {"none", "find", "init", "allocate", "register", "detach"}
Jobs == [at : Places, op : Calls, obj : Object \cup {NoObject}, name : Name \cup {""},
         node : Object \cup {NoObject}]

ObjectsTyped ==
    /\ list \in Seq(Object) /\ IsOnce(list)
    /\ type \in [Object -> {"null", "static", "dynamic"}]
    /\ name \in [Object -> Name \cup {""}]
    /\ lock \in Thread \cup {NoThread}
    /\ job \in [Thread -> Jobs]
    /\ present \in [Thread -> SUBSET Object]

Linked(o) == o \in Elems(list)
Typed(o) == type[o] # "null"

(* What a call knows of the object it sets up or takes down. *)
Stage(t) ==
    LET o == job[t].obj
    IN  /\ o \notin IrqObject
        /\ job[t].at = "idle" => o = NoObject
        /\ job[t].at \in {"search", "found"} =>
              IF o = NoObject THEN job[t].op = "find"
              ELSE job[t].op \in {"init", "register"} /\ ~Typed(o) /\ ~Linked(o)
        /\ job[t].at = "fields" => o # NoObject /\ ~Typed(o) /\ ~Linked(o)
        /\ job[t].at = "insert" => o # NoObject /\ Typed(o) /\ ~Linked(o)
        /\ job[t].at = "reset" => o # NoObject /\ Typed(o) /\ Linked(o)
        /\ job[t].at = "unlink" => o # NoObject /\ ~Typed(o) /\ Linked(o)

(* An object belongs to one call at most; the type of an object that belongs *)
(* to none says whether it is in the list.                                   *)
Claims ==
    /\ \A t \in Thread : Stage(t)
    /\ \A t, u \in Thread : job[t].obj = job[u].obj => t = u \/ job[t].obj = NoObject
    /\ \A o \in Object : D!Unclaimed(o) => (Typed(o) <=> Linked(o))

LEMMA ObjectFacts ==
    /\ Dynamic \subseteq Object /\ IrqObject \subseteq Object /\ IrqObject \cap Dynamic = {}
    /\ NoThread \notin Thread /\ NoObject \notin Object /\ Standalone \subseteq Object
BY DevicesConfigured DEF D!ObjectAssumption, D!DeviceAssumption

(* Only the call of t goes on, or ends. *)
OnlyJob(t) == /\ job' \in [Thread -> Jobs]
              /\ \A u \in Thread \ {t} : job'[u] = job[u]
JobAt(t, a, p, o, n) == /\ OnlyJob(t)
                        /\ job'[t].at = a /\ job'[t].op = p /\ job'[t].obj = o /\ job'[t].name = n

LEMMA JobGoes ==
    ASSUME job \in [Thread -> Jobs], NEW t \in Thread, NEW a \in Places, D!Goto(t, a)
    PROVE  JobAt(t, a, job[t].op, job[t].obj, job[t].name) /\ job'[t].node = job[t].node
<1>1. job' = [job EXCEPT ![t].at = a] /\ job[t] \in Jobs
  BY DEF D!Goto
<1>2. [job[t] EXCEPT !.at = a] \in Jobs
  BY <1>1 DEF Jobs
<1>3. job' = [job EXCEPT ![t] = [job[t] EXCEPT !.at = a]]
  BY <1>1
<1>4. OnlyJob(t) /\ job'[t] = [job[t] EXCEPT !.at = a]
  BY <1>2, <1>3 DEF OnlyJob
<1>5. /\ job'[t].at = a /\ job'[t].op = job[t].op /\ job'[t].obj = job[t].obj
      /\ job'[t].name = job[t].name /\ job'[t].node = job[t].node
  BY <1>1, <1>4 DEF Jobs
<1> QED BY <1>4, <1>5 DEF JobAt

LEMMA IdleIs ==
    /\ D!Idle \in Jobs /\ D!Idle.at = "idle" /\ D!Idle.op = "none" /\ D!Idle.obj = NoObject
    /\ D!Idle.name = ""
BY DEF D!Idle, Jobs, Places, Calls

LEMMA JobEnds ==
    ASSUME job \in [Thread -> Jobs], NEW t \in Thread, job' = [job EXCEPT ![t] = D!Idle]
    PROVE  JobAt(t, "idle", "none", NoObject, "")
BY IdleIs DEF JobAt, OnlyJob

(* A search begins: the scheduler is locked, at the first node.              *)
LEMMA SearchBegins ==
    ASSUME ObjectsTyped, NEW t \in Thread, NEW j \in Jobs, D!Search(t, j)
    PROVE  /\ JobAt(t, "search", j.op, j.obj, j.name) /\ job'[t].node = D!First
           /\ lock = NoThread /\ lock' = t
           /\ present' \in [Thread -> SUBSET Object]
           /\ \A u \in Thread \ {t} : present'[u] = present[u]
           /\ present'[t] = {o \in Elems(list) : name[o] = j.name}
<1>1. /\ job' = [job EXCEPT ![t] = [j EXCEPT !.at = "search", !.node = D!First]]
      /\ present' = [present EXCEPT ![t] = {o \in Elems(list) : name[o] = j.name}]
      /\ lock = NoThread /\ lock' = t
  BY ObjectLists DEF D!Search
<1>2. D!First \in Object \cup {NoObject}
  <2>1. list \in Seq(Object)
    BY DEF ObjectsTyped
  <2>2. list # <<>> => list[1] \in Object
    BY <2>1
  <2> QED BY <2>2 DEF D!First
<1>3. "search" \in Places
  BY DEF Places
<1>4. [j EXCEPT !.at = "search", !.node = D!First] \in Jobs
  BY <1>2, <1>3 DEF Jobs
<1>5. JobAt(t, "search", j.op, j.obj, j.name) /\ job'[t].node = D!First
  BY <1>1, <1>4 DEF JobAt, OnlyJob, ObjectsTyped, Jobs
<1>6. Elems(list) \subseteq Object
  BY ElemsType DEF ObjectsTyped
<1> QED BY <1>1, <1>5, <1>6 DEF ObjectsTyped

(* A step of the call of t about the object o, which nobody else has.        *)
LEMMA ClaimsKept ==
    ASSUME ObjectsTyped, Claims, NEW t \in Thread, NEW o \in Object \cup {NoObject}, OnlyJob(t),
           \A p \in Object \ {o} : (Typed(p)' <=> Typed(p)) /\ (Linked(p)' <=> Linked(p)),
           job[t].obj = o \/ (job[t].obj = NoObject /\ D!Unclaimed(o)) \/ o = NoObject,
           job[t].obj \in {o, NoObject}, job'[t].obj \in {o, NoObject},
           Stage(t)',
           o \in Object /\ job'[t].obj = NoObject => (Typed(o)' <=> Linked(o)')
    PROVE  Claims'
<1>1. \A u \in Thread \ {t} : job'[u] = job[u] /\ job[u].obj \in Object \cup {NoObject}
  BY DEF OnlyJob, ObjectsTyped, Jobs
<1>2. \A u \in Thread \ {t} : job[u].obj = NoObject \/ job[u].obj # o
  BY DEF Claims, D!Unclaimed
<1>3. \A u \in Thread : Stage(u)'
  <2> SUFFICES ASSUME NEW u \in Thread, u # t PROVE Stage(u)'
    OBVIOUS
  <2>1. Stage(u) /\ job'[u] = job[u]
    BY <1>1 DEF Claims
  <2>2. job[u].obj # NoObject =>
           (Typed(job[u].obj)' <=> Typed(job[u].obj)) /\ (Linked(job[u].obj)' <=> Linked(job[u].obj))
    BY <1>1, <1>2
  <2>3. job[u].obj = NoObject \/ (job[u].obj \in Object /\ job[u].obj # o)
    BY <1>1, <1>2
  <2> QED BY <2>1, <2>2, <2>3 DEF Stage, Typed, Linked
<1>4. \A u, v \in Thread : job'[u].obj = job'[v].obj => u = v \/ job'[u].obj = NoObject
  BY <1>1, <1>2 DEF Claims
<1>5. \A p \in Object : D!Unclaimed(p)' => (Typed(p)' <=> Linked(p)')
  <2> SUFFICES ASSUME NEW p \in Object, D!Unclaimed(p)' PROVE Typed(p)' <=> Linked(p)'
    OBVIOUS
  <2>1. \A u \in Thread : job'[u].obj # p
    BY DEF D!Unclaimed
  <2>2. CASE p = o
    BY <2>1, <2>2, ObjectFacts
  <2>3. CASE p # o
    <3>1. D!Unclaimed(p)
      BY <1>1, <2>1, <2>3, ObjectFacts DEF D!Unclaimed
    <3> QED BY <2>3, <3>1 DEF Claims
  <2> QED BY <2>2, <2>3
<1> QED BY <1>3, <1>4, <1>5 DEF Claims

(* An interrupt only sets up objects that no thread sets up.                 *)
LEMMA IrqClaims ==
    ASSUME ObjectsTyped, Claims, NEW o \in IrqObject, job' = job,
           \A p \in Object \ {o} : (Typed(p)' <=> Typed(p)) /\ (Linked(p)' <=> Linked(p)),
           Typed(o)', Linked(o)'
    PROVE  Claims' /\ D!Unclaimed(o)
<1>1. \A u \in Thread : job[u].obj # o
  BY DEF Claims, Stage
<1>2. \A u \in Thread : job[u].obj \in Object \cup {NoObject}
  BY DEF ObjectsTyped, Jobs
<1>3. \A u \in Thread : Stage(u)'
  <2> SUFFICES ASSUME NEW u \in Thread PROVE Stage(u)'
    OBVIOUS
  <2>1. Stage(u)
    BY DEF Claims
  <2>2. job[u].obj # NoObject =>
           (Typed(job[u].obj)' <=> Typed(job[u].obj)) /\ (Linked(job[u].obj)' <=> Linked(job[u].obj))
    BY <1>1, <1>2
  <2> QED BY <2>1, <2>2 DEF Stage, Typed, Linked
<1>4. \A p \in Object : D!Unclaimed(p)' => (Typed(p)' <=> Linked(p)')
  BY DEF Claims, D!Unclaimed
<1> QED BY <1>1, <1>3, <1>4 DEF Claims, D!Unclaimed

(* A search stands on an object of the list, in front of every object that   *)
(* it seeks and that has been in the list all the while.                     *)
Ahead(n, o) == \E i, j \in DOMAIN list : i <= j /\ list[i] = n /\ list[j] = o
Walks(t) ==
    /\ job[t].node \in Elems(list) \cup {NoObject}
    /\ job[t].op # "init" =>
          \A o \in present[t] : name[o] = job[t].name /\ Ahead(job[t].node, o)
Searching ==
    \A t \in Thread :
        /\ job[t].at = "search" <=> lock = t
        /\ job[t].at = "search" => Walks(t)
        /\ job[t].at = "found" /\ job[t].node = NoObject => present[t] = {}

ObjectsInv == ObjectsTyped /\ Claims /\ Searching

(* Nobody searches while the call of t does something else.                  *)
LEMMA SearchingKept ==
    ASSUME ObjectsInv, NEW t \in Thread, D!Runs(t), OnlyJob(t),
           job'[t].at \notin {"search", "found"},
           lock' = IF job[t].at = "search" THEN NoThread ELSE lock,
           \A u \in Thread \ {t} : present'[u] \subseteq present[u]
    PROVE  Searching'
<1>1. Searching /\ lock \in {NoThread, t} /\ NoThread \notin Thread
  BY ObjectFacts DEF ObjectsInv, D!Runs
<1>2. job[t].at = "search" <=> lock = t
  BY <1>1 DEF Searching
<1>3. lock' = NoThread
  BY <1>1, <1>2
<1>4. \A u \in Thread \ {t} : job[u].at # "search" /\ job'[u] = job[u]
  BY <1>1 DEF Searching, OnlyJob
<1>5. \A u \in Thread \ {t} : job[u].at = "found" /\ job[u].node = NoObject => present'[u] = {}
  BY <1>1 DEF Searching
<1> QED BY <1>1, <1>3, <1>4, <1>5 DEF Searching

LEMMA SearchingBegins ==
    ASSUME ObjectsInv, NEW t \in Thread, NEW j \in Jobs, D!Search(t, j), UNCHANGED <<list, name>>
    PROVE  Searching'
<1>1. /\ JobAt(t, "search", j.op, j.obj, j.name) /\ job'[t].node = D!First
      /\ lock = NoThread /\ lock' = t
      /\ \A u \in Thread \ {t} : present'[u] = present[u]
      /\ present'[t] = {o \in Elems(list) : name[o] = j.name}
  BY SearchBegins DEF ObjectsInv
<1>2. \A u \in Thread \ {t} : job'[u] = job[u] /\ job[u].at # "search"
  BY <1>1, ObjectFacts DEF JobAt, OnlyJob, ObjectsInv, Searching
<1>3. Walks(t)'
  <2>1. list \in Seq(Object)
    BY DEF ObjectsInv, ObjectsTyped
  <2>2. D!First \in Elems(list) \cup {NoObject}
    <3>1. list # <<>> => list[1] \in Elems(list)
      BY <2>1 DEF Elems
    <3> QED BY <3>1 DEF D!First
  <2>3. \A o \in Elems(list) : Ahead(D!First, o)
    <3> SUFFICES ASSUME NEW o \in Elems(list) PROVE Ahead(D!First, o)
      OBVIOUS
    <3>1. PICK k \in DOMAIN list : list[k] = o
      BY DEF Elems
    <3>2. 1 \in DOMAIN list /\ 1 <= k /\ list # <<>>
      BY <2>1
    <3> QED BY <3>1, <3>2 DEF Ahead, D!First
  <2>4. \A o \in present'[t] : name'[o] = job'[t].name /\ Ahead(D!First, o)
    BY <1>1, <2>3 DEF JobAt
  <2>5. \A n, o : Ahead(n, o)' <=> Ahead(n, o)
    BY DEF Ahead
  <2>6. PICK f : f = D!First
    OBVIOUS
  <2> QED BY <1>1, <2>2, <2>4, <2>5, <2>6 DEF Walks
<1>4. job'[t].at = "search"
  BY <1>1 DEF JobAt
<1> QED BY <1>1, <1>2, <1>3, <1>4, ObjectFacts DEF ObjectsInv, Searching

(* The node behind one of the list. *)
LEMMA BehindIs ==
    ASSUME ObjectsTyped, NEW i \in DOMAIN list
    PROVE  D!Behind(list[i]) = IF i = Len(list) THEN NoObject ELSE list[i + 1]
<1>1. \A k \in DOMAIN list : list[k] = list[i] => k = i
  BY DEF ObjectsTyped, IsOnce
<1>2. (CHOOSE k \in DOMAIN list : list[k] = list[i]) = i
  BY <1>1
<1> QED BY <1>2 DEF D!Behind

LEMMA BehindWalks ==
    ASSUME ObjectsInv, NEW n \in Elems(list)
    PROVE  /\ D!Behind(n) \in Elems(list) \cup {NoObject}
           /\ \A o \in Object : Ahead(n, o) /\ o # n => Ahead(D!Behind(n), o)
<1>1. ObjectsTyped /\ list \in Seq(Object) /\ IsOnce(list)
  BY DEF ObjectsInv, ObjectsTyped
<1>2. PICK i \in DOMAIN list : list[i] = n
  BY DEF Elems
<1>3. D!Behind(n) = IF i = Len(list) THEN NoObject ELSE list[i + 1]
  BY <1>1, <1>2, BehindIs
<1>4. i \in 1..Len(list) /\ DOMAIN list = 1..Len(list) /\ Len(list) \in Nat
  BY <1>1, <1>2
<1>5. D!Behind(n) \in Elems(list) \cup {NoObject}
  <2>1. i # Len(list) => i + 1 \in DOMAIN list
    BY <1>4
  <2> QED BY <1>3, <2>1 DEF Elems
<1>6. ASSUME NEW o \in Object, Ahead(n, o), o # n PROVE Ahead(D!Behind(n), o)
  <2>1. PICK k, j \in DOMAIN list : k <= j /\ list[k] = n /\ list[j] = o
    BY <1>6 DEF Ahead
  <2>2. k = i
    BY <1>1, <1>2, <2>1 DEF IsOnce
  <2>3. i # j
    BY <1>2, <1>6, <2>1
  <2>4. i # Len(list) /\ i + 1 \in DOMAIN list /\ i + 1 <= j
    BY <1>4, <2>1, <2>2, <2>3
  <2> QED BY <1>3, <2>1, <2>4 DEF Ahead
<1> QED BY <1>5, <1>6

LEMMA CompareKeeps ==
    ASSUME ObjectsInv, NEW t \in Thread, D!Compare(t)
    PROVE  /\ ObjectsInv' /\ OnlyJob(t) /\ UNCHANGED <<list, type, name, present>>
           /\ job'[t].op = job[t].op /\ job'[t].obj = job[t].obj /\ job'[t].name = job[t].name
           /\ job[t].at = "search" /\ job'[t].at \in {"search", "found", "fields"}
           /\ job'[t].at = "found" => job[t].op # "init" /\ job'[t].node = job[t].node
           /\ job'[t].at = "fields" => job[t].op = "init"
<1>1. /\ ObjectsTyped /\ Claims /\ Searching /\ job[t].at = "search" /\ D!Runs(t)
      /\ UNCHANGED <<list, type, name, present>> /\ job \in [Thread -> Jobs]
  BY DEF ObjectsInv, ObjectsTyped, D!Compare
<1>2. Walks(t) /\ lock = t
  BY <1>1 DEF Searching
<1>3. PICK n : n = job[t].node
  OBVIOUS
<1>4. \/ /\ lock' = NoThread /\ job[t].op = "init" /\ D!Goto(t, "fields")
      \/ /\ lock' = NoThread /\ job[t].op # "init" /\ D!Goto(t, "found")
      \/ /\ lock' = lock /\ n \in Elems(list) /\ (job[t].op = "init" \/ name[n] # job[t].name)
         /\ job' = [job EXCEPT ![t].node = D!Behind(n)]
  BY <1>3, ObjectLists DEF D!Compare
<1>5. \A u \in Thread \ {t} : job[u].at # "search"
  BY <1>1, <1>2 DEF Searching
<1>6. ASSUME OnlyJob(t), job'[t].obj = job[t].obj, Stage(t)' PROVE Claims'
  <2>1. job[t].obj \in Object \cup {NoObject}
    BY <1>1 DEF Jobs
  <2>2. \A p \in Object : (Typed(p)' <=> Typed(p)) /\ (Linked(p)' <=> Linked(p))
    BY <1>1 DEF Typed, Linked
  <2>3. PICK o \in Object \cup {NoObject} : o = job[t].obj
    BY <2>1
  <2>4. o \in Object => job'[t].obj # NoObject
    BY <1>6, <2>3, ObjectFacts
  <2> QED BY <1>1, <1>6, <2>2, <2>3, <2>4, ClaimsKept
<1>7. CASE lock' = NoThread /\ job[t].op = "init" /\ D!Goto(t, "fields")
  <2>1. "fields" \in Places
    BY DEF Places
  <2>2. JobAt(t, "fields", job[t].op, job[t].obj, job[t].name)
    BY <1>1, <1>7, <2>1, JobGoes
  <2>3. /\ OnlyJob(t) /\ job'[t].at = "fields" /\ job'[t].op = job[t].op
        /\ job'[t].obj = job[t].obj /\ job'[t].name = job[t].name
    BY <2>2 DEF JobAt
  <2>4. Stage(t)'
    BY <1>1, <1>7, <2>3 DEF Claims, Stage, Typed, Linked
  <2>5. Searching'
    <3>1. \A u \in Thread \ {t} : present'[u] \subseteq present[u]
      BY <1>1
    <3>2. lock' = IF job[t].at = "search" THEN NoThread ELSE lock
      BY <1>1, <1>7
    <3>3. job'[t].at \notin {"search", "found"}
      BY <2>3
    <3> QED BY <1>1, <2>3, <3>1, <3>2, <3>3, SearchingKept
  <2>6. ObjectsTyped'
    BY <1>1, <1>7, <2>3 DEF ObjectsTyped, OnlyJob
  <2> QED BY <1>1, <1>6, <1>7, <2>3, <2>4, <2>5, <2>6 DEF ObjectsInv
<1>8. CASE lock' = NoThread /\ job[t].op # "init" /\ D!Goto(t, "found")
  <2>1. "found" \in Places
    BY DEF Places
  <2>2. JobAt(t, "found", job[t].op, job[t].obj, job[t].name) /\ job'[t].node = job[t].node
    BY <1>1, <1>8, <2>1, JobGoes
  <2>3. /\ OnlyJob(t) /\ job'[t].at = "found" /\ job'[t].op = job[t].op
        /\ job'[t].obj = job[t].obj /\ job'[t].name = job[t].name /\ job'[t].node = job[t].node
    BY <2>2 DEF JobAt
  <2>4. Stage(t)'
    BY <1>1, <2>3 DEF Claims, Stage, Typed, Linked
  <2>5. job[t].node = NoObject => present'[t] = {}
    <3> SUFFICES ASSUME job[t].node = NoObject, NEW o \in present[t] PROVE FALSE
      BY <1>1
    <3>1. Ahead(NoObject, o)
      BY <1>2, <1>8 DEF Walks
    <3>2. Elems(list) \subseteq Object
      BY <1>1, ElemsType DEF ObjectsTyped
    <3> QED BY <3>1, <3>2, ObjectFacts DEF Ahead, Elems
  <2>6. Searching'
    BY <1>1, <1>5, <1>8, <2>3, <2>5, ObjectFacts DEF Searching, OnlyJob
  <2>7. ObjectsTyped'
    BY <1>1, <1>8, <2>3 DEF ObjectsTyped, OnlyJob
  <2> QED BY <1>1, <1>6, <1>8, <2>3, <2>4, <2>6, <2>7 DEF ObjectsInv
<1>9. CASE /\ lock' = lock /\ n \in Elems(list) /\ (job[t].op = "init" \/ name[n] # job[t].name)
           /\ job' = [job EXCEPT ![t].node = D!Behind(n)]
  <2>1. PICK b \in Elems(list) \cup {NoObject} :
           b = D!Behind(n) /\ \A o \in Object : Ahead(n, o) /\ o # n => Ahead(b, o)
    BY <1>9, BehindWalks
  <2>2. b \in Object \cup {NoObject}
    BY <1>1, <2>1, ElemsType DEF ObjectsTyped
  <2>3. [job[t] EXCEPT !.node = b] \in Jobs /\ job' = [job EXCEPT ![t] = [job[t] EXCEPT !.node = b]]
    BY <1>1, <1>9, <2>1, <2>2 DEF Jobs
  <2>4. OnlyJob(t) /\ job'[t] = [job[t] EXCEPT !.node = b]
    BY <1>1, <2>3 DEF OnlyJob
  <2>5. /\ job'[t].at = "search" /\ job'[t].op = job[t].op
        /\ job'[t].obj = job[t].obj /\ job'[t].name = job[t].name /\ job'[t].node = b
    BY <1>1, <2>4 DEF Jobs
  <2>6. Stage(t)'
    BY <1>1, <2>5 DEF Claims, Stage, Typed, Linked
  <2>7. Walks(t)'
    <3>1. job[t].op # "init" => \A o \in present[t] : name[o] = job[t].name /\ Ahead(b, o)
      <4> SUFFICES ASSUME job[t].op # "init", NEW o \in present[t]
                   PROVE  name[o] = job[t].name /\ Ahead(b, o)
        OBVIOUS
      <4>1. name[o] = job[t].name /\ Ahead(n, o) /\ o \in Object
        BY <1>1, <1>2, <1>3 DEF Walks, ObjectsTyped
      <4>2. o # n
        BY <1>9, <4>1
      <4> QED BY <2>1, <4>1, <4>2
    <3>2. \A m, o : Ahead(m, o)' <=> Ahead(m, o)
      BY <1>1 DEF Ahead
    <3> QED BY <1>1, <2>1, <2>5, <3>1, <3>2 DEF Walks
  <2>8. Searching'
    BY <1>1, <1>2, <1>5, <1>9, <2>4, <2>5, <2>7 DEF Searching, OnlyJob
  <2>9. ObjectsTyped'
    BY <1>1, <1>9, <2>4 DEF ObjectsTyped, OnlyJob
  <2> QED BY <1>1, <1>6, <2>4, <2>5, <2>6, <2>8, <2>9 DEF ObjectsInv
<1> QED BY <1>4, <1>7, <1>8, <1>9

(* The list gains or loses o. *)
LEMMA LinkEffect ==
    ASSUME ObjectsTyped, NEW o \in Object, ~Linked(o), list' = D!PushFront(list, o)
    PROVE  /\ list' \in Seq(Object) /\ IsOnce(list') /\ Linked(o)'
           /\ \A p \in Object \ {o} : Linked(p)' <=> Linked(p)
<1>1. list \in Seq(Object) /\ IsOnce(list) /\ o \notin Elems(list)
  BY DEF ObjectsTyped, Linked
<1>2. list' = PushFront(list, o)
  BY ObjectLists
<1>a. /\ PushFront(list, o) \in Seq(Object)
      /\ Elems(PushFront(list, o)) = Elems(list) \cup {o} /\ IsOnce(PushFront(list, o))
  BY <1>1, PushFrontFacts, Zenon
<1>3. list' \in Seq(Object) /\ Elems(list') = Elems(list) \cup {o} /\ IsOnce(list')
  BY <1>2, <1>a
<1> QED BY <1>3 DEF Linked

LEMMA UnlinkEffect ==
    ASSUME ObjectsTyped, NEW o \in Object, list' = D!Unlink(list, o)
    PROVE  /\ list' \in Seq(Object) /\ IsOnce(list') /\ ~Linked(o)'
           /\ \A p \in Object \ {o} : Linked(p)' <=> Linked(p)
<1>1. list \in Seq(Object) /\ IsOnce(list)
  BY DEF ObjectsTyped
<1>2. list' = Unlink(list, o)
  BY ObjectLists
<1> QED BY <1>1, <1>2, UnlinkFacts DEF Linked

(* A search begins on an object that is nobody's, or on none.                *)
LEMMA BeginKeeps ==
    ASSUME ObjectsInv, NEW t \in Thread, NEW j \in Jobs, D!Search(t, j),
           UNCHANGED <<list, type, name>>, j.op \in {"find", "init", "register"},
           j.op = "find" <=> j.obj = NoObject,
           job[t].obj = j.obj \/ (job[t].obj = NoObject /\ D!Unclaimed(j.obj)) \/ j.obj = NoObject,
           job[t].obj \in {j.obj, NoObject}, j.obj \notin IrqObject,
           j.obj # NoObject => ~Typed(j.obj) /\ ~Linked(j.obj)
    PROVE  /\ ObjectsInv' /\ JobAt(t, "search", j.op, j.obj, j.name)
           /\ present'[t] = {o \in Elems(list) : name[o] = j.name}
           /\ \A u \in Thread \ {t} : present'[u] = present[u]
<1>1. ObjectsTyped /\ Claims
  BY DEF ObjectsInv
<1>2. /\ JobAt(t, "search", j.op, j.obj, j.name) /\ job'[t].node = D!First
      /\ lock = NoThread /\ lock' = t /\ present' \in [Thread -> SUBSET Object]
      /\ present'[t] = {o \in Elems(list) : name[o] = j.name}
      /\ \A u \in Thread \ {t} : present'[u] = present[u]
  BY <1>1, SearchBegins
<1>3. /\ OnlyJob(t) /\ job'[t].at = "search" /\ job'[t].op = j.op
      /\ job'[t].obj = j.obj /\ job'[t].name = j.name
  BY <1>2 DEF JobAt
<1>4. ObjectsTyped'
  BY <1>1, <1>2, <1>3 DEF ObjectsTyped, OnlyJob
<1>5. Stage(t)'
  BY <1>3 DEF Stage, Typed, Linked
<1>6. PICK o \in Object \cup {NoObject} : o = j.obj
  BY DEF Jobs
<1>7. \A p \in Object : (Typed(p)' <=> Typed(p)) /\ (Linked(p)' <=> Linked(p))
  BY DEF Typed, Linked
<1>8. o \in Object /\ job'[t].obj = NoObject => (Typed(o)' <=> Linked(o)')
  BY <1>3, <1>6, ObjectFacts
<1>9. Claims'
  BY <1>1, <1>3, <1>5, <1>6, <1>7, <1>8, ClaimsKept
<1>10. Searching'
  BY SearchingBegins
<1> QED BY <1>2, <1>4, <1>9, <1>10 DEF ObjectsInv

(* A step of the call of t about o that is no search.                        *)
LEMMA StepKeepsObjects ==
    ASSUME ObjectsInv, NEW t \in Thread, NEW o \in Object \cup {NoObject}, D!Runs(t), OnlyJob(t),
           job[t].at # "search", job'[t].at \notin {"search", "found"},
           lock' = lock, NEW q \in [Thread -> SUBSET Object], present' = q,
           \A u \in Thread \ {t} : present'[u] \subseteq present[u],
           list' \in Seq(Object), IsOnce(list'),
           type' \in [Object -> {"null", "static", "dynamic"}],
           name' \in [Object -> Name \cup {""}],
           \A p \in Object \ {o} : (Typed(p)' <=> Typed(p)) /\ (Linked(p)' <=> Linked(p)),
           job[t].obj = o \/ (job[t].obj = NoObject /\ D!Unclaimed(o)) \/ o = NoObject,
           job[t].obj \in {o, NoObject}, job'[t].obj \in {o, NoObject},
           Stage(t)',
           o \in Object /\ job'[t].obj = NoObject => (Typed(o)' <=> Linked(o)')
    PROVE  ObjectsInv'
<1>1. ObjectsTyped /\ Claims
  BY DEF ObjectsInv
<1>2. ObjectsTyped'
  BY <1>1 DEF ObjectsTyped, OnlyJob
<1>3. Claims'
  BY <1>1, ClaimsKept
<1>4. lock' = IF job[t].at = "search" THEN NoThread ELSE lock
  OBVIOUS
<1>5. Searching'
  BY <1>4, SearchingKept
<1> QED BY <1>2, <1>3, <1>5 DEF ObjectsInv

LEMMA FindKeeps ==
    ASSUME ObjectsInv, NEW t \in Thread, NEW n \in Name, D!Find(t, n)
    PROVE  ObjectsInv'
<1>1. PICK j \in Jobs : j = [D!Idle EXCEPT !.op = "find", !.name = n]
  <2>1. [D!Idle EXCEPT !.op = "find", !.name = n] \in Jobs
    BY DEF D!Idle, Jobs, Places, Calls
  <2> QED BY <2>1
<1>2. j.op = "find" /\ j.obj = NoObject
  BY <1>1 DEF D!Idle
<1>3. job[t].at = "idle" /\ D!Search(t, j) /\ UNCHANGED <<list, type, name>>
  BY <1>1 DEF D!Find
<1>4. job[t].obj = NoObject /\ NoObject \notin IrqObject
  BY <1>3, ObjectFacts DEF ObjectsInv, Claims, Stage
<1> QED BY <1>2, <1>3, <1>4, BeginKeeps

(* rt_object_init and rt_device_register of an object that is not in use.    *)
LEMMA SetUpKeeps ==
    ASSUME ObjectsInv, NEW t \in Thread, NEW o \in Object \ IrqObject, NEW n \in Name,
           NEW p \in {"init", "register"}, job[t].at = "idle", type[o] = "null", D!Unclaimed(o),
           D!Search(t, [D!Idle EXCEPT !.op = p, !.obj = o, !.name = n]),
           UNCHANGED <<list, type, name>>
    PROVE  /\ ObjectsInv' /\ JobAt(t, "search", p, o, n)
           /\ present'[t] = {q \in Elems(list) : name[q] = n}
           /\ \A u \in Thread \ {t} : present'[u] = present[u]
<1>1. PICK j \in Jobs : j = [D!Idle EXCEPT !.op = p, !.obj = o, !.name = n]
  <2>1. [D!Idle EXCEPT !.op = p, !.obj = o, !.name = n] \in Jobs
    BY DEF D!Idle, Jobs, Places, Calls
  <2> QED BY <2>1
<1>2. j.op = p /\ j.obj = o /\ j.name = n
  BY <1>1 DEF D!Idle
<1>3. D!Search(t, j)
  BY <1>1
<1>4. job[t].obj = NoObject /\ o # NoObject /\ ~Typed(o) /\ ~Linked(o)
  BY ObjectFacts DEF ObjectsInv, Claims, Stage, Typed
<1>5. p # "find"
  OBVIOUS
<1> QED BY <1>2, <1>3, <1>4, <1>5, BeginKeeps

LEMMA AllocateKeeps ==
    ASSUME ObjectsInv, NEW t \in Thread, NEW o \in Object, NEW n \in Name, D!Allocate(t, o, n)
    PROVE  ObjectsInv'
<1>1. ObjectsTyped /\ Claims /\ o \notin IrqObject /\ o # NoObject
  BY ObjectFacts DEF ObjectsInv, D!Allocate
<1>2. /\ D!Runs(t) /\ job[t].at = "idle" /\ type[o] = "null" /\ D!Unclaimed(o)
      /\ job' = [job EXCEPT ![t] = [D!Idle EXCEPT !.op = "allocate", !.at = "fields",
                                                  !.obj = o, !.name = n]]
      /\ UNCHANGED <<list, type, name, lock, present>>
  BY DEF D!Allocate
<1>3. PICK j \in Jobs : j = [D!Idle EXCEPT !.op = "allocate", !.at = "fields", !.obj = o, !.name = n]
  <2>1. [D!Idle EXCEPT !.op = "allocate", !.at = "fields", !.obj = o, !.name = n] \in Jobs
    BY DEF D!Idle, Jobs, Places, Calls
  <2> QED BY <2>1
<1>a. j.at = "fields" /\ j.obj = o
  BY <1>3 DEF D!Idle
<1>4. OnlyJob(t) /\ job'[t] = j
  BY <1>1, <1>2, <1>3 DEF OnlyJob, ObjectsTyped
<1>5. job'[t].at = "fields" /\ job'[t].obj = o
  BY <1>4, <1>a
<1>6. job[t].obj = NoObject /\ ~Typed(o) /\ ~Linked(o)
  BY <1>1, <1>2 DEF Claims, Stage, Typed
<1>7. Stage(t)'
  BY <1>1, <1>2, <1>5, <1>6 DEF Stage, Typed, Linked
<1>8. \A p \in Object : (Typed(p)' <=> Typed(p)) /\ (Linked(p)' <=> Linked(p))
  BY <1>2 DEF Typed, Linked
<1>9. /\ list' \in Seq(Object) /\ IsOnce(list') /\ present \in [Thread -> SUBSET Object]
      /\ type' \in [Object -> {"null", "static", "dynamic"}] /\ name' \in [Object -> Name \cup {""}]
      /\ present' = present /\ lock' = lock
  BY <1>1, <1>2 DEF ObjectsTyped
<1>10. job[t].at # "search" /\ job'[t].at \notin {"search", "found"}
  BY <1>2, <1>5
<1> QED BY <1>1, <1>2, <1>4, <1>5, <1>6, <1>7, <1>8, <1>9, <1>10, StepKeepsObjects

(* A call that has not begun to change its object ends.                      *)
LEMMA EndKeeps ==
    ASSUME ObjectsInv, NEW t \in Thread, D!Runs(t), job[t].at = "found",
           job' = [job EXCEPT ![t] = D!Idle], present' = [present EXCEPT ![t] = {}],
           UNCHANGED <<list, type, name, lock>>
    PROVE  ObjectsInv'
<1>1. ObjectsTyped /\ Claims
  BY DEF ObjectsInv
<1>2. JobAt(t, "idle", "none", NoObject, "")
  BY <1>1, JobEnds DEF ObjectsTyped
<1>3. OnlyJob(t) /\ job'[t].at = "idle" /\ job'[t].obj = NoObject
  BY <1>2 DEF JobAt
<1>4. PICK o \in Object \cup {NoObject} : o = job[t].obj
  BY <1>1 DEF ObjectsTyped, Jobs
<1>5. \A p \in Object : (Typed(p)' <=> Typed(p)) /\ (Linked(p)' <=> Linked(p))
  BY DEF Typed, Linked
<1>6. o \in Object => ~Typed(o) /\ ~Linked(o)
  BY <1>1, <1>4, ObjectFacts DEF Claims, Stage
<1>7. Stage(t)'
  BY <1>3, ObjectFacts DEF Stage
<1>8. PICK q \in [Thread -> SUBSET Object] : q = present'
  BY <1>1 DEF ObjectsTyped
<1>9. \A u \in Thread \ {t} : present'[u] \subseteq present[u]
  BY <1>1 DEF ObjectsTyped
<1>10. /\ list' \in Seq(Object) /\ IsOnce(list') /\ lock' = lock
       /\ type' \in [Object -> {"null", "static", "dynamic"}] /\ name' \in [Object -> Name \cup {""}]
  BY <1>1 DEF ObjectsTyped
<1>11. job[t].at # "search" /\ job'[t].at \notin {"search", "found"}
  BY <1>3
<1> QED BY <1>3, <1>4, <1>5, <1>6, <1>7, <1>8, <1>9, <1>10, <1>11, StepKeepsObjects

(* The type and the name of the object are set.                              *)
LEMMA FieldsKeeps ==
    ASSUME ObjectsInv, NEW t \in Thread, D!Fields(t)
    PROVE  /\ ObjectsInv' /\ JobAt(t, "insert", job[t].op, job[t].obj, job[t].name)
           /\ job[t].at = "fields" /\ job[t].obj \in Object /\ list' = list
           /\ name'[job[t].obj] = job[t].name
           /\ \A p \in Object \ {job[t].obj} : name'[p] = name[p] /\ type'[p] = type[p]
<1>1. ObjectsTyped /\ Claims
  BY DEF ObjectsInv
<1>2. PICK o : o = job[t].obj
  OBVIOUS
<1>3. PICK y \in {"static", "dynamic"} : type' = [type EXCEPT ![o] = y]
  BY <1>2 DEF D!Fields
<1>4. /\ D!Runs(t) /\ job[t].at = "fields" /\ D!Goto(t, "insert")
      /\ name' = [name EXCEPT ![o] = job[t].name] /\ UNCHANGED <<list, lock, present>>
  BY <1>2 DEF D!Fields
<1>5. "insert" \in Places
  BY DEF Places
<1>6. JobAt(t, "insert", job[t].op, job[t].obj, job[t].name)
  BY <1>1, <1>4, <1>5, JobGoes DEF ObjectsTyped
<1>7. OnlyJob(t) /\ job'[t].at = "insert" /\ job'[t].obj = o
  BY <1>2, <1>6 DEF JobAt
<1>8. o \in Object /\ ~Linked(o) /\ o \notin IrqObject /\ o # NoObject
  <2>1. job[t].obj \in Object \cup {NoObject} /\ job[t].obj # NoObject /\ Stage(t)
    BY <1>1, <1>4 DEF ObjectsTyped, Jobs, Claims, Stage
  <2> QED BY <1>2, <1>4, <2>1 DEF Stage
<1>9. job[t].name \in Name \cup {""}
  BY <1>1 DEF ObjectsTyped, Jobs
<1>10. /\ type' \in [Object -> {"null", "static", "dynamic"}] /\ name' \in [Object -> Name \cup {""}]
       /\ type'[o] # "null" /\ name'[o] = job[t].name
       /\ \A p \in Object \ {o} : name'[p] = name[p] /\ type'[p] = type[p]
  BY <1>1, <1>3, <1>4, <1>8, <1>9 DEF ObjectsTyped
<1>11. /\ \A p \in Object \ {o} : (Typed(p)' <=> Typed(p)) /\ (Linked(p)' <=> Linked(p))
       /\ Typed(o)' /\ ~Linked(o)'
  BY <1>4, <1>8, <1>10 DEF Typed, Linked
<1>12. Stage(t)'
  BY <1>7, <1>8, <1>11 DEF Stage, Typed, Linked
<1>13. /\ list' \in Seq(Object) /\ IsOnce(list') /\ lock' = lock
       /\ present \in [Thread -> SUBSET Object] /\ present' = present
       /\ job[t].at # "search" /\ job'[t].at \notin {"search", "found"}
  BY <1>1, <1>4, <1>7 DEF ObjectsTyped
<1>14. ObjectsInv'
  BY <1>2, <1>4, <1>7, <1>8, <1>10, <1>11, <1>12, <1>13, StepKeepsObjects
<1> QED BY <1>2, <1>4, <1>6, <1>8, <1>10, <1>14

(* The object is linked, and the call goes on or ends.                       *)
LEMMA LinkKeeps ==
    ASSUME ObjectsInv, NEW t \in Thread, D!Runs(t), job[t].at = "insert", OnlyJob(t),
           NEW o, o = job[t].obj, list' = D!PushFront(list, o),
           \/ job'[t].at = "idle" /\ job'[t].obj = NoObject
           \/ job'[t].at = "reset" /\ job'[t].obj = o,
           UNCHANGED <<type, name, lock>>, NEW q \in [Thread -> SUBSET Object], present' = q,
           \A u \in Thread \ {t} : present'[u] \subseteq present[u]
    PROVE  /\ ObjectsInv' /\ o \in Object /\ ~Linked(o) /\ Linked(o)'
           /\ \A p \in Object \ {o} : Linked(p)' <=> Linked(p)
<1>1. ObjectsTyped /\ Claims
  BY DEF ObjectsInv
<1>2. o \in Object /\ ~Linked(o) /\ Typed(o) /\ o \notin IrqObject /\ o # NoObject
  <2>1. job[t].obj \in Object \cup {NoObject} /\ job[t].obj # NoObject /\ Stage(t)
    BY <1>1 DEF ObjectsTyped, Jobs, Claims, Stage
  <2> QED BY <2>1 DEF Stage
<1>3. /\ list' \in Seq(Object) /\ IsOnce(list') /\ Linked(o)'
      /\ \A p \in Object \ {o} : Linked(p)' <=> Linked(p)
  BY <1>1, <1>2, LinkEffect
<1>4. \A p \in Object : Typed(p)' <=> Typed(p)
  BY DEF Typed
<1>5. Stage(t)'
  BY <1>2, <1>3, <1>4, ObjectFacts DEF Stage, Typed, Linked
<1>6. /\ type' \in [Object -> {"null", "static", "dynamic"}] /\ name' \in [Object -> Name \cup {""}]
      /\ lock' = lock /\ job[t].at # "search" /\ job'[t].at \notin {"search", "found"}
  BY <1>1 DEF ObjectsTyped
<1>7. /\ job[t].obj = o /\ job'[t].obj \in {o, NoObject}
      /\ Typed(o)' <=> Linked(o)'
  BY <1>2, <1>3, <1>4
<1>8. ObjectsInv'
  BY <1>2, <1>3, <1>4, <1>5, <1>6, <1>7, StepKeepsObjects
<1> QED BY <1>2, <1>3, <1>8

LEMMA InsertKeeps ==
    ASSUME ObjectsInv, NEW t \in Thread, D!Insert(t)
    PROVE  ObjectsInv'
<1>1. ObjectsTyped
  BY DEF ObjectsInv
<1>2. /\ D!Runs(t) /\ job[t].at = "insert" /\ list' = D!PushFront(list, job[t].obj)
      /\ job' = [job EXCEPT ![t] = D!Idle] /\ present' = [present EXCEPT ![t] = {}]
      /\ UNCHANGED <<type, name, lock>>
  BY DEF D!Insert
<1>3. OnlyJob(t) /\ job'[t].at = "idle" /\ job'[t].obj = NoObject
  <2>1. JobAt(t, "idle", "none", NoObject, "")
    BY <1>1, <1>2, JobEnds DEF ObjectsTyped
  <2> QED BY <2>1 DEF JobAt
<1>4. PICK q \in [Thread -> SUBSET Object] : q = present'
  BY <1>1, <1>2 DEF ObjectsTyped
<1>5. \A u \in Thread \ {t} : present'[u] \subseteq present[u]
  BY <1>1, <1>2 DEF ObjectsTyped
<1>6. PICK o : o = job[t].obj
  OBVIOUS
<1> QED BY <1>2, <1>3, <1>4, <1>5, <1>6, LinkKeeps

LEMMA TakeDownKeeps ==
    ASSUME ObjectsInv, NEW t \in Thread, NEW o \in Object, D!TakeDown(t, o)
    PROVE  /\ ObjectsInv' /\ JobAt(t, "unlink", "detach", o, "")
           /\ UNCHANGED <<list, name>> /\ Linked(o) /\ Typed(o) /\ ~Typed(o)' /\ D!Unclaimed(o)
           /\ \A p \in Object \ {o} : type'[p] = type[p]
<1>1. ObjectsTyped /\ Claims
  BY DEF ObjectsInv
<1>2. /\ D!Runs(t) /\ job[t].at = "idle" /\ type[o] # "null" /\ D!Unclaimed(o) /\ o \notin IrqObject
      /\ type' = [type EXCEPT ![o] = "null"]
      /\ job' = [job EXCEPT ![t] = [D!Idle EXCEPT !.op = "detach", !.at = "unlink", !.obj = o]]
      /\ UNCHANGED <<list, name, lock, present>>
  BY DEF D!TakeDown
<1>3. PICK j \in Jobs : j = [D!Idle EXCEPT !.op = "detach", !.at = "unlink", !.obj = o]
  <2>1. [D!Idle EXCEPT !.op = "detach", !.at = "unlink", !.obj = o] \in Jobs
    BY DEF D!Idle, Jobs, Places, Calls
  <2> QED BY <2>1
<1>4. j.at = "unlink" /\ j.op = "detach" /\ j.obj = o /\ j.name = ""
  BY <1>3 DEF D!Idle
<1>5. OnlyJob(t) /\ job'[t] = j
  BY <1>1, <1>2, <1>3 DEF OnlyJob, ObjectsTyped
<1>6. JobAt(t, "unlink", "detach", o, "")
  BY <1>4, <1>5 DEF JobAt
<1>7. job[t].obj = NoObject /\ Typed(o) /\ Linked(o) /\ o # NoObject
  BY <1>1, <1>2, ObjectFacts DEF Claims, Stage, Typed
<1>8. /\ type' \in [Object -> {"null", "static", "dynamic"}] /\ type'[o] = "null"
      /\ \A p \in Object \ {o} : type'[p] = type[p]
  BY <1>1, <1>2 DEF ObjectsTyped
<1>9. /\ \A p \in Object \ {o} : (Typed(p)' <=> Typed(p)) /\ (Linked(p)' <=> Linked(p))
      /\ ~Typed(o)' /\ Linked(o)'
  BY <1>2, <1>7, <1>8 DEF Typed, Linked
<1>10. Stage(t)'
  BY <1>2, <1>4, <1>5, <1>7, <1>9 DEF Stage, Typed, Linked
<1>11. /\ list' \in Seq(Object) /\ IsOnce(list') /\ name' \in [Object -> Name \cup {""}]
       /\ present \in [Thread -> SUBSET Object] /\ present' = present /\ lock' = lock
       /\ job[t].at # "search" /\ job'[t].at \notin {"search", "found"} /\ job'[t].obj = o
  BY <1>1, <1>2, <1>4, <1>5 DEF ObjectsTyped
<1>12. ObjectsInv'
  BY <1>2, <1>5, <1>7, <1>8, <1>9, <1>10, <1>11, StepKeepsObjects
<1> QED BY <1>2, <1>6, <1>7, <1>8, <1>9, <1>12

LEMMA UnlinkKeeps ==
    ASSUME ObjectsInv, NEW t \in Thread, D!UnlinkObject(t)
    PROVE  /\ ObjectsInv' /\ JobAt(t, "idle", "none", NoObject, "") /\ job[t].at = "unlink"
           /\ job[t].obj \in Object /\ ~Typed(job[t].obj) /\ type' = type
           /\ ~(job[t].obj \in Elems(list'))
           /\ \A p \in Object \ {job[t].obj} : (Linked(p)' <=> Linked(p)) /\ name'[p] = name[p]
           /\ \A u \in Thread : present'[u] = present[u] \ {job[t].obj}
<1>1. ObjectsTyped /\ Claims
  BY DEF ObjectsInv
<1>2. PICK o : o = job[t].obj
  OBVIOUS
<1>3. /\ D!Runs(t) /\ job[t].at = "unlink" /\ list' = D!Unlink(list, o)
      /\ name' = [name EXCEPT ![o] = ""] /\ present' = [u \in Thread |-> present[u] \ {o}]
      /\ job' = [job EXCEPT ![t] = D!Idle] /\ UNCHANGED <<type, lock>>
  BY <1>2 DEF D!UnlinkObject
<1>4. JobAt(t, "idle", "none", NoObject, "")
  BY <1>1, <1>3, JobEnds DEF ObjectsTyped
<1>5. OnlyJob(t) /\ job'[t].at = "idle" /\ job'[t].obj = NoObject
  BY <1>4 DEF JobAt
<1>6. o \in Object /\ ~Typed(o) /\ o # NoObject
  <2>1. job[t].obj \in Object \cup {NoObject} /\ job[t].obj # NoObject /\ Stage(t)
    BY <1>1, <1>3 DEF ObjectsTyped, Jobs, Claims, Stage
  <2> QED BY <1>2, <1>3, <2>1 DEF Stage
<1>7. /\ list' \in Seq(Object) /\ IsOnce(list') /\ ~Linked(o)'
      /\ \A p \in Object \ {o} : Linked(p)' <=> Linked(p)
  BY <1>1, <1>3, <1>6, UnlinkEffect
<1>8. \A p \in Object : Typed(p)' <=> Typed(p)
  BY <1>3 DEF Typed
<1>9. Stage(t)'
  BY <1>5, ObjectFacts DEF Stage
<1>10. /\ type' \in [Object -> {"null", "static", "dynamic"}] /\ name' \in [Object -> Name \cup {""}]
       /\ lock' = lock /\ job[t].at # "search" /\ job'[t].at \notin {"search", "found"}
       /\ \A p \in Object \ {o} : name'[p] = name[p]
  BY <1>1, <1>3, <1>5, <1>6 DEF ObjectsTyped
<1>11. \A u \in Thread : present'[u] = present[u] \ {o}
  BY <1>3
<1>12. PICK q \in [Thread -> SUBSET Object] : q = present'
  BY <1>1, <1>3 DEF ObjectsTyped
<1>13. ObjectsInv'
  BY <1>2, <1>3, <1>5, <1>6, <1>7, <1>8, <1>9, <1>10, <1>11, <1>12, StepKeepsObjects
<1> QED BY <1>2, <1>3, <1>4, <1>6, <1>7, <1>10, <1>11, <1>13 DEF Linked

LEMMA ResetKeeps ==
    ASSUME ObjectsInv, NEW t \in Thread, D!Runs(t), job[t].at = "reset",
           job' = [job EXCEPT ![t] = D!Idle], present' = [present EXCEPT ![t] = {}],
           UNCHANGED <<list, type, name, lock>>
    PROVE  /\ ObjectsInv' /\ JobAt(t, "idle", "none", NoObject, "")
           /\ job[t].obj \in Object /\ Linked(job[t].obj)
<1>1. ObjectsTyped /\ Claims
  BY DEF ObjectsInv
<1>2. JobAt(t, "idle", "none", NoObject, "")
  BY <1>1, JobEnds DEF ObjectsTyped
<1>3. OnlyJob(t) /\ job'[t].at = "idle" /\ job'[t].obj = NoObject
  BY <1>2 DEF JobAt
<1>4. PICK o \in Object : o = job[t].obj
  BY <1>1 DEF ObjectsTyped, Jobs, Claims, Stage
<1>5. \A p \in Object : (Typed(p)' <=> Typed(p)) /\ (Linked(p)' <=> Linked(p))
  BY DEF Typed, Linked
<1>6. Typed(o) /\ Linked(o)
  BY <1>1, <1>4 DEF Claims, Stage
<1>7. Stage(t)'
  BY <1>3, ObjectFacts DEF Stage
<1>8. PICK q \in [Thread -> SUBSET Object] : q = present'
  BY <1>1 DEF ObjectsTyped
<1>9. \A u \in Thread \ {t} : present'[u] \subseteq present[u]
  BY <1>1 DEF ObjectsTyped
<1>10. /\ list' \in Seq(Object) /\ IsOnce(list') /\ lock' = lock
       /\ type' \in [Object -> {"null", "static", "dynamic"}] /\ name' \in [Object -> Name \cup {""}]
  BY <1>1 DEF ObjectsTyped
<1>11. job[t].at # "search" /\ job'[t].at \notin {"search", "found"}
  BY <1>3
<1>12. ObjectsInv'
  BY <1>3, <1>4, <1>5, <1>6, <1>7, <1>8, <1>9, <1>10, <1>11, StepKeepsObjects
<1> QED BY <1>2, <1>4, <1>6, <1>12

(* An interrupt adds an object in front, in the middle of a search too.      *)
LEMMA IrqKeeps ==
    ASSUME ObjectsInv, NEW o \in Object, NEW n \in Name, D!IrqInit(o, n)
    PROVE  ObjectsInv'
<1>1. ObjectsTyped /\ Claims /\ Searching
  BY DEF ObjectsInv
<1>2. /\ o \in IrqObject /\ type[o] = "null" /\ list' = D!PushFront(list, o)
      /\ type' = [type EXCEPT ![o] = "static"] /\ name' = [name EXCEPT ![o] = n]
      /\ lock' = lock /\ job' = job /\ present' = present
  BY DEF D!IrqInit
<1>3. ~Typed(o) /\ ~Linked(o)
  <2>1. D!Unclaimed(o)
    BY <1>1, <1>2 DEF Claims, Stage, D!Unclaimed
  <2> QED BY <1>1, <1>2, <2>1 DEF Claims, Typed
<1>4. /\ list' \in Seq(Object) /\ IsOnce(list') /\ Linked(o)'
      /\ \A p \in Object \ {o} : Linked(p)' <=> Linked(p)
  BY <1>1, <1>2, <1>3, LinkEffect
<1>5. /\ type' \in [Object -> {"null", "static", "dynamic"}] /\ name' \in [Object -> Name \cup {""}]
      /\ type'[o] # "null" /\ \A p \in Object \ {o} : type'[p] = type[p] /\ name'[p] = name[p]
  BY <1>1, <1>2 DEF ObjectsTyped
<1>6. /\ \A p \in Object \ {o} : (Typed(p)' <=> Typed(p)) /\ (Linked(p)' <=> Linked(p))
      /\ Typed(o)' /\ Linked(o)'
  BY <1>4, <1>5 DEF Typed
<1>7. Claims'
  BY <1>1, <1>2, <1>6, IrqClaims
<1>8. ObjectsTyped'
  BY <1>1, <1>2, <1>4, <1>5 DEF ObjectsTyped
<1>9. \A m, p : Ahead(m, p) => Ahead(m, p)'
  <2> SUFFICES ASSUME NEW m, NEW p, Ahead(m, p) PROVE Ahead(m, p)'
    OBVIOUS
  <2>1. PICK i, j \in DOMAIN list : i <= j /\ list[i] = m /\ list[j] = p
    BY DEF Ahead
  <2>2. list' = <<o>> \o list
    BY <1>2 DEF D!PushFront
  <2>3. list \in Seq(Object)
    BY <1>1 DEF ObjectsTyped
  <2>4. /\ i + 1 \in DOMAIN list' /\ j + 1 \in DOMAIN list' /\ i + 1 <= j + 1
        /\ list'[i + 1] = list[i] /\ list'[j + 1] = list[j]
    BY <2>1, <2>2, <2>3
  <2> QED BY <2>1, <2>4 DEF Ahead
<1>10. Searching'
  <2> SUFFICES ASSUME NEW u \in Thread
               PROVE  /\ job[u].at = "search" <=> lock = u
                      /\ job[u].at = "search" => Walks(u)'
                      /\ job[u].at = "found" /\ job[u].node = NoObject => present[u] = {}
    BY <1>2 DEF Searching
  <2>1. job[u].at = "search" => Walks(u)'
    <3> SUFFICES ASSUME Walks(u) PROVE Walks(u)'
      BY <1>1 DEF Searching
    <3>1. Elems(list) \subseteq Elems(list') /\ Elems(list) \subseteq Object
      <4>1. Elems(list) \subseteq Object
        BY <1>1, ElemsType DEF ObjectsTyped
      <4>2. \A p \in Object : p \in Elems(list) => p \in Elems(list')
        BY <1>3, <1>4 DEF Linked
      <4> QED BY <4>1, <4>2
    <3>2. job[u].op # "init" => \A p \in present[u] :
             name'[p] = job[u].name /\ Ahead(job[u].node, p)'
      <4> SUFFICES ASSUME job[u].op # "init", NEW p \in present[u]
                   PROVE  name'[p] = job[u].name /\ Ahead(job[u].node, p)'
        OBVIOUS
      <4>1. name[p] = job[u].name /\ Ahead(job[u].node, p) /\ p \in Object
        BY <1>1 DEF Walks, ObjectsTyped
      <4>2. p \in Elems(list)
        BY <4>1 DEF Ahead, Elems
      <4>3. p # o
        BY <1>3, <4>2 DEF Linked
      <4>4. Ahead(job[u].node, p)'
        <5>1. PICK m : m = job[u].node
          OBVIOUS
        <5>2. Ahead(m, p)'
          BY <1>9, <4>1, <5>1
        <5> QED BY <1>2, <5>1, <5>2
      <4> QED BY <1>5, <4>1, <4>3, <4>4
    <3>3. job[u].node \in Elems(list') \cup {NoObject}
      BY <3>1 DEF Walks
    <3> QED BY <1>2, <3>2, <3>3 DEF Walks
  <2> QED BY <1>1, <2>1 DEF Searching
<1> QED BY <1>7, <1>8, <1>10 DEF ObjectsInv

LEMMA ObjectStepKeeps ==
    ASSUME ObjectsInv, NEW t \in Thread, D!ObjectStep(t)
    PROVE  ObjectsInv'
<1>1. ASSUME NEW o \in Object, NEW n \in Name, D!InitObject(t, o, n) PROVE ObjectsInv'
  <2>1. /\ job[t].at = "idle" /\ o \notin IrqObject /\ type[o] = "null" /\ D!Unclaimed(o)
        /\ D!Search(t, [D!Idle EXCEPT !.op = "init", !.obj = o, !.name = n])
        /\ UNCHANGED <<list, type, name>>
    BY <1>1 DEF D!InitObject
  <2>2. "init" \in {"init", "register"}
    OBVIOUS
  <2> QED BY <2>1, <2>2, SetUpKeeps
<1>2. CASE D!Found(t)
  <2>1. /\ D!Runs(t) /\ job[t].at = "found"
        /\ job' = [job EXCEPT ![t] = D!Idle] /\ present' = [present EXCEPT ![t] = {}]
        /\ UNCHANGED <<list, type, name, lock>>
    BY <1>2 DEF D!Found
  <2> QED BY <2>1, EndKeeps
<1> QED BY <1>1, <1>2, FindKeeps, AllocateKeeps, CompareKeeps, FieldsKeeps, InsertKeeps,
           TakeDownKeeps, UnlinkKeeps DEF D!ObjectStep

LEMMA RegisterKeeps ==
    ASSUME ObjectsInv, NEW t \in Thread, NEW o \in Object, NEW n \in Name, D!Register(t, o, n)
    PROVE  /\ ObjectsInv' /\ JobAt(t, "search", "register", o, n)
           /\ present'[t] = {q \in Elems(list) : name[q] = n}
           /\ \A u \in Thread \ {t} : present'[u] = present[u]
           /\ ~Typed(o) /\ UNCHANGED <<list, type, name>>
<1>1. /\ job[t].at = "idle" /\ o \notin IrqObject /\ type[o] = "null" /\ D!Unclaimed(o)
      /\ D!Search(t, [D!Idle EXCEPT !.op = "register", !.obj = o, !.name = n])
      /\ UNCHANGED <<list, type, name>>
  BY DEF D!Register
<1>2. "register" \in {"init", "register"}
  OBVIOUS
<1> QED BY <1>1, <1>2, SetUpKeeps DEF Typed

LEMMA RegisteredKeeps ==
    ASSUME ObjectsInv, NEW t \in Thread, D!Registered(t)
    PROVE  /\ ObjectsInv' /\ UNCHANGED <<list, type, name>>
           /\ job[t].at = "found" /\ job[t].op = "register"
           /\ \/ job[t].node # NoObject /\ JobAt(t, "idle", "none", NoObject, "")
                 /\ present' = [present EXCEPT ![t] = {}]
              \/ job[t].node = NoObject /\ JobAt(t, "search", "init", job[t].obj, job[t].name)
                 /\ \A u \in Thread \ {t} : present'[u] = present[u]
<1>1. ObjectsTyped /\ Claims
  BY DEF ObjectsInv
<1>2. /\ job[t].at = "found" /\ job[t].op = "register" /\ UNCHANGED <<list, type, name>>
  BY DEF D!Registered
<1>3. CASE job[t].node # NoObject
  <2>1. /\ D!Runs(t) /\ job' = [job EXCEPT ![t] = D!Idle] /\ present' = [present EXCEPT ![t] = {}]
        /\ lock' = lock /\ UNCHANGED <<list, type, name, lock>>
    BY <1>2, <1>3 DEF D!Registered
  <2>2. ObjectsInv'
    BY <1>2, <2>1, EndKeeps
  <2>3. JobAt(t, "idle", "none", NoObject, "")
    BY <1>1, <2>1, JobEnds DEF ObjectsTyped
  <2> QED BY <1>2, <1>3, <2>1, <2>2, <2>3
<1>4. CASE job[t].node = NoObject
  <2>1. PICK j \in Jobs : j = [job[t] EXCEPT !.op = "init"]
    <3>1. job[t] \in Jobs
      BY <1>1 DEF ObjectsTyped
    <3>2. [job[t] EXCEPT !.op = "init"] \in Jobs
      BY <3>1 DEF Jobs, Calls
    <3> QED BY <3>2
  <2>2. j.op = "init" /\ j.obj = job[t].obj /\ j.name = job[t].name
    BY <1>1, <2>1 DEF ObjectsTyped, Jobs
  <2>3. D!Search(t, j)
    BY <1>4, <2>1 DEF D!Registered
  <2>4. /\ j.obj # NoObject /\ j.obj \notin IrqObject /\ ~Typed(j.obj) /\ ~Linked(j.obj)
    <3>1. Stage(t)
      BY <1>1 DEF Claims
    <3> QED BY <1>2, <2>2, <3>1 DEF Stage
  <2>5. ObjectsInv' /\ JobAt(t, "search", j.op, j.obj, j.name)
    BY <1>2, <2>2, <2>3, <2>4, BeginKeeps
  <2>6. \A u \in Thread \ {t} : present'[u] = present[u]
    BY <1>1, <2>3, SearchBegins
  <2> QED BY <1>2, <1>4, <2>2, <2>5, <2>6 DEF JobAt
<1> QED BY <1>3, <1>4

LEMMA LinkDeviceKeeps ==
    ASSUME ObjectsInv, NEW t \in Thread, D!Link(t)
    PROVE  /\ ObjectsInv' /\ JobAt(t, "reset", job[t].op, job[t].obj, job[t].name)
           /\ UNCHANGED <<type, name, present>> /\ job[t].at = "insert"
           /\ job[t].obj \in Object /\ ~Linked(job[t].obj)
           /\ job[t].obj \in Elems(list')
           /\ \A p \in Object \ {job[t].obj} : Linked(p)' <=> Linked(p)
<1>1. ObjectsTyped /\ Claims
  BY DEF ObjectsInv
<1>2. PICK o : o = job[t].obj
  OBVIOUS
<1>3. /\ D!Runs(t) /\ job[t].at = "insert" /\ D!Goto(t, "reset")
      /\ list' = D!PushFront(list, o) /\ UNCHANGED <<type, name, lock>> /\ present' = present
  BY <1>2 DEF D!Link
<1>4. JobAt(t, "reset", job[t].op, job[t].obj, job[t].name)
  <2>1. "reset" \in Places
    BY DEF Places
  <2> QED BY <1>1, <1>3, <2>1, JobGoes DEF ObjectsTyped
<1>5. OnlyJob(t) /\ job'[t].at = "reset" /\ job'[t].obj = o
  BY <1>2, <1>4 DEF JobAt
<1>6. present \in [Thread -> SUBSET Object] /\ \A u \in Thread \ {t} : present'[u] \subseteq present[u]
  BY <1>1, <1>3 DEF ObjectsTyped
<1>7. /\ ObjectsInv' /\ o \in Object /\ ~Linked(o) /\ Linked(o)'
      /\ \A p \in Object \ {o} : Linked(p)' <=> Linked(p)
  BY <1>2, <1>3, <1>5, <1>6, LinkKeeps
<1> QED BY <1>2, <1>3, <1>4, <1>7 DEF Linked

LEMMA DeviceStepKeeps ==
    ASSUME ObjectsInv, NEW t \in Thread, D!DeviceStep(t)
    PROVE  ObjectsInv'
<1>1. CASE D!Reset(t)
  <2>1. /\ D!Runs(t) /\ job[t].at = "reset"
        /\ job' = [job EXCEPT ![t] = D!Idle] /\ present' = [present EXCEPT ![t] = {}]
        /\ UNCHANGED <<list, type, name, lock>>
    BY <1>1 DEF D!Reset
  <2> QED BY <2>1, ResetKeeps
<1>2. ASSUME NEW o \in Object, D!Unregister(t, o) PROVE ObjectsInv'
  BY <1>2, TakeDownKeeps DEF D!Unregister
<1>3. CASE D!Unregistered(t)
  BY <1>3, UnlinkKeeps DEF D!Unregistered
<1> QED BY <1>1, <1>2, <1>3, CompareKeeps, FieldsKeeps, RegisterKeeps, RegisteredKeeps,
           LinkDeviceKeeps DEF D!DeviceStep

LEMMA ObjectsStay ==
    ASSUME ObjectsInv, UNCHANGED <<list, type, name, lock, job, present>>
    PROVE  ObjectsInv'
<1>1. ObjectsTyped'
  BY DEF ObjectsInv, ObjectsTyped
<1>2. Claims'
  BY DEF ObjectsInv, Claims, Stage, Typed, Linked, D!Unclaimed
<1>3. Searching'
  BY DEF ObjectsInv, Searching, Walks, Ahead
<1> QED BY <1>1, <1>2, <1>3 DEF ObjectsInv

LEMMA ObjectsBegin ==
    ASSUME D!ObjectInit
    PROVE  ObjectsInv
<1>1. /\ list = <<>> /\ type = [o \in Object |-> "null"] /\ name = [o \in Object |-> ""]
      /\ lock = NoThread /\ job = [t \in Thread |-> D!Idle] /\ present = [t \in Thread |-> {}]
  BY DEF D!ObjectInit
<1>2. Elems(<<>>) = {} /\ IsOnce(<<>>) /\ <<>> \in Seq(Object)
  BY DEF Elems, IsOnce
<1>3. ObjectsTyped
  BY <1>1, <1>2, IdleIs DEF ObjectsTyped
<1>4. Claims
  BY <1>1, <1>2, IdleIs, ObjectFacts DEF Claims, Stage, Typed, Linked
<1>5. Searching
  BY <1>1, IdleIs, ObjectFacts DEF Searching
<1> QED BY <1>3, <1>4, <1>5 DEF ObjectsInv

LEMMA ObjectsInvariant == ServiceSpec => []ObjectsInv
<1>1. ServiceInit => ObjectsInv
  BY ObjectsBegin DEF ServiceInit
<1>2. ObjectsInv /\ [ServiceNext]_serviceVars => ObjectsInv'
  <2> SUFFICES ASSUME ObjectsInv, [ServiceNext]_serviceVars PROVE ObjectsInv'
    OBVIOUS
  <2>1. CASE Objects
    BY <2>1, ObjectStepKeeps, IrqKeeps DEF Objects
  <2>2. CASE Devices
    <3>1. CASE \E t \in Thread : D!DeviceStep(t)
      BY <3>1, DeviceStepKeeps
    <3>2. CASE D!DeviceUse
      <4>1. UNCHANGED <<list, type, name, lock, job, present>>
        BY <3>2 DEF D!DeviceUse, D!objectVars
      <4> QED BY <4>1, ObjectsStay
    <3> QED BY <2>2, <3>1, <3>2 DEF Devices
  <2>3. CASE Pointers \/ Timers \/ UNCHANGED serviceVars
    <3>1. UNCHANGED <<list, type, name, lock, job, present>>
      BY <2>3 DEF Pointers, Timers, serviceVars, objectVars
    <3> QED BY <3>1, ObjectsStay
  <2> QED BY <2>1, <2>2, <2>3 DEF ServiceNext
<1> QED BY <1>1, <1>2, PTL DEF ServiceSpec

(* With any threads, objects and interrupts: a search never stands on an     *)
(* object that has left the list, and finds none only if none of that name   *)
(* was there all the while; an object is in the list once, exactly if its    *)
(* type says so, but for those being set up or taken down (object.c:591,     *)
(* :364-390, :407-418).                                                      *)
THEOREM SearchesStaySound == ServiceSpec => []SearchesSound
<1>1. ObjectsInv => SearchesSound
  <2> SUFFICES ASSUME ObjectsInv PROVE D!SearchesSound
    BY DEF SearchesSound
  <2>1. \A t \in Thread :
          /\ job[t].at = "search" => job[t].node \in Elems(list) \cup {NoObject}
          /\ job[t].at = "found" /\ job[t].node = NoObject => present[t] = {}
    BY DEF ObjectsInv, Searching, Walks
  <2>2. \A o \in Object : D!Unclaimed(o) => (type[o] # "null") = (o \in Elems(list))
    BY DEF ObjectsInv, Claims, Typed, Linked
  <2>3. IsOnce(list)
    BY DEF ObjectsInv, ObjectsTyped
  <2> QED BY <2>1, <2>2, <2>3, ObjectLists DEF D!SearchesSound
<1> QED BY <1>1, ObjectsInvariant, PTL

-----------------------------------------------------------------------------
(* The names of the devices: whoever is still going to link a device has     *)
(* seen that its name is free, or the device that took it is doubtful.       *)
Seeks(t) == /\ job[t].op \in {"register", "init"}
            /\ job[t].at \in {"search", "found", "fields", "insert"}
            /\ job[t].at = "found" => job[t].node = NoObject
SeekSound(t) ==
    /\ Seeks(t) => \A o \in Object : Linked(o) /\ name[o] = job[t].name =>
                      o \in doubtful \/ (job[t].op = "register" /\ o \in present[t])
    /\ job[t].at \in {"fields", "insert"} => job[t].op = "init"
    /\ job[t].at = "insert" => name[job[t].obj] = job[t].name
Distinct ==
    \A a, b \in Object : Linked(a) /\ Linked(b) /\ a # b /\ name[a] = name[b] =>
        a \in doubtful \/ b \in doubtful
NamesInv == Distinct /\ \A t \in Thread : SeekSound(t)

(* A step of the call of t that links nothing. *)
LEMMA NamesKept ==
    ASSUME NamesInv, NEW t \in Thread, OnlyJob(t),
           \A o \in Object : Linked(o)' => Linked(o) /\ name'[o] = name[o],
           \A o \in doubtful : Linked(o)' => o \in doubtful',
           \A u \in Thread \ {t} : \A o \in present[u] : Linked(o)' => o \in present'[u],
           \A u \in Thread \ {t} : job[u].at = "insert" => name'[job[u].obj] = name[job[u].obj],
           SeekSound(t)'
    PROVE  NamesInv'
<1>1. Distinct'
  BY DEF NamesInv, Distinct
<1>2. ASSUME NEW u \in Thread, u # t PROVE SeekSound(u)'
  <2>1. SeekSound(u) /\ job'[u] = job[u]
    BY <1>2 DEF NamesInv, OnlyJob
  <2>2. Seeks(u)' => Seeks(u)
    BY <2>1 DEF Seeks
  <2>3. ASSUME Seeks(u), NEW o \in Object, Linked(o)', name'[o] = job[u].name
        PROVE  o \in doubtful' \/ (job[u].op = "register" /\ o \in present'[u])
    BY <1>2, <2>1, <2>3 DEF SeekSound
  <2>4. job[u].at = "insert" => name'[job[u].obj] = job[u].name
    BY <1>2, <2>1 DEF SeekSound
  <2> QED BY <2>1, <2>2, <2>3, <2>4 DEF SeekSound
<1> QED BY <1>1, <1>2 DEF NamesInv

(* The list and its names stay. *)
LEMMA NamesStay ==
    ASSUME NamesInv, NEW t \in Thread, OnlyJob(t), UNCHANGED <<list, name, doubtful>>,
           \A u \in Thread \ {t} : present'[u] = present[u],
           SeekSound(t)'
    PROVE  NamesInv'
<1>1. \A o \in Object : Linked(o)' => Linked(o) /\ name'[o] = name[o]
  BY DEF Linked
<1> QED BY <1>1, NamesKept

LEMMA CompareNames ==
    ASSUME ObjectsInv, NamesInv, NEW t \in Thread, D!Compare(t), UNCHANGED deviceVars
    PROVE  NamesInv'
<1>1. /\ OnlyJob(t) /\ UNCHANGED <<list, type, name, present>>
      /\ job'[t].op = job[t].op /\ job'[t].obj = job[t].obj /\ job'[t].name = job[t].name
      /\ job[t].at = "search" /\ job'[t].at \in {"search", "found", "fields"}
      /\ job'[t].at = "fields" => job[t].op = "init"
  BY CompareKeeps
<1>2. UNCHANGED <<list, name, doubtful>> /\ \A u \in Thread \ {t} : present'[u] = present[u]
  BY <1>1 DEF deviceVars
<1>3. SeekSound(t)'
  <2>1. SeekSound(t) /\ (Seeks(t)' => Seeks(t))
    BY <1>1 DEF NamesInv, Seeks
  <2>2. \A o \in Object : Linked(o)' <=> Linked(o)
    BY <1>1 DEF Linked
  <2> QED BY <1>1, <1>2, <2>1, <2>2 DEF SeekSound
<1> QED BY <1>1, <1>2, <1>3, NamesStay

LEMMA RegisterNames ==
    ASSUME ObjectsInv, NamesInv, NEW t \in Thread, NEW o \in Object, NEW n \in Name,
           D!Register(t, o, n)
    PROVE  NamesInv'
<1>1. /\ JobAt(t, "search", "register", o, n) /\ UNCHANGED <<list, type, name>>
      /\ present'[t] = {q \in Elems(list) : name[q] = n}
      /\ \A u \in Thread \ {t} : present'[u] = present[u]
  BY RegisterKeeps
<1>2. /\ OnlyJob(t) /\ job'[t].at = "search" /\ job'[t].op = "register" /\ job'[t].name = n
      /\ UNCHANGED <<list, name, doubtful>>
  BY <1>1 DEF JobAt, D!Register, D!deviceVars
<1>3. SeekSound(t)'
  BY <1>1, <1>2 DEF SeekSound, Linked
<1> QED BY <1>1, <1>2, <1>3, NamesStay

LEMMA RegisteredNames ==
    ASSUME ObjectsInv, NamesInv, NEW t \in Thread, D!Registered(t)
    PROVE  NamesInv'
<1>1. /\ UNCHANGED <<list, type, name>> /\ job[t].at = "found" /\ job[t].op = "register"
      /\ \/ job[t].node # NoObject /\ JobAt(t, "idle", "none", NoObject, "")
            /\ present' = [present EXCEPT ![t] = {}]
         \/ job[t].node = NoObject /\ JobAt(t, "search", "init", job[t].obj, job[t].name)
            /\ \A u \in Thread \ {t} : present'[u] = present[u]
  BY RegisteredKeeps
<1>2. UNCHANGED <<list, name, doubtful>>
  BY <1>1 DEF D!Registered, D!deviceVars
<1>3. CASE job[t].node # NoObject /\ JobAt(t, "idle", "none", NoObject, "")
           /\ present' = [present EXCEPT ![t] = {}]
  <2>1. OnlyJob(t) /\ job'[t].at = "idle" /\ SeekSound(t)'
    BY <1>3 DEF JobAt, SeekSound, Seeks
  <2>2. \A u \in Thread \ {t} : present'[u] = present[u]
    BY <1>3 DEF ObjectsInv, ObjectsTyped
  <2> QED BY <1>2, <2>1, <2>2, NamesStay
<1>4. CASE job[t].node = NoObject /\ JobAt(t, "search", "init", job[t].obj, job[t].name)
           /\ \A u \in Thread \ {t} : present'[u] = present[u]
  <2>1. OnlyJob(t) /\ job'[t].at = "search" /\ job'[t].op = "init" /\ job'[t].name = job[t].name
    BY <1>4 DEF JobAt
  <2>2. present[t] = {}
    BY <1>1, <1>4 DEF ObjectsInv, Searching
  <2>3. \A o \in Object : Linked(o) /\ name[o] = job[t].name => o \in doubtful
    BY <1>1, <1>4, <2>2 DEF NamesInv, SeekSound, Seeks
  <2>4. SeekSound(t)'
    BY <1>2, <2>1, <2>3 DEF SeekSound, Linked
  <2> QED BY <1>2, <1>4, <2>1, <2>4, NamesStay
<1> QED BY <1>1, <1>3, <1>4

(* Only the object of t changes its name.                                    *)
LEMMA OthersNamed ==
    ASSUME ObjectsInv, NEW t \in Thread, job[t].obj \in Object,
           \A p \in Object \ {job[t].obj} : name'[p] = name[p]
    PROVE  \A u \in Thread \ {t} : job[u].at = "insert" => name'[job[u].obj] = name[job[u].obj]
<1> SUFFICES ASSUME NEW u \in Thread, u # t, job[u].at = "insert"
             PROVE  name'[job[u].obj] = name[job[u].obj]
  OBVIOUS
<1>1. job[u].obj # NoObject /\ job[u].obj \in Object
  BY DEF ObjectsInv, Claims, Stage, ObjectsTyped, Jobs
<1>2. job[u].obj # job[t].obj
  BY <1>1 DEF ObjectsInv, Claims
<1> QED BY <1>1, <1>2

LEMMA FieldsNames ==
    ASSUME ObjectsInv, NamesInv, NEW t \in Thread, D!Fields(t), UNCHANGED deviceVars
    PROVE  NamesInv'
<1>1. /\ JobAt(t, "insert", job[t].op, job[t].obj, job[t].name)
      /\ job[t].at = "fields" /\ job[t].obj \in Object /\ list' = list
      /\ name'[job[t].obj] = job[t].name
      /\ \A p \in Object \ {job[t].obj} : name'[p] = name[p]
  BY FieldsKeeps
<1>2. /\ OnlyJob(t) /\ job'[t].at = "insert" /\ job'[t].op = job[t].op
      /\ job'[t].obj = job[t].obj /\ job'[t].name = job[t].name
  BY <1>1 DEF JobAt
<1>3. present' = present /\ doubtful' = doubtful
  BY DEF D!Fields, deviceVars
<1>4. ~Linked(job[t].obj)
  BY <1>1 DEF ObjectsInv, Claims, Stage
<1>5. \A o \in Object : Linked(o)' => Linked(o) /\ name'[o] = name[o]
  BY <1>1, <1>4 DEF Linked
<1>6. SeekSound(t)'
  <2>1. SeekSound(t) /\ job[t].op = "init" /\ Seeks(t)
    BY <1>1 DEF NamesInv, SeekSound, Seeks
  <2>2. \A o \in Object : Linked(o)' /\ name'[o] = job[t].name => o \in doubtful
    BY <1>5, <2>1 DEF SeekSound
  <2> QED BY <1>1, <1>2, <1>3, <2>1, <2>2 DEF SeekSound
<1>7. \A u \in Thread \ {t} : job[u].at = "insert" => name'[job[u].obj] = name[job[u].obj]
  BY <1>1, OthersNamed
<1> QED BY <1>2, <1>3, <1>5, <1>6, <1>7, NamesKept

LEMMA UnregisteredNames ==
    ASSUME ObjectsInv, NamesInv, NEW t \in Thread, D!Unregistered(t)
    PROVE  NamesInv'
<1>1. /\ JobAt(t, "idle", "none", NoObject, "") /\ job[t].obj \in Object
      /\ ~(job[t].obj \in Elems(list'))
      /\ \A p \in Object \ {job[t].obj} : (Linked(p)' <=> Linked(p)) /\ name'[p] = name[p]
      /\ \A u \in Thread : present'[u] = present[u] \ {job[t].obj}
  BY UnlinkKeeps DEF D!Unregistered
<1>2. OnlyJob(t) /\ SeekSound(t)'
  BY <1>1 DEF JobAt, SeekSound, Seeks
<1>3. doubtful' = doubtful \ {job[t].obj}
  BY DEF D!Unregistered
<1>4. \A o \in Object : Linked(o)' => o # job[t].obj
  BY <1>1 DEF Linked
<1>5. \A o \in Object : Linked(o)' => Linked(o) /\ name'[o] = name[o]
  BY <1>1, <1>4
<1>6. \A o \in doubtful : Linked(o)' => o \in doubtful'
  BY <1>1, <1>3 DEF Linked
<1>7. \A u \in Thread \ {t} : \A o \in present[u] : Linked(o)' => o \in present'[u]
  BY <1>1 DEF Linked
<1>8. \A u \in Thread \ {t} : job[u].at = "insert" => name'[job[u].obj] = name[job[u].obj]
  BY <1>1, OthersNamed
<1> QED BY <1>2, <1>5, <1>6, <1>7, <1>8, NamesKept

(* Linking a device: those who are registering the name too will make a      *)
(* second one of the name, so this one is doubtful.                          *)
LEMMA LinkNames ==
    ASSUME ObjectsInv, NamesInv, NEW t \in Thread, D!Link(t)
    PROVE  NamesInv'
<1>1. /\ JobAt(t, "reset", job[t].op, job[t].obj, job[t].name)
      /\ UNCHANGED <<type, name, present>> /\ job[t].at = "insert"
      /\ job[t].obj \in Object /\ job[t].obj \in Elems(list')
      /\ \A p \in Object \ {job[t].obj} : Linked(p)' <=> Linked(p)
  BY LinkDeviceKeeps
<1>2. OnlyJob(t) /\ job'[t].at = "reset"
  BY <1>1 DEF JobAt
<1>3. doubtful' = IF \E u \in Thread \ {t} : /\ job[u].op \in {"register", "init"}
                                             /\ job[u].name = job[t].name
                  THEN doubtful \cup {job[t].obj} ELSE doubtful
  BY DEF D!Link
<1>4. PICK o \in Object : o = job[t].obj
  BY <1>1
<1>5. /\ job[t].op = "init" /\ name[o] = job[t].name
      /\ \A p \in Object : Linked(p) /\ name[p] = job[t].name => p \in doubtful
  BY <1>1, <1>4 DEF NamesInv, SeekSound, Seeks
<1>6. doubtful \subseteq doubtful'
  BY <1>3
<1>7. Distinct'
  <2> SUFFICES ASSUME NEW a \in Object, NEW b \in Object, Linked(a)', Linked(b)', a # b,
                      name[a] = name[b]
               PROVE  a \in doubtful' \/ b \in doubtful'
    BY <1>1 DEF Distinct
  <2>1. CASE a # o /\ b # o
    BY <1>1, <1>4, <1>6, <2>1 DEF NamesInv, Distinct
  <2>2. CASE a = o
    BY <1>1, <1>4, <1>5, <1>6, <2>2
  <2>3. CASE b = o
    BY <1>1, <1>4, <1>5, <1>6, <2>3
  <2> QED BY <2>1, <2>2, <2>3
<1>8. ASSUME NEW u \in Thread PROVE SeekSound(u)'
  <2>1. CASE u = t
    BY <1>2, <2>1 DEF SeekSound, Seeks
  <2>2. CASE u # t
    <3>1. SeekSound(u) /\ job'[u] = job[u]
      BY <1>2, <2>2 DEF NamesInv, OnlyJob
    <3>2. Seeks(u)' => Seeks(u)
      BY <3>1 DEF Seeks
    <3>3. ASSUME Seeks(u), NEW p \in Object, Linked(p)', name[p] = job[u].name
          PROVE  p \in doubtful' \/ (job[u].op = "register" /\ p \in present[u])
      <4>1. CASE p = o
        <5>1. job[u].op \in {"register", "init"} /\ job[u].name = job[t].name
          BY <1>5, <3>3, <4>1 DEF Seeks
        <5> QED BY <1>3, <1>4, <2>2, <4>1, <5>1
      <4>2. CASE p # o
        BY <1>1, <1>4, <1>6, <3>1, <3>3, <4>2 DEF SeekSound
      <4> QED BY <4>1, <4>2
    <3> QED BY <1>1, <3>1, <3>2, <3>3 DEF SeekSound
  <2> QED BY <2>1, <2>2
<1> QED BY <1>7, <1>8 DEF NamesInv

LEMMA DeviceStepNames ==
    ASSUME ObjectsInv, NamesInv, NEW t \in Thread, D!DeviceStep(t)
    PROVE  NamesInv'
<1>1. CASE D!Reset(t)
  <2>1. /\ D!Runs(t) /\ job[t].at = "reset"
        /\ job' = [job EXCEPT ![t] = D!Idle] /\ present' = [present EXCEPT ![t] = {}]
        /\ UNCHANGED <<list, type, name, lock>> /\ doubtful' = doubtful
    BY <1>1 DEF D!Reset
  <2>2. JobAt(t, "idle", "none", NoObject, "")
    BY <2>1, ResetKeeps
  <2>3. OnlyJob(t) /\ SeekSound(t)'
    BY <2>2 DEF JobAt, SeekSound, Seeks
  <2>4. \A u \in Thread \ {t} : present'[u] = present[u]
    BY <2>1 DEF ObjectsInv, ObjectsTyped
  <2>5. UNCHANGED <<list, name, doubtful>>
    BY <2>1
  <2> QED BY <2>3, <2>4, <2>5, NamesStay
<1>2. ASSUME NEW o \in Object, D!Unregister(t, o) PROVE NamesInv'
  <2>1. /\ JobAt(t, "unlink", "detach", o, "") /\ UNCHANGED <<list, name, doubtful>>
        /\ present' = present
    BY <1>2, TakeDownKeeps DEF D!Unregister, D!TakeDown
  <2>2. OnlyJob(t) /\ SeekSound(t)'
    BY <2>1 DEF JobAt, SeekSound, Seeks
  <2>3. \A u \in Thread \ {t} : present'[u] = present[u]
    BY <2>1
  <2> QED BY <2>1, <2>2, <2>3, NamesStay
<1>3. UNCHANGED D!deviceVars <=> UNCHANGED deviceVars
  BY DEF D!deviceVars, deviceVars
<1> QED BY <1>1, <1>2, <1>3, CompareNames, FieldsNames, RegisterNames, RegisteredNames, LinkNames,
           UnregisteredNames DEF D!DeviceStep

-----------------------------------------------------------------------------
(* The users of the devices.                                                 *)
Free(o) == D!Unclaimed(o)
Taking == {"o_driver", "o_flag", "o_read", "o_write"}
CallPlaces == {"out", "i_init", "o_init", "o_busy", "c_test", "c_read", "c_write", "c_last",
               "c_driver", "c_flag"} \cup Taking
States == [activated : BOOLEAN, open : BOOLEAN, ref : Nat]
UserCalls == [at : CallPlaces, obj : Object \cup {NoObject}, count : Nat]

DevicesTyped ==
    /\ dev \in [Object -> States] /\ driver \in [Object -> BOOLEAN]
    /\ users \in [Object -> SUBSET User] /\ call \in [User -> UserCalls]

(* The call of u with o is at one of the places S. *)
In(u, o, S) == call[u].obj = o /\ call[u].at \in S
Clash(o) ==
    \/ \E u, v \in User : /\ In(u, o, {"o_write", "c_write"}) /\ In(v, o, {"o_write", "c_write"})
                          /\ u # v
    \/ \E u, v \in User : In(u, o, {"o_flag", "o_read", "o_write"}) /\ In(v, o, {"c_driver", "c_flag"})
    \/ /\ o \in Standalone
       /\ \E u, v \in User : /\ In(u, o, {"o_driver", "o_flag"}) /\ In(v, o, {"o_driver", "o_flag"})
                             /\ u # v
    \/ driver[o] /\ \E u \in User : In(u, o, {"i_init", "o_init"})

LEMMA OverlapIs ==
    ASSUME NEW o \in Object
    PROVE  /\ D!Overlap(o) <=> Clash(o)
           /\ D!Overlap(o)' <=> Clash(o)'
BY DEF D!Overlap, D!CalledOn, Clash, In

LEMMA UsersFew ==
    /\ \A S : D!Cardinality(S) = Cardinality(S)
    /\ IsFiniteSet(User) /\ Cardinality(User) < 256
    /\ \A S \in SUBSET User : IsFiniteSet(S) /\ Cardinality(S) \in 0..255
<1>1. \A S : D!Cardinality(S) = Cardinality(S)
  BY DEF D!Cardinality, Cardinality
<1>2. IsFiniteSet(User)
  BY DevicesConfigured DEF D!DeviceAssumption, D!IsFiniteSet, IsFiniteSet
<1>3. Cardinality(User) < 256
  BY <1>1, DevicesConfigured DEF D!DeviceAssumption
<1>4. ASSUME NEW S \in SUBSET User PROVE IsFiniteSet(S) /\ Cardinality(S) \in 0..255
  <2>1. IsFiniteSet(S) /\ Cardinality(S) <= Cardinality(User)
    BY <1>2, FS_Subset
  <2>2. Cardinality(S) \in Nat /\ Cardinality(User) \in Nat
    BY <1>2, <2>1, FS_CardinalityType
  <2> QED BY <1>3, <2>1, <2>2
<1> QED BY <1>1, <1>2, <1>3, <1>4

Opened(o) == dev[o].open \/ (o \in Bare /\ \E v \in User : In(v, o, {"o_flag"}))
Engages(u, o) == u \in users[o] \/ In(u, o, Taking)

(* While no calls have disturbed each other: what a call has read from       *)
(* ref_count is still there, what the driver has opened is open until the    *)
(* last user has gone, and a stand-alone device has one user or one taker.   *)
CountInv(o) ==
    /\ dev[o].ref = Cardinality(users[o])
    /\ \A u \in User : In(u, o, {"o_write", "c_write"}) => call[u].count = dev[o].ref
OpenInv(o) ==
    /\ users[o] # {} => dev[o].activated /\ driver[o] /\ Opened(o)
    /\ \A u \in User : /\ In(u, o, {"o_busy"} \cup Taking) => dev[o].activated
                       /\ In(u, o, {"o_flag", "o_read", "o_write"}) => driver[o]
                       /\ In(u, o, {"o_read", "o_write"}) => Opened(o)
CloseInv(o) ==
    /\ \A u \in User : In(u, o, {"c_driver", "c_flag"}) => users[o] = {}
    /\ users[o] = {} /\ dev[o].open /\ (\A u \in User : ~In(u, o, {"c_flag"})) => driver[o]
AloneInv(o) == o \in Standalone => \A u, v \in User : Engages(u, o) /\ Engages(v, o) => u = v
Served(o) == CountInv(o) /\ OpenInv(o) /\ CloseInv(o) /\ AloneInv(o)

(* A user that closes has the device open, one that opens has not.           *)
CallSound(u, o) ==
    /\ In(u, o, {"c_test", "c_read", "c_write"}) => u \in users[o]
    /\ In(u, o, {"o_init", "o_busy"} \cup Taking) => u \notin users[o]

Used(o) == users[o] # {} \/ \E u \in User : call[u].obj = o

(* A device in use is registered, and nobody registers or unregisters it     *)
(* unless it was used too early.                                             *)
ServedInv ==
    /\ DevicesTyped
    /\ \A u \in User, o \in Object : CallSound(u, o)
    /\ \A o \in Object : Clash(o) => o \in torn
    /\ \A o \in Object : Linked(o) /\ Free(o) /\ o \notin early \cup torn => Served(o)
    /\ \A o \in Object : Used(o) => Linked(o) /\ Typed(o) /\ (Free(o) \/ o \in early)

(* What is said of o depends on its own state and the calls with it. *)
LEMMA OthersServed ==
    ASSUME NEW o \in Object, dev'[o] = dev[o], driver'[o] = driver[o], users'[o] = users[o],
           \A u \in User : call'[u] = call[u] \/ (call[u].obj # o /\ call'[u].obj # o)
    PROVE  /\ Clash(o)' <=> Clash(o)
           /\ Served(o) => Served(o)'
           /\ \A u \in User : CallSound(u, o) => CallSound(u, o)'
           /\ Used(o)' <=> Used(o)
<1>1. ASSUME NEW u \in User, NEW S PROVE In(u, o, S)' <=> In(u, o, S)
  BY DEF In
<1>2. Clash(o)' <=> Clash(o)
  BY <1>1 DEF Clash
<1>3. Opened(o)' <=> Opened(o)
  BY <1>1 DEF Opened
<1>4. \A u \in User : Engages(u, o)' <=> Engages(u, o)
  BY <1>1 DEF Engages
<1>5. CountInv(o) => CountInv(o)'
  <2>1. \A u \in User : In(u, o, {"o_write", "c_write"})' => call'[u] = call[u] /\ In(u, o, {"o_write", "c_write"})
    BY <1>1 DEF In
  <2> QED BY <2>1 DEF CountInv
<1>6. OpenInv(o) => OpenInv(o)'
  BY <1>1, <1>3 DEF OpenInv
<1>7. CloseInv(o) => CloseInv(o)'
  BY <1>1 DEF CloseInv
<1>8. AloneInv(o) => AloneInv(o)'
  BY <1>4 DEF AloneInv
<1>9. \A u \in User : CallSound(u, o) => CallSound(u, o)'
  BY <1>1 DEF CallSound
<1>10. Used(o)' <=> Used(o)
  BY DEF Used
<1> QED BY <1>2, <1>5, <1>6, <1>7, <1>8, <1>9, <1>10 DEF Served

(* The devices stay, and no registration ends. *)
LEMMA ServedKept ==
    ASSUME ServedInv, UNCHANGED <<dev, driver, users, call, early, torn>>,
           \A o \in Object : Linked(o)' /\ Free(o)' => Linked(o) /\ Free(o),
           \A o \in Object : Used(o) =>
              (Linked(o) => Linked(o)') /\ (Typed(o) => Typed(o)') /\ (Free(o) => Free(o)')
    PROVE  ServedInv'
<1>1. \A o \in Object : /\ Clash(o)' <=> Clash(o)
                        /\ Served(o) => Served(o)'
                        /\ \A u \in User : CallSound(u, o) => CallSound(u, o)'
                        /\ Used(o)' <=> Used(o)
  BY OthersServed
<1>2. DevicesTyped'
  BY DEF ServedInv, DevicesTyped
<1> QED BY <1>1, <1>2 DEF ServedInv

(* Which objects are free after a step of the call of t. *)
LEMMA FreeIs ==
    ASSUME NEW t \in Thread, OnlyJob(t), NEW o \in Object
    PROVE  /\ job'[t].obj # o /\ Free(o) => Free(o)'
           /\ Free(o)' /\ ~Free(o) => job[t].obj = o
           /\ Free(o)' => job'[t].obj # o
           /\ Free(o) => job[t].obj # o
BY DEF Free, D!Unclaimed, OnlyJob

(* The call of t goes on about the same object.                              *)
LEMMA SameServed ==
    ASSUME ServedInv, NEW t \in Thread, OnlyJob(t), job'[t].obj = job[t].obj,
           UNCHANGED <<dev, driver, users, call, early, torn>>,
           \A o \in Object \ {job[t].obj} : (Linked(o)' <=> Linked(o)) /\ (Typed(o) => Typed(o)'),
           \A o \in Object : Linked(o) => Linked(o)',
           \A o \in Object : Typed(o) => Typed(o)'
    PROVE  ServedInv'
<1>1. \A o \in Object : Free(o)' <=> Free(o)
  BY DEF Free, D!Unclaimed, OnlyJob
<1>2. \A o \in Object : Free(o) => o # job[t].obj
  BY DEF Free, D!Unclaimed
<1> QED BY <1>1, <1>2, ServedKept

LEMMA RegisterServed ==
    ASSUME ObjectsInv, ServedInv, NEW t \in Thread, NEW o \in Object, NEW n \in Name,
           D!Register(t, o, n)
    PROVE  ServedInv'
<1>1. JobAt(t, "search", "register", o, n) /\ ~Typed(o) /\ UNCHANGED <<list, type, name>>
  BY RegisterKeeps
<1>2. OnlyJob(t) /\ job'[t].obj = o
  BY <1>1 DEF JobAt
<1>3. job[t].obj = NoObject
  BY DEF D!Register, ObjectsInv, Claims, Stage
<1>4. ~Used(o)
  BY <1>1 DEF ServedInv
<1>5. \A p \in Object : (Linked(p)' <=> Linked(p)) /\ (Typed(p)' <=> Typed(p))
  BY <1>1 DEF Linked, Typed
<1>6. \A p \in Object : (Free(p)' => Free(p)) /\ (p # o /\ Free(p) => Free(p)')
  BY <1>2, <1>3, FreeIs, ObjectFacts
<1>7. UNCHANGED <<dev, driver, users, call, early, torn>>
  BY DEF D!Register, D!deviceVars
<1> QED BY <1>4, <1>5, <1>6, <1>7, ServedKept

LEMMA RegisteredServed ==
    ASSUME ObjectsInv, ServedInv, NEW t \in Thread, D!Registered(t)
    PROVE  ServedInv'
<1>1. /\ UNCHANGED <<list, type, name>> /\ job[t].at = "found" /\ job[t].op = "register"
      /\ \/ JobAt(t, "idle", "none", NoObject, "")
         \/ JobAt(t, "search", "init", job[t].obj, job[t].name)
  BY RegisteredKeeps
<1>2. OnlyJob(t) /\ job'[t].obj \in {NoObject, job[t].obj}
  BY <1>1 DEF JobAt
<1>3. ~Linked(job[t].obj) /\ job[t].obj # NoObject
  BY <1>1 DEF ObjectsInv, Claims, Stage
<1>4. \A p \in Object : (Linked(p)' <=> Linked(p)) /\ (Typed(p)' <=> Typed(p))
  BY <1>1 DEF Linked, Typed
<1>5. \A p \in Object : Linked(p) /\ Free(p)' => Free(p)
  BY <1>2, <1>3, FreeIs
<1>6. \A p \in Object : Free(p) => Free(p)'
  BY <1>2, FreeIs, ObjectFacts
<1>7. UNCHANGED <<dev, driver, users, call, early, torn>>
  BY DEF D!Registered, D!deviceVars
<1> QED BY <1>4, <1>5, <1>6, <1>7, ServedKept

(* A device that nobody uses and whose fields are reset is served. *)
LEMMA UnusedPrimed ==
    ASSUME NEW o \in Object, ~Used(o)', dev'[o].ref = 0, ~dev'[o].open
    PROVE  Served(o)'
<1>1. users'[o] = {} /\ \A u \in User : call'[u].obj # o
  BY DEF Used
<1>2. Cardinality(users'[o]) = 0
  BY <1>1, FS_EmptySet
<1> QED BY <1>1, <1>2 DEF Served, CountInv, OpenInv, CloseInv, AloneInv, Engages, In

(* rt_device_register ends: the fields are reset, and nobody has used the    *)
(* device unless too early.                                                  *)
LEMMA ResetServed ==
    ASSUME ObjectsInv, ServedInv, NEW t \in Thread, D!Reset(t)
    PROVE  ServedInv'
<1>1. /\ D!Runs(t) /\ job[t].at = "reset" /\ dev' = [dev EXCEPT ![job[t].obj] = D!Fresh]
      /\ job' = [job EXCEPT ![t] = D!Idle] /\ present' = [present EXCEPT ![t] = {}]
      /\ UNCHANGED <<list, type, name, lock>> /\ UNCHANGED <<driver, users, call, early, torn>>
  BY DEF D!Reset
<1>2. JobAt(t, "idle", "none", NoObject, "") /\ job[t].obj \in Object
  BY <1>1, ResetKeeps
<1>3. PICK o \in Object : o = job[t].obj
  BY <1>2
<1>4. OnlyJob(t) /\ job'[t].obj = NoObject
  BY <1>2 DEF JobAt
<1>5. ~Free(o)
  BY <1>3 DEF Free, D!Unclaimed
<1>6. o \notin early => ~Used(o)
  BY <1>5 DEF ServedInv
<1>7. D!Fresh \in States /\ D!Fresh.ref = 0 /\ ~D!Fresh.open
  BY DEF D!Fresh, States
<1>8. /\ dev' \in [Object -> States]
      /\ dev'[o] = D!Fresh /\ \A p \in Object \ {o} : dev'[p] = dev[p]
  BY <1>1, <1>3, <1>7 DEF ServedInv, DevicesTyped
<1>9. DevicesTyped'
  BY <1>1, <1>8 DEF ServedInv, DevicesTyped
<1>10. \A p \in Object : (Linked(p)' <=> Linked(p)) /\ (Typed(p)' <=> Typed(p))
  BY <1>1 DEF Linked, Typed
<1>11. \A p \in Object : (Free(p) => Free(p)') /\ (p # o /\ Free(p)' => Free(p))
  BY <1>3, <1>4, FreeIs, ObjectFacts
<1>12. \A p \in Object : /\ Clash(p)' <=> Clash(p)
                         /\ Used(p)' <=> Used(p)
                         /\ \A u \in User : CallSound(u, p) => CallSound(u, p)'
  BY <1>1, Zenon DEF Clash, Used, CallSound, In
<1>13. o \notin early => Served(o)'
  BY <1>6, <1>7, <1>8, <1>12, UnusedPrimed
<1>14. \A p \in Object \ {o} : Served(p) => Served(p)'
  BY <1>1, <1>8, OthersServed
<1>15. \A p \in Object : Linked(p)' /\ Free(p)' /\ p \notin (early \cup torn)' => Served(p)'
  BY <1>1, <1>10, <1>11, <1>13, <1>14 DEF ServedInv
<1>16. \A p \in Object : Used(p)' => Linked(p)' /\ Typed(p)' /\ (Free(p)' \/ p \in early')
  BY <1>1, <1>10, <1>11, <1>12 DEF ServedInv
<1> QED BY <1>1, <1>9, <1>12, <1>15, <1>16 DEF ServedInv

LEMMA UnregisterServed ==
    ASSUME ObjectsInv, ServedInv, NEW t \in Thread, NEW o \in Object, D!Unregister(t, o)
    PROVE  ServedInv'
<1>1. /\ JobAt(t, "unlink", "detach", o, "") /\ UNCHANGED <<list, name>>
      /\ \A p \in Object \ {o} : type'[p] = type[p]
  BY TakeDownKeeps DEF D!Unregister
<1>2. /\ ~Used(o) /\ driver' = [driver EXCEPT ![o] = FALSE]
      /\ UNCHANGED <<dev, users, call, early, torn>> /\ job[t].at = "idle"
  BY DEF D!Unregister, D!TakeDown, Used
<1>3. OnlyJob(t) /\ job'[t].obj = o /\ job[t].obj = NoObject
  BY <1>1, <1>2 DEF JobAt, ObjectsInv, Claims, Stage
<1>4. \A p \in Object : /\ Free(p)' => Free(p) /\ p # o
                        /\ p # o /\ Free(p) => Free(p)'
  BY <1>3, FreeIs, ObjectFacts
<1>5. \A p \in Object : Linked(p)' <=> Linked(p)
  BY <1>1 DEF Linked
<1>6. \A p \in Object \ {o} : (Typed(p)' <=> Typed(p)) /\ driver'[p] = driver[p]
  BY <1>1, <1>2 DEF Typed, ServedInv, DevicesTyped
<1>7. DevicesTyped'
  BY <1>2 DEF ServedInv, DevicesTyped
<1>8. \A p \in Object \ {o} : (Served(p) => Served(p)') /\ (Clash(p)' <=> Clash(p))
  BY <1>2, <1>6, OthersServed
<1>9. \A p \in Object : /\ Used(p)' <=> Used(p)
                        /\ \A u \in User : CallSound(u, p) => CallSound(u, p)'
  BY <1>2 DEF Used, CallSound, In
<1>10. ~Clash(o)'
  BY <1>2 DEF Clash, In, Used
<1>11. \A p \in Object : Linked(p)' /\ Free(p)' /\ p \notin (early \cup torn)' => Served(p)'
  BY <1>2, <1>4, <1>5, <1>8 DEF ServedInv
<1>12. \A p \in Object : Used(p)' => Linked(p)' /\ Typed(p)' /\ (Free(p)' \/ p \in early')
  BY <1>2, <1>4, <1>5, <1>6, <1>9 DEF ServedInv
<1>13. \A p \in Object : Clash(p)' => p \in torn'
  BY <1>2, <1>8, <1>10 DEF ServedInv
<1> QED BY <1>7, <1>9, <1>11, <1>12, <1>13 DEF ServedInv

LEMMA UnregisteredServed ==
    ASSUME ObjectsInv, ServedInv, NEW t \in Thread, D!Unregistered(t)
    PROVE  ServedInv'
<1>1. /\ JobAt(t, "idle", "none", NoObject, "") /\ job[t].obj \in Object
      /\ ~Typed(job[t].obj) /\ type' = type /\ ~(job[t].obj \in Elems(list'))
      /\ \A p \in Object \ {job[t].obj} : Linked(p)' <=> Linked(p)
  BY UnlinkKeeps DEF D!Unregistered
<1>2. /\ early' = early \ {job[t].obj} /\ torn' = torn \ {job[t].obj}
      /\ UNCHANGED <<dev, driver, users, call>>
  BY DEF D!Unregistered
<1>3. PICK o \in Object : o = job[t].obj
  BY <1>1
<1>4. OnlyJob(t) /\ job'[t].obj = NoObject
  BY <1>1 DEF JobAt
<1>5. ~Used(o) /\ ~Linked(o)'
  BY <1>1, <1>3 DEF ServedInv, Linked
<1>6. \A p \in Object : (Free(p) => Free(p)') /\ (p # o /\ Free(p)' => Free(p))
  BY <1>3, <1>4, FreeIs, ObjectFacts
<1>7. \A p \in Object : /\ Served(p) => Served(p)'
                        /\ Clash(p)' <=> Clash(p)
                        /\ Used(p)' <=> Used(p)
                        /\ \A u \in User : CallSound(u, p) => CallSound(u, p)'
                        /\ Typed(p)' <=> Typed(p)
  BY <1>1, <1>2, OthersServed DEF Typed
<1>8. DevicesTyped'
  BY <1>2 DEF ServedInv, DevicesTyped
<1>9. \A p \in Object : Linked(p)' /\ Free(p)' /\ p \notin (early \cup torn)' => Served(p)'
  BY <1>1, <1>2, <1>3, <1>5, <1>6, <1>7 DEF ServedInv
<1>10. \A p \in Object : Used(p)' => Linked(p)' /\ Typed(p)' /\ (Free(p)' \/ p \in early')
  BY <1>1, <1>2, <1>3, <1>5, <1>6, <1>7 DEF ServedInv
<1>11. ~Clash(o)
  BY <1>5 DEF Clash, In, Used
<1>12. \A p \in Object : Clash(p)' => p \in torn'
  BY <1>2, <1>3, <1>7, <1>11 DEF ServedInv
<1> QED BY <1>7, <1>8, <1>9, <1>10, <1>12 DEF ServedInv

LEMMA DeviceStepServed ==
    ASSUME ObjectsInv, ServedInv, NEW t \in Thread, D!DeviceStep(t)
    PROVE  ServedInv'
<1>1. CASE D!Compare(t) /\ UNCHANGED D!deviceVars
  <2>1. OnlyJob(t) /\ UNCHANGED <<list, type>> /\ job'[t].obj = job[t].obj
    BY <1>1, CompareKeeps
  <2>2. UNCHANGED <<dev, driver, users, call, early, torn>>
    BY <1>1 DEF D!deviceVars
  <2>3. \A o \in Object : (Linked(o)' <=> Linked(o)) /\ (Typed(o)' <=> Typed(o))
    BY <2>1 DEF Linked, Typed
  <2> QED BY <2>1, <2>2, <2>3, SameServed
<1>2. CASE D!Fields(t) /\ UNCHANGED D!deviceVars
  <2>1. /\ JobAt(t, "insert", job[t].op, job[t].obj, job[t].name) /\ list' = list
        /\ job[t].at = "fields" /\ \A p \in Object \ {job[t].obj} : type'[p] = type[p]
    BY <1>2, FieldsKeeps
  <2>2. UNCHANGED <<dev, driver, users, call, early, torn>>
    BY <1>2 DEF D!deviceVars
  <2>3. OnlyJob(t) /\ job'[t].obj = job[t].obj /\ ~Typed(job[t].obj)
    BY <2>1 DEF JobAt, ObjectsInv, Claims, Stage
  <2>4. /\ \A o \in Object : Linked(o)' <=> Linked(o)
        /\ \A o \in Object : Typed(o) => Typed(o)'
    BY <2>1, <2>3 DEF Linked, Typed
  <2> QED BY <2>2, <2>3, <2>4, SameServed
<1>3. CASE D!Link(t)
  <2>1. /\ JobAt(t, "reset", job[t].op, job[t].obj, job[t].name) /\ type' = type
        /\ ~Linked(job[t].obj)
        /\ \A p \in Object \ {job[t].obj} : Linked(p)' <=> Linked(p)
    BY <1>3, LinkDeviceKeeps
  <2>2. UNCHANGED <<dev, driver, users, call, early, torn>>
    BY <1>3 DEF D!Link
  <2>3. OnlyJob(t) /\ job'[t].obj = job[t].obj
    BY <2>1 DEF JobAt
  <2>4. /\ \A o \in Object : Linked(o) => Linked(o)'
        /\ \A o \in Object : Typed(o) => Typed(o)'
    BY <2>1 DEF Typed
  <2> QED BY <2>1, <2>2, <2>3, <2>4, SameServed
<1> QED BY <1>1, <1>2, <1>3, RegisterServed, RegisteredServed, ResetServed, UnregisterServed,
           UnregisteredServed DEF D!DeviceStep

(* The calls of the users: a step of the call of u with o. *)
Uses(u, o, d, e, w, c) ==
    /\ dev' = [dev EXCEPT ![o] = d] /\ driver' = [driver EXCEPT ![o] = e]
    /\ users' = [users EXCEPT ![o] = w] /\ call' = [call EXCEPT ![u] = c]

(* Whatever a step does to o, the other devices are served as before. *)
LEMMA UseServed ==
    ASSUME ServedInv, NEW u \in User, NEW o \in Object, UNCHANGED <<list, type, job>>,
           NEW d \in States, NEW e \in BOOLEAN, NEW w \in SUBSET User, NEW c \in UserCalls,
           Uses(u, o, d, e, w, c), call[u].obj \in {o, NoObject}, c.obj \in {o, NoObject},
           w \ {u} = users[o] \ {u},
           c.obj = o /\ c.at \in {"c_test", "c_read", "c_write"} => u \in w,
           c.obj = o /\ c.at \in {"o_init", "o_busy"} \cup Taking => u \notin w,
           early \subseteq early', early' \subseteq early \cup {o},
           torn' = (IF D!Overlap(o)' THEN torn \cup {o} ELSE torn),
           Linked(o), Typed(o), Free(o) \/ o \in early',
           Free(o) /\ o \notin (early \cup torn)' => Served(o)'
    PROVE  ServedInv'
<1>1. /\ \A p \in Object : (Linked(p)' <=> Linked(p)) /\ (Typed(p)' <=> Typed(p))
      /\ \A p \in Object : Free(p)' <=> Free(p)
  BY DEF Linked, Typed, Free, D!Unclaimed
<1>2. DevicesTyped
  BY DEF ServedInv
<1>3. /\ dev'[o] = d /\ driver'[o] = e /\ users'[o] = w /\ call'[u] = c
      /\ \A v \in User \ {u} : call'[v] = call[v]
      /\ \A p \in Object \ {o} : /\ dev'[p] = dev[p] /\ driver'[p] = driver[p]
                                 /\ users'[p] = users[p]
  BY <1>2 DEF Uses, DevicesTyped
<1>11. DevicesTyped'
  BY <1>2 DEF Uses, DevicesTyped
<1>4. \A p \in Object \ {o} : \A v \in User :
         call'[v] = call[v] \/ (call[v].obj # p /\ call'[v].obj # p)
  BY <1>3, ObjectFacts
<1>5. \A p \in Object \ {o} : /\ Clash(p)' <=> Clash(p)
                              /\ Served(p) => Served(p)'
                              /\ \A v \in User : CallSound(v, p) => CallSound(v, p)'
                              /\ Used(p)' <=> Used(p)
  BY <1>3, <1>4, OthersServed
<1>6. ASSUME NEW v \in User PROVE CallSound(v, o)'
  <2>1. CASE v = u
    BY <1>3, <2>1 DEF CallSound, In
  <2>2. CASE v # u
    <3>1. CallSound(v, o) /\ call'[v] = call[v] /\ (v \in users'[o] <=> v \in users[o])
      BY <1>3, <2>2 DEF ServedInv
    <3> QED BY <3>1 DEF CallSound, In
  <2> QED BY <2>1, <2>2
<1>7. \A p \in Object : Clash(p)' => p \in torn'
  BY <1>5, OverlapIs DEF ServedInv
<1>8. torn \subseteq torn' /\ torn' \subseteq torn \cup {o}
  OBVIOUS
<1>9. \A p \in Object : Linked(p)' /\ Free(p)' /\ p \notin (early \cup torn)' => Served(p)'
  BY <1>1, <1>5, <1>8 DEF ServedInv
<1>10. \A p \in Object : Used(p)' => Linked(p)' /\ Typed(p)' /\ (Free(p)' \/ p \in early')
  BY <1>1, <1>5 DEF ServedInv
<1> QED BY <1>3, <1>5, <1>6, <1>7, <1>9, <1>10, <1>11 DEF ServedInv

(* A step that at most activates the device, and goes where it may go.       *)
LEMMA MoveServed ==
    ASSUME DevicesTyped, NEW u \in User, NEW o \in Object, Served(o), NEW d \in States,
           NEW c \in UserCalls, Uses(u, o, d, driver[o], users[o], c),
           d.ref = dev[o].ref, d.open = dev[o].open, dev[o].activated => d.activated,
           ~In(u, o, {"o_flag"}), ~In(u, o, {"c_flag"}),
           c.obj = o =>
              /\ c.at \in {"o_write", "c_write"} => c.count = dev[o].ref
              /\ c.at \in {"o_busy"} \cup Taking => d.activated
              /\ c.at \in {"o_flag", "o_read", "o_write"} => driver[o]
              /\ c.at \in {"o_read", "o_write"} => Opened(o)
              /\ c.at \in {"c_driver", "c_flag"} => users[o] = {}
              /\ c.at \in Taking /\ o \in Standalone =>
                    In(u, o, Taking) \/ \A v \in User \ {u} : ~Engages(v, o)
    PROVE  Served(o)'
<1>1. /\ dev'[o] = d /\ driver'[o] = driver[o] /\ users'[o] = users[o] /\ call'[u] = c
      /\ \A v \in User \ {u} : call'[v] = call[v]
  BY DEF Uses, DevicesTyped
<1>2. ASSUME NEW v \in User \ {u}, NEW S PROVE In(v, o, S)' <=> In(v, o, S)
  BY <1>1 DEF In
<1>3. ASSUME NEW S PROVE In(u, o, S)' <=> c.obj = o /\ c.at \in S
  BY <1>1 DEF In
<1>4. CountInv(o)'
  BY <1>1, <1>2, <1>3 DEF Served, CountInv
<1>5. Opened(o) => Opened(o)'
  BY <1>1, <1>2 DEF Opened
<1>6. OpenInv(o)'
  BY <1>1, <1>2, <1>3, <1>5 DEF Served, OpenInv
<1>7. CloseInv(o)'
  BY <1>1, <1>2, <1>3 DEF Served, CloseInv
<1>8. AloneInv(o)'
  <2> SUFFICES ASSUME o \in Standalone, NEW v \in User, NEW x \in User,
                      Engages(v, o)', Engages(x, o)', v # x
               PROVE  FALSE
    BY DEF AloneInv
  <2>1. \A y \in User \ {u} : Engages(y, o)' => Engages(y, o)
    BY <1>1, <1>2 DEF Engages
  <2>2. \A y, z \in User : Engages(y, o) /\ Engages(z, o) => y = z
    BY DEF Served, AloneInv
  <2>3. Engages(u, o)' => Engages(u, o) \/ \A y \in User \ {u} : ~Engages(y, o)
    BY <1>1, <1>3 DEF Engages
  <2> QED BY <2>1, <2>2, <2>3
<1> QED BY <1>4, <1>6, <1>7, <1>8 DEF Served

(* What surrounds a step of a call with o.                                   *)
Around(o) ==
    /\ UNCHANGED <<list, type, job>>
    /\ early \subseteq early' /\ early' \subseteq early \cup {o}
    /\ torn' = IF D!Overlap(o)' THEN torn \cup {o} ELSE torn
    /\ Linked(o) /\ Typed(o) /\ (Free(o) \/ o \in early')

(* The call c with o fits what the user w of o has open.                     *)
Fitting(u, o, w, c) ==
    /\ call[u].obj \in {o, NoObject} /\ c.obj \in {o, NoObject} /\ w \ {u} = users[o] \ {u}
    /\ c.obj = o /\ c.at \in {"c_test", "c_read", "c_write"} => u \in w
    /\ c.obj = o /\ c.at \in {"o_init", "o_busy"} \cup Taking => u \notin w

LEMMA StepServed ==
    ASSUME ServedInv, NEW u \in User, NEW o \in Object, Around(o),
           NEW d \in States, NEW e \in BOOLEAN, NEW w \in SUBSET User, NEW c \in UserCalls,
           Uses(u, o, d, e, w, c), Fitting(u, o, w, c),
           Served(o) /\ ~Clash(o) /\ ~Clash(o)' => Served(o)'
    PROVE  ServedInv'
<1>1. Free(o) /\ o \notin (early \cup torn)' => Served(o)'
  <2> SUFFICES ASSUME Free(o), o \notin (early \cup torn)' PROVE Served(o)'
    OBVIOUS
  <2>1. o \notin early \cup torn /\ ~D!Overlap(o)'
    BY DEF Around
  <2>2. ~Clash(o)' /\ ~Clash(o) /\ Served(o)
    BY <2>1, OverlapIs DEF ServedInv, Around
  <2> QED BY <2>2
<1> QED BY <1>1, UseServed DEF Around, Fitting

(* A call may go on as c without changing more than d does. *)
MayGo(u, o, d, c) ==
    /\ d.ref = dev[o].ref /\ d.open = dev[o].open /\ (dev[o].activated => d.activated)
    /\ ~In(u, o, {"o_flag"}) /\ ~In(u, o, {"c_flag"})
    /\ c.obj = o =>
         /\ c.at \in {"o_write", "c_write"} => c.count = dev[o].ref
         /\ c.at \in {"o_busy"} \cup Taking => d.activated
         /\ c.at \in {"o_flag", "o_read", "o_write"} => driver[o]
         /\ c.at \in {"o_read", "o_write"} => Opened(o)
         /\ c.at \in {"c_driver", "c_flag"} => users[o] = {}
         /\ c.at \in Taking /\ o \in Standalone =>
               In(u, o, Taking) \/ \A v \in User \ {u} : ~Engages(v, o)

LEMMA GoServed ==
    ASSUME ServedInv, NEW u \in User, NEW o \in Object, Around(o),
           NEW d \in States, NEW c \in UserCalls,
           Uses(u, o, d, driver[o], users[o], c), Fitting(u, o, users[o], c),
           Served(o) /\ ~Clash(o) /\ ~Clash(o)' => MayGo(u, o, d, c)
    PROVE  ServedInv'
<1>1. DevicesTyped /\ driver[o] \in BOOLEAN /\ users[o] \in SUBSET User
  BY DEF ServedInv, DevicesTyped
<1>2. Served(o) /\ ~Clash(o) /\ ~Clash(o)' => Served(o)'
  BY <1>1, MoveServed DEF MayGo
<1> QED BY <1>1, <1>2, StepServed

(* The calls as records. *)
LEMMA CallIs ==
    ASSUME DevicesTyped, NEW u \in User
    PROVE  /\ call[u] \in UserCalls
           /\ \A a \in CallPlaces : /\ [call[u] EXCEPT !.at = a] \in UserCalls
                                    /\ [call[u] EXCEPT !.at = a].at = a
                                    /\ [call[u] EXCEPT !.at = a].obj = call[u].obj
                                    /\ [call[u] EXCEPT !.at = a].count = call[u].count
           /\ D!Out \in UserCalls /\ D!Out.at = "out" /\ D!Out.obj = NoObject
           /\ \A a \in CallPlaces, o \in Object :
                 /\ [D!Out EXCEPT !.at = a, !.obj = o] \in UserCalls
                 /\ [D!Out EXCEPT !.at = a, !.obj = o].at = a
                 /\ [D!Out EXCEPT !.at = a, !.obj = o].obj = o
<1>1. call[u] \in UserCalls
  BY DEF DevicesTyped
<1>2. D!Out \in UserCalls /\ D!Out.at = "out" /\ D!Out.obj = NoObject
  BY DEF D!Out, UserCalls, CallPlaces
<1> QED BY <1>1, <1>2 DEF UserCalls

LEMMA StateIs ==
    ASSUME DevicesTyped, NEW o \in Object
    PROVE  /\ dev[o] \in States /\ driver[o] \in BOOLEAN /\ users[o] \in SUBSET User
           /\ dev' = dev => dev' = [dev EXCEPT ![o] = dev[o]]
           /\ driver' = driver => driver' = [driver EXCEPT ![o] = driver[o]]
           /\ users' = users => users' = [users EXCEPT ![o] = users[o]]
BY DEF DevicesTyped

(* The same device, and the call goes on. *)
LEMMA SameGoes ==
    ASSUME ServedInv, NEW u \in User, NEW o \in Object, Around(o), NEW c \in UserCalls,
           UNCHANGED <<dev, driver, users>>, call' = [call EXCEPT ![u] = c],
           Fitting(u, o, users[o], c),
           Served(o) /\ ~Clash(o) /\ ~Clash(o)' => MayGo(u, o, dev[o], c)
    PROVE  ServedInv'
<1>1. dev[o] \in States /\ Uses(u, o, dev[o], driver[o], users[o], c)
  BY StateIs DEF Uses, ServedInv
<1> QED BY <1>1, GoServed

LEMMA EnterServed ==
    ASSUME ServedInv, NEW u \in User, NEW o \in Object, Around(o), call[u] = D!Out,
           D!BeginInit(u, o) \/ D!BeginOpen(u, o) \/ D!BeginClose(u, o)
    PROVE  ServedInv'
<1>1. PICK a \in {"i_init", "o_init", "o_busy", "c_test"} :
         /\ call' = [call EXCEPT ![u] = [D!Out EXCEPT !.at = a, !.obj = o]]
         /\ UNCHANGED <<dev, driver, users>>
         /\ a \in {"o_init", "o_busy"} => u \notin users[o]
         /\ a = "o_busy" => dev[o].activated
         /\ a = "c_test" => u \in users[o]
  BY DEF D!BeginInit, D!BeginOpen, D!BeginClose, D!Begin
<1>2. a \in CallPlaces /\ D!Out.obj = NoObject /\ D!Out.at = "out"
  BY DEF CallPlaces, D!Out
<1>3. PICK c \in UserCalls : c = [D!Out EXCEPT !.at = a, !.obj = o]
  BY <1>2, CallIs DEF ServedInv
<1>4. c.at = a /\ c.obj = o
  BY <1>2, <1>3, CallIs DEF ServedInv
<1>5. Fitting(u, o, users[o], c)
  BY <1>1, <1>2, <1>4 DEF Fitting, Taking
<1>6. MayGo(u, o, dev[o], c)
  BY <1>1, <1>2, <1>4, ObjectFacts DEF MayGo, In, Taking
<1> QED BY <1>1, <1>3, <1>5, <1>6, SameGoes

(* A call ends, and nothing more. *)
LEMMA OverServed ==
    ASSUME ServedInv, NEW u \in User, NEW o \in Object, Around(o), call[u].obj = o,
           UNCHANGED <<dev, driver, users>>, D!Over(u), call[u].at \notin {"o_flag", "c_flag"}
    PROVE  ServedInv'
<1>1. D!Out \in UserCalls /\ D!Out.obj = NoObject
  BY CallIs DEF ServedInv
<1>2. Fitting(u, o, users[o], D!Out) /\ MayGo(u, o, dev[o], D!Out)
  BY <1>1, ObjectFacts DEF Fitting, MayGo, In
<1> QED BY <1>1, <1>2, SameGoes DEF D!Over

(* A driver that is initialised while it is open is an overlap. *)
LEMMA InitialiseServed ==
    ASSUME ServedInv, NEW u \in User, NEW o \in Object, Around(o), call[u].obj = o,
           D!Initialise(u, o)
    PROVE  ServedInv'
<1>1. PICK e \in {driver[o], FALSE} : driver' = [driver EXCEPT ![o] = e]
  BY DEF D!Initialise
<1>2. users' = users /\ In(u, o, {"i_init", "o_init"})
  BY DEF D!Initialise, In
<1>3. DevicesTyped /\ CallSound(u, o)
  BY DEF ServedInv
<1>4. PICK c \in UserCalls :
         /\ call' = [call EXCEPT ![u] = c]
         /\ \/ c.at = "out" /\ c.obj = NoObject
            \/ c.at = "o_busy" /\ c.obj = o /\ call[u].at = "o_init"
         /\ dev' = [dev EXCEPT ![o].activated = TRUE] \/ (c.at = "out" /\ dev' = dev)
  <2>1. CASE D!Over(u)
    BY <2>1, <1>3, CallIs DEF D!Initialise, D!Over
  <2>2. CASE D!On(u, "o_busy") /\ call[u].at = "o_init" /\ dev' = [dev EXCEPT ![o].activated = TRUE]
    <3>1. "o_busy" \in CallPlaces
      BY DEF CallPlaces
    <3>2. PICK c \in UserCalls : c = [call[u] EXCEPT !.at = "o_busy"]
      BY <3>1, <1>3, CallIs
    <3>3. c.at = "o_busy" /\ c.obj = o
      BY <3>1, <3>2, <1>3, CallIs
    <3>4. call' = [call EXCEPT ![u] = c]
      BY <2>2, <3>2 DEF D!On
    <3> QED BY <2>2, <3>3, <3>4
  <2> QED BY <2>1, <2>2 DEF D!Initialise
<1>5. PICK d \in States : /\ dev' = [dev EXCEPT ![o] = d]
                          /\ d.ref = dev[o].ref /\ d.open = dev[o].open
                          /\ dev[o].activated => d.activated
                          /\ c.at = "o_busy" => d.activated
  <2>1. CASE dev' = dev /\ c.at = "out"
    <3>1. dev[o] \in States /\ dev' = [dev EXCEPT ![o] = dev[o]]
      BY <1>3, <2>1, StateIs
    <3> QED BY <2>1, <3>1
  <2>2. CASE dev' = [dev EXCEPT ![o].activated = TRUE]
    <3>1. PICK d \in States : d = [dev[o] EXCEPT !.activated = TRUE]
      BY <1>3, StateIs DEF States
    <3>2. dev' = [dev EXCEPT ![o] = d]
      BY <1>3, <2>2, <3>1 DEF DevicesTyped
    <3>3. d.ref = dev[o].ref /\ d.open = dev[o].open /\ d.activated
      BY <1>3, <3>1, StateIs DEF States
    <3> QED BY <3>2, <3>3
  <2> QED BY <1>4, <2>1, <2>2
<1>6. Uses(u, o, d, e, users[o], c) /\ e \in BOOLEAN /\ users[o] \in SUBSET User
  BY <1>1, <1>2, <1>3, <1>4, <1>5, StateIs DEF Uses
<1>7. Fitting(u, o, users[o], c)
  BY <1>2, <1>3, <1>4 DEF Fitting, CallSound, In, Taking
<1>8. ASSUME Served(o), ~Clash(o) PROVE Served(o)'
  <2>1. e = driver[o]
    <3>1. ~driver[o]
      BY <1>2, <1>8 DEF Clash
    <3>2. driver[o] \in BOOLEAN
      BY <1>3 DEF DevicesTyped
    <3> QED BY <1>1, <3>1, <3>2
  <2>2. ~In(u, o, {"o_flag"}) /\ ~In(u, o, {"c_flag"})
    BY <1>2 DEF In
  <2>3. Uses(u, o, d, driver[o], users[o], c)
    BY <1>6, <2>1
  <2> QED BY <1>3, <1>4, <1>5, <1>8, <2>2, <2>3, MoveServed DEF Taking
<1> QED BY <1>6, <1>7, <1>8, StepServed

(* The call goes on at another place, and nothing more. *)
LEMMA OnServed ==
    ASSUME ServedInv, NEW u \in User, NEW o \in Object, Around(o), call[u].obj = o,
           UNCHANGED <<dev, driver, users>>, NEW a \in CallPlaces, D!On(u, a),
           NEW c \in UserCalls, c = [call[u] EXCEPT !.at = a],
           Fitting(u, o, users[o], c),
           Served(o) /\ ~Clash(o) /\ ~Clash(o)' => MayGo(u, o, dev[o], c)
    PROVE  ServedInv'
<1>1. call' = [call EXCEPT ![u] = c]
  BY DEF D!On
<1> QED BY <1>1, SameGoes

(* Two calls past the test of a stand-alone device overlap. *)
LEMMA TestBusyServed ==
    ASSUME ServedInv, NEW u \in User, NEW o \in Object, Around(o), call[u].obj = o,
           D!TestBusy(u, o)
    PROVE  ServedInv'
<1>1. CASE o \in Standalone /\ dev[o].open
  BY <1>1, OverServed DEF D!TestBusy
<1>2. CASE ~(o \in Standalone /\ dev[o].open)
  <2>1. call[u].at = "o_busy" /\ D!On(u, "o_driver") /\ UNCHANGED <<dev, driver, users>>
    BY <1>2 DEF D!TestBusy
  <2>2. "o_driver" \in CallPlaces /\ DevicesTyped /\ CallSound(u, o)
    BY DEF CallPlaces, Taking, ServedInv
  <2>3. PICK c \in UserCalls : c = [call[u] EXCEPT !.at = "o_driver"]
    BY <2>2, CallIs
  <2>4. c.at = "o_driver" /\ c.obj = o
    BY <2>2, <2>3, CallIs
  <2>5. call'[u] = c /\ \A v \in User \ {u} : call'[v] = call[v]
    BY <2>1, <2>2, <2>3 DEF D!On, DevicesTyped
  <2>6. Fitting(u, o, users[o], c)
    BY <2>1, <2>2, <2>4 DEF Fitting, CallSound, In, Taking
  <2>7. ASSUME Served(o), ~Clash(o)', o \in Standalone, NEW v \in User \ {u}, Engages(v, o)
        PROVE  FALSE
    <3>1. ~Opened(o) \/ \E x \in User : In(x, o, {"o_flag"})
      BY <1>2, <2>7 DEF Opened
    <3>2. In(u, o, {"o_driver"})'
      BY <2>4, <2>5 DEF In
    <3>3. \A x \in User : ~In(x, o, {"o_driver", "o_flag"}) \/ x = u
      <4> SUFFICES ASSUME NEW x \in User \ {u}, In(x, o, {"o_driver", "o_flag"}) PROVE FALSE
        OBVIOUS
      <4>1. In(x, o, {"o_driver", "o_flag"})' /\ In(u, o, {"o_driver", "o_flag"})'
        BY <2>5, <3>2 DEF In
      <4> QED BY <4>1, <2>7 DEF Clash
    <3>4. ~Opened(o)
      BY <2>1, <3>1, <3>3 DEF In
    <3>5. users[o] = {} /\ ~In(v, o, {"o_read", "o_write"})
      BY <2>7, <3>4 DEF Served, OpenInv
    <3> QED BY <2>7, <3>3, <3>5 DEF Engages, In, Taking
  <2>8. ASSUME Served(o), ~Clash(o)' PROVE MayGo(u, o, dev[o], c)
    <3>1. dev[o].activated
      BY <2>1, <2>8 DEF Served, OpenInv, In
    <3> QED BY <2>1, <2>4, <2>7, <2>8, <3>1 DEF MayGo, In
  <2> QED BY <2>1, <2>2, <2>3, <2>6, <2>8, OnServed
<1> QED BY <1>1, <1>2

LEMMA ReadCountServed ==
    ASSUME ServedInv, NEW u \in User, NEW o \in Object, Around(o), call[u].obj = o,
           D!ReadCount(u, o)
    PROVE  ServedInv'
<1>1. PICK a \in {"o_write", "c_write"} :
         /\ call[u].at = IF a = "o_write" THEN "o_read" ELSE "c_read"
         /\ call' = [call EXCEPT ![u] = [call[u] EXCEPT !.at = a, !.count = dev[o].ref]]
         /\ UNCHANGED <<dev, driver, users>>
  BY DEF D!ReadCount, ServedInv, DevicesTyped
<1>2. DevicesTyped /\ CallSound(u, o) /\ dev[o].ref \in Nat
  BY DEF ServedInv, DevicesTyped, States
<1>3. PICK c \in UserCalls : /\ c = [call[u] EXCEPT !.at = a, !.count = dev[o].ref]
                             /\ c.at = a /\ c.obj = o /\ c.count = dev[o].ref
  <2>1. call[u] \in UserCalls /\ a \in CallPlaces
    BY <1>2 DEF DevicesTyped, CallPlaces, Taking
  <2>2. PICK c \in UserCalls : c = [call[u] EXCEPT !.at = a, !.count = dev[o].ref]
    <3>1. [call[u] EXCEPT !.at = a, !.count = dev[o].ref] \in UserCalls
      BY <1>2, <2>1 DEF UserCalls
    <3> QED BY <3>1, Zenon
  <2>3. c.at = a /\ c.obj = call[u].obj /\ c.count = dev[o].ref
    BY <2>1, <2>2 DEF UserCalls
  <2> QED BY <2>2, <2>3
<1>4. Fitting(u, o, users[o], c)
  BY <1>1, <1>2, <1>3 DEF Fitting, CallSound, In, Taking
<1>5. ASSUME Served(o) PROVE MayGo(u, o, dev[o], c)
  <2>1. a = "o_write" => In(u, o, {"o_read"}) /\ In(u, o, Taking) /\ In(u, o, {"o_flag", "o_read", "o_write"})
    BY <1>1 DEF In, Taking
  <2>2. a = "o_write" => dev[o].activated /\ driver[o] /\ Opened(o)
    BY <1>5, <2>1 DEF Served, OpenInv, In, Taking
  <2> QED BY <1>1, <1>3, <2>1, <2>2 DEF MayGo, In, Taking
<1> QED BY <1>1, <1>3, <1>4, <1>5, SameGoes

(* A count of 0 is one of no users. *)
LEMMA CountsNone ==
    ASSUME ServedInv, NEW o \in Object, Served(o)
    PROVE  dev[o].ref = 0 <=> users[o] = {}
<1>1. dev[o].ref = Cardinality(users[o]) /\ IsFiniteSet(users[o])
  BY UsersFew DEF Served, CountInv, ServedInv, DevicesTyped
<1> QED BY <1>1, FS_EmptySet

LEMMA TestLastServed ==
    ASSUME ServedInv, NEW u \in User, NEW o \in Object, Around(o), call[u].obj = o,
           D!TestLast(u, o)
    PROVE  ServedInv'
<1>1. CASE dev[o].ref # 0
  BY <1>1, OverServed DEF D!TestLast
<1>2. CASE dev[o].ref = 0
  <2>1. call[u].at = "c_last" /\ D!On(u, "c_driver") /\ UNCHANGED <<dev, driver, users>>
    BY <1>2 DEF D!TestLast
  <2>2. "c_driver" \in CallPlaces /\ DevicesTyped
    BY DEF CallPlaces, ServedInv
  <2>3. PICK c \in UserCalls : c = [call[u] EXCEPT !.at = "c_driver"]
    BY <2>2, CallIs
  <2>4. c.at = "c_driver" /\ c.obj = o
    BY <2>2, <2>3, CallIs
  <2>5. Fitting(u, o, users[o], c)
    BY <2>4 DEF Fitting, Taking
  <2>6. ASSUME Served(o) PROVE MayGo(u, o, dev[o], c)
    <3>1. users[o] = {}
      BY <1>2, <2>6, CountsNone
    <3> QED BY <2>1, <2>4, <3>1 DEF MayGo, In, Taking
  <2> QED BY <2>1, <2>2, <2>3, <2>5, <2>6, OnServed
<1> QED BY <1>1, <1>2

(* What a step of the call of u with o leaves. *)
LEMMA UsesEffect ==
    ASSUME DevicesTyped, NEW u \in User, NEW o \in Object, NEW d, NEW e, NEW w, NEW c,
           Uses(u, o, d, e, w, c)
    PROVE  /\ dev'[o] = d /\ driver'[o] = e /\ users'[o] = w /\ call'[u] = c
           /\ \A v \in User \ {u} : call'[v] = call[v]
BY DEF Uses, DevicesTyped

(* A state of the device with another field. *)
LEMMA OpenIs ==
    ASSUME DevicesTyped, NEW o \in Object
    PROVE  \A b \in BOOLEAN : \E d \in States :
              /\ [dev EXCEPT ![o].open = b] = [dev EXCEPT ![o] = d]
              /\ d.open = b /\ d.activated = dev[o].activated /\ d.ref = dev[o].ref
<1> SUFFICES ASSUME NEW b \in BOOLEAN
             PROVE  \E d \in States :
                       /\ [dev EXCEPT ![o].open = b] = [dev EXCEPT ![o] = d]
                       /\ d.open = b /\ d.activated = dev[o].activated /\ d.ref = dev[o].ref
  OBVIOUS
<1>1. dev[o] \in States
  BY DEF DevicesTyped
<1>2. [dev[o] EXCEPT !.open = b] \in States
  BY <1>1 DEF States
<1>3. PICK d \in States : d = [dev[o] EXCEPT !.open = b]
  BY <1>2, Zenon
<1>4. d.open = b /\ d.activated = dev[o].activated /\ d.ref = dev[o].ref
  BY <1>1, <1>3 DEF States
<1> QED BY <1>3, <1>4

LEMMA CountIs ==
    ASSUME DevicesTyped, NEW o \in Object, NEW n \in Nat
    PROVE  /\ [dev[o] EXCEPT !.ref = n] \in States
           /\ [dev[o] EXCEPT !.ref = n].open = dev[o].open
           /\ [dev[o] EXCEPT !.ref = n].activated = dev[o].activated
           /\ [dev[o] EXCEPT !.ref = n].ref = n
<1>1. dev[o] \in States
  BY DEF DevicesTyped
<1> QED BY <1>1 DEF States

(* The call of u as it goes on. *)
LEMMA CallOn ==
    ASSUME DevicesTyped, NEW u \in User, NEW o \in Object, call[u].obj = o,
           NEW a \in CallPlaces, D!On(u, a)
    PROVE  \E c \in UserCalls : /\ call' = [call EXCEPT ![u] = c]
                                /\ c.at = a /\ c.obj = o
<1>1. PICK c \in UserCalls : c = [call[u] EXCEPT !.at = a]
  BY CallIs
<1>2. c.at = a /\ c.obj = o
  BY <1>1, CallIs
<1> QED BY <1>1, <1>2 DEF D!On

LEMMA OpenDriverServed ==
    ASSUME ServedInv, NEW u \in User, NEW o \in Object, Around(o), call[u].obj = o,
           D!OpenDriver(u, o)
    PROVE  ServedInv'
<1>1. DevicesTyped /\ CallSound(u, o) /\ call[u].at = "o_driver"
  BY DEF ServedInv, D!OpenDriver
<1>2. CASE D!Over(u) /\ UNCHANGED <<dev, driver, users>>
  BY <1>1, <1>2, OverServed
<1>3. CASE /\ driver' = [driver EXCEPT ![o] = TRUE]
           /\ dev' = IF o \in Bare THEN [dev EXCEPT ![o].open = FALSE] ELSE dev
           /\ D!On(u, "o_flag") /\ UNCHANGED users
  <2>1. PICK c \in UserCalls : call' = [call EXCEPT ![u] = c] /\ c.at = "o_flag" /\ c.obj = o
    <3>1. "o_flag" \in CallPlaces
      BY DEF CallPlaces, Taking
    <3> QED BY <1>1, <1>3, <3>1, CallOn
  <2>2. PICK d \in States : /\ dev' = [dev EXCEPT ![o] = d]
                            /\ d.activated = dev[o].activated /\ d.ref = dev[o].ref
                            /\ o \notin Bare => d.open = dev[o].open
    BY <1>1, <1>3, StateIs, OpenIs
  <2>3. Uses(u, o, d, TRUE, users[o], c) /\ users[o] \in SUBSET User
    BY <1>1, <1>3, <2>1, <2>2, StateIs DEF Uses
  <2>4. Fitting(u, o, users[o], c)
    BY <1>1, <2>1 DEF Fitting, CallSound, In, Taking
  <2>5. ASSUME Served(o) PROVE Served(o)'
    <3>1. /\ dev'[o] = d /\ driver'[o] = TRUE /\ users'[o] = users[o] /\ call'[u] = c
          /\ \A v \in User \ {u} : call'[v] = call[v]
      BY <1>1, <2>3 DEF Uses, DevicesTyped
    <3>8. ASSUME NEW v \in User \ {u}, NEW S PROVE In(v, o, S)' <=> In(v, o, S)
      BY <3>1 DEF In
    <3>9. ASSUME NEW S PROVE In(u, o, S)' <=> "o_flag" \in S
      BY <2>1, <3>1 DEF In
    <3>2. In(u, o, Taking) /\ dev[o].activated
      BY <1>1, <2>5 DEF Served, OpenInv, In, Taking
    <3>3. CountInv(o)'
      BY <2>2, <2>5, <3>1, <3>8, <3>9 DEF Served, CountInv
    <3>4. Opened(o) => Opened(o)'
      BY <2>2, <3>1, <3>8, <3>9 DEF Opened
    <3>5. OpenInv(o)'
      BY <2>2, <2>5, <3>1, <3>2, <3>4, <3>8, <3>9 DEF Served, OpenInv
    <3>6. CloseInv(o)'
      BY <2>5, <3>1, <3>8, <3>9 DEF Served, CloseInv
    <3>7. \A v \in User : Engages(v, o)' => Engages(v, o)
      BY <3>1, <3>2, <3>8, <3>9 DEF Engages
    <3> QED BY <2>5, <3>3, <3>5, <3>6, <3>7 DEF Served, AloneInv
  <2> QED BY <2>3, <2>4, <2>5, StepServed
<1> QED BY <1>2, <1>3 DEF D!OpenDriver

LEMMA SetOpenServed ==
    ASSUME ServedInv, NEW u \in User, NEW o \in Object, Around(o), call[u].obj = o,
           D!SetOpen(u, o)
    PROVE  ServedInv'
<1>1. DevicesTyped /\ CallSound(u, o) /\ call[u].at = "o_flag"
  BY DEF ServedInv, D!SetOpen
<1>2. PICK c \in UserCalls : call' = [call EXCEPT ![u] = c] /\ c.at = "o_read" /\ c.obj = o
  <2>1. "o_read" \in CallPlaces
    BY DEF CallPlaces, Taking
  <2> QED BY <1>1, <2>1, CallOn DEF D!SetOpen
<1>3. PICK d \in States : /\ dev' = [dev EXCEPT ![o] = d] /\ d.open
                          /\ d.activated = dev[o].activated /\ d.ref = dev[o].ref
  BY <1>1, OpenIs DEF D!SetOpen
<1>4. Uses(u, o, d, driver[o], users[o], c) /\ users[o] \in SUBSET User /\ driver[o] \in BOOLEAN
  BY <1>1, <1>2, <1>3, StateIs DEF Uses, D!SetOpen
<1>5. Fitting(u, o, users[o], c)
  BY <1>1, <1>2 DEF Fitting, CallSound, In, Taking
<1>6. ASSUME Served(o) PROVE Served(o)'
  <2>1. /\ dev'[o] = d /\ driver'[o] = driver[o] /\ users'[o] = users[o] /\ call'[u] = c
        /\ \A v \in User \ {u} : call'[v] = call[v]
    BY <1>1, <1>4, UsesEffect
  <2>8. ASSUME NEW v \in User \ {u}, NEW S PROVE In(v, o, S)' <=> In(v, o, S)
    BY <2>1 DEF In
  <2>9. ASSUME NEW S PROVE In(u, o, S)' <=> "o_read" \in S
    BY <1>2, <2>1 DEF In
  <2>2. In(u, o, Taking) /\ dev[o].activated /\ driver[o]
    BY <1>1, <1>6 DEF Served, OpenInv, In, Taking
  <2>3. CountInv(o)'
    BY <1>3, <1>6, <2>1, <2>8, <2>9 DEF Served, CountInv
  <2>4. Opened(o)'
    BY <1>3, <2>1, <2>8, <2>9 DEF Opened
  <2>5. OpenInv(o)'
    BY <1>3, <1>6, <2>1, <2>2, <2>4, <2>8, <2>9 DEF Served, OpenInv
  <2>6. CloseInv(o)'
    BY <1>6, <2>1, <2>2, <2>8, <2>9 DEF Served, CloseInv
  <2>7. \A v \in User : Engages(v, o)' => Engages(v, o)
    BY <2>1, <2>2, <2>8, <2>9 DEF Engages
  <2> QED BY <1>6, <2>3, <2>5, <2>6, <2>7 DEF Served, AloneInv
<1> QED BY <1>4, <1>5, <1>6, StepServed

(* The count that is written is the one after the user has joined.           *)
LEMMA WriteMoreServed ==
    ASSUME ServedInv, NEW u \in User, NEW o \in Object, Around(o), call[u].obj = o,
           D!WriteMore(u, o)
    PROVE  ServedInv'
<1>1. /\ DevicesTyped /\ CallSound(u, o) /\ call[u].at = "o_write" /\ call[u].count \in Nat
      /\ (call[u].count + 1) % 256 \in Nat
  BY DEF ServedInv, DevicesTyped, UserCalls, D!WriteMore
<1>2. PICK c \in UserCalls : call' = [call EXCEPT ![u] = c] /\ c.at = "out" /\ c.obj = NoObject
  BY <1>1, CallIs DEF D!WriteMore, D!Over
<1>3. PICK d \in States : /\ dev' = [dev EXCEPT ![o] = d] /\ d.open = dev[o].open
                          /\ d.activated = dev[o].activated /\ d.ref = (call[u].count + 1) % 256
  <2>1. PICK n \in Nat : n = (call[u].count + 1) % 256
    BY <1>1
  <2>2. PICK d \in States : d = [dev[o] EXCEPT !.ref = n]
    BY <1>1, <2>1, CountIs
  <2>3. d.open = dev[o].open /\ d.activated = dev[o].activated /\ d.ref = n
    BY <1>1, <2>1, <2>2, CountIs
  <2>4. dev' = [dev EXCEPT ![o] = d]
    BY <2>1, <2>2 DEF D!WriteMore
  <2> QED BY <2>1, <2>3, <2>4
<1>4. PICK w \in SUBSET User : w = users[o] \cup {u}
  BY <1>1 DEF DevicesTyped
<1>5. Uses(u, o, d, driver[o], w, c) /\ driver[o] \in BOOLEAN
  BY <1>1, <1>2, <1>3, <1>4, StateIs DEF Uses, D!WriteMore
<1>6. Fitting(u, o, w, c)
  BY <1>2, <1>4, ObjectFacts DEF Fitting
<1>7. ASSUME Served(o), ~Clash(o) PROVE Served(o)'
  <2>1. /\ dev'[o] = d /\ driver'[o] = driver[o] /\ users'[o] = w /\ call'[u] = c
        /\ \A v \in User \ {u} : call'[v] = call[v]
    BY <1>1, <1>5, UsesEffect
  <2>2. ASSUME NEW v \in User \ {u}, NEW S PROVE In(v, o, S)' <=> In(v, o, S)
    BY <2>1 DEF In
  <2>3. ASSUME NEW S PROVE ~In(u, o, S)'
    BY <1>2, <2>1, ObjectFacts DEF In
  <2>4. In(u, o, Taking) /\ dev[o].activated /\ driver[o] /\ Opened(o) /\ u \notin users[o]
    BY <1>1, <1>7 DEF Served, OpenInv, CallSound, In, Taking
  <2>5. d.ref = Cardinality(w)
    <3>1. call[u].count = Cardinality(users[o])
      BY <1>1, <1>7 DEF Served, CountInv, In
    <3>2. IsFiniteSet(users[o]) /\ Cardinality(users[o]) \in Nat /\ Cardinality(w) \in 0..255
      BY <1>1, UsersFew DEF DevicesTyped
    <3>3. Cardinality(w) = Cardinality(users[o]) + 1
      BY <1>4, <2>4, <3>2, FS_AddElement
    <3>4. d.ref = Cardinality(w) % 256
      BY <1>3, <3>1, <3>3
    <3> QED BY <3>2, <3>4
  <2>6. CountInv(o)'
    <3>1. \A v \in User \ {u} : ~In(v, o, {"o_write", "c_write"})
      BY <1>1, <1>7 DEF Clash, In
    <3> QED BY <2>1, <2>2, <2>3, <2>5, <3>1 DEF CountInv
  <2>7. Opened(o)'
    BY <1>1, <1>3, <2>1, <2>2, <2>4 DEF Opened, In
  <2>8. OpenInv(o)'
    BY <1>3, <1>7, <2>1, <2>2, <2>3, <2>4, <2>7 DEF Served, OpenInv
  <2>9. CloseInv(o)'
    <3>1. \A v \in User : ~In(v, o, {"c_driver", "c_flag"})
      BY <1>1, <1>7 DEF Clash, In
    <3> QED BY <2>1, <2>2, <2>3, <2>4, <3>1 DEF CloseInv
  <2>10. \A v \in User : Engages(v, o)' => Engages(v, o)
    BY <1>4, <2>1, <2>2, <2>3, <2>4 DEF Engages
  <2> QED BY <1>7, <2>6, <2>8, <2>9, <2>10 DEF Served, AloneInv
<1> QED BY <1>5, <1>6, <1>7, StepServed

(* A user that closes finds its own count. *)
LEMMA TestUsedServed ==
    ASSUME ServedInv, NEW u \in User, NEW o \in Object, Around(o), call[u].obj = o,
           D!TestUsed(u, o)
    PROVE  ServedInv'
<1>1. /\ DevicesTyped /\ CallSound(u, o) /\ call[u].at = "c_test" /\ u \in users[o]
      /\ UNCHANGED <<dev, driver>>
  BY DEF ServedInv, D!TestUsed, CallSound, In
<1>2. CASE dev[o].ref = 0
  <2>1. PICK c \in UserCalls : call' = [call EXCEPT ![u] = c] /\ c.at = "out" /\ c.obj = NoObject
    BY <1>1, <1>2, CallIs DEF D!TestUsed, D!Over
  <2>2. PICK w \in SUBSET User : w = users[o] \ {u}
    BY <1>1 DEF DevicesTyped
  <2>3. Uses(u, o, dev[o], driver[o], w, c) /\ driver[o] \in BOOLEAN /\ dev[o] \in States
    BY <1>1, <1>2, <2>1, <2>2, StateIs DEF Uses, D!TestUsed
  <2>4. Fitting(u, o, w, c)
    BY <2>1, <2>2, ObjectFacts DEF Fitting
  <2>5. ~Served(o)
    BY <1>1, <1>2, CountsNone
  <2> QED BY <2>3, <2>4, <2>5, StepServed
<1>3. CASE dev[o].ref # 0
  <2>1. D!On(u, "c_read") /\ UNCHANGED users
    BY <1>3 DEF D!TestUsed
  <2>2. "c_read" \in CallPlaces
    BY DEF CallPlaces
  <2>3. PICK c \in UserCalls : c = [call[u] EXCEPT !.at = "c_read"]
    BY <1>1, <2>2, CallIs
  <2>4. c.at = "c_read" /\ c.obj = o
    BY <1>1, <2>2, <2>3, CallIs
  <2>5. Fitting(u, o, users[o], c)
    BY <1>1, <2>4 DEF Fitting, Taking
  <2>6. MayGo(u, o, dev[o], c)
    BY <1>1, <2>4 DEF MayGo, In, Taking
  <2> QED BY <1>1, <2>1, <2>2, <2>3, <2>5, <2>6, OnServed
<1> QED BY <1>2, <1>3

LEMMA WriteLessServed ==
    ASSUME ServedInv, NEW u \in User, NEW o \in Object, Around(o), call[u].obj = o,
           D!WriteLess(u, o)
    PROVE  ServedInv'
<1>1. /\ DevicesTyped /\ CallSound(u, o) /\ call[u].at = "c_write" /\ call[u].count \in Nat
      /\ (call[u].count - 1) % 256 \in Nat
  BY DEF ServedInv, DevicesTyped, UserCalls, D!WriteLess
<1>2. PICK c \in UserCalls : call' = [call EXCEPT ![u] = c] /\ c.at = "c_last" /\ c.obj = o
  <2>1. "c_last" \in CallPlaces
    BY DEF CallPlaces
  <2>2. PICK c \in UserCalls : c = [D!Out EXCEPT !.at = "c_last", !.obj = o]
    BY <1>1, <2>1, CallIs
  <2>3. c.at = "c_last" /\ c.obj = o
    BY <1>1, <2>1, <2>2, CallIs
  <2> QED BY <2>2, <2>3 DEF D!WriteLess, D!Begin
<1>3. PICK d \in States : /\ dev' = [dev EXCEPT ![o] = d] /\ d.open = dev[o].open
                          /\ d.activated = dev[o].activated /\ d.ref = (call[u].count - 1) % 256
  <2>1. PICK n \in Nat : n = (call[u].count - 1) % 256
    BY <1>1
  <2>2. PICK d \in States : d = [dev[o] EXCEPT !.ref = n]
    BY <1>1, <2>1, CountIs
  <2>3. d.open = dev[o].open /\ d.activated = dev[o].activated /\ d.ref = n
    BY <1>1, <2>1, <2>2, CountIs
  <2>4. dev' = [dev EXCEPT ![o] = d]
    BY <2>1, <2>2 DEF D!WriteLess
  <2> QED BY <2>1, <2>3, <2>4
<1>4. PICK w \in SUBSET User : w = users[o] \ {u}
  BY <1>1 DEF DevicesTyped
<1>5. Uses(u, o, d, driver[o], w, c) /\ driver[o] \in BOOLEAN
  BY <1>1, <1>2, <1>3, <1>4, StateIs DEF Uses, D!WriteLess
<1>6. Fitting(u, o, w, c)
  BY <1>2, <1>4 DEF Fitting, Taking
<1>7. ASSUME Served(o), ~Clash(o) PROVE Served(o)'
  <2>1. /\ dev'[o] = d /\ driver'[o] = driver[o] /\ users'[o] = w /\ call'[u] = c
        /\ \A v \in User \ {u} : call'[v] = call[v]
    BY <1>1, <1>5, UsesEffect
  <2>2. ASSUME NEW v \in User \ {u}, NEW S PROVE In(v, o, S)' <=> In(v, o, S)
    BY <2>1 DEF In
  <2>3. ASSUME NEW S PROVE In(u, o, S)' <=> "c_last" \in S
    BY <1>2, <2>1 DEF In
  <2>4. u \in users[o] /\ dev[o].activated /\ driver[o] /\ Opened(o)
    BY <1>1, <1>7 DEF Served, OpenInv, CallSound, In
  <2>5. d.ref = Cardinality(w)
    <3>1. call[u].count = Cardinality(users[o])
      BY <1>1, <1>7 DEF Served, CountInv, In
    <3>2. IsFiniteSet(users[o]) /\ Cardinality(users[o]) \in Nat /\ Cardinality(w) \in 0..255
      BY <1>1, UsersFew DEF DevicesTyped
    <3>3. Cardinality(w) = Cardinality(users[o]) - 1
      BY <1>4, <2>4, <3>2, FS_RemoveElement
    <3>4. d.ref = Cardinality(w) % 256
      BY <1>3, <3>1, <3>3
    <3> QED BY <3>2, <3>4
  <2>6. CountInv(o)'
    <3>1. \A v \in User \ {u} : ~In(v, o, {"o_write", "c_write"})
      BY <1>1, <1>7 DEF Clash, In
    <3> QED BY <2>1, <2>2, <2>3, <2>5, <3>1 DEF CountInv
  <2>7. Opened(o)'
    BY <1>1, <1>3, <2>1, <2>2, <2>4 DEF Opened, In
  <2>8. OpenInv(o)'
    BY <1>3, <1>7, <2>1, <2>2, <2>3, <2>4, <2>7 DEF Served, OpenInv, Taking
  <2>9. CloseInv(o)'
    <3>1. \A v \in User : ~In(v, o, {"c_driver", "c_flag"})
      BY <1>7, <2>4 DEF Served, CloseInv
    <3> QED BY <2>1, <2>2, <2>3, <2>4, <3>1 DEF CloseInv
  <2>10. \A v \in User : Engages(v, o)' => Engages(v, o)
    BY <1>4, <2>1, <2>2, <2>3, <2>4 DEF Engages, Taking
  <2> QED BY <1>7, <2>6, <2>8, <2>9, <2>10 DEF Served, AloneInv
<1> QED BY <1>5, <1>6, <1>7, StepServed

(* Nobody uses the device that the driver closes. *)
LEMMA CloseDriverServed ==
    ASSUME ServedInv, NEW u \in User, NEW o \in Object, Around(o), call[u].obj = o,
           D!CloseDriver(u, o)
    PROVE  ServedInv'
<1>1. DevicesTyped /\ call[u].at = "c_driver" /\ UNCHANGED <<dev, users>>
  BY DEF ServedInv, D!CloseDriver
<1>2. CASE D!Over(u) /\ UNCHANGED driver
  BY <1>1, <1>2, OverServed
<1>3. CASE driver' = [driver EXCEPT ![o] = FALSE] /\ D!On(u, "c_flag")
  <2>1. PICK c \in UserCalls : call' = [call EXCEPT ![u] = c] /\ c.at = "c_flag" /\ c.obj = o
    <3>1. "c_flag" \in CallPlaces
      BY DEF CallPlaces
    <3> QED BY <1>1, <1>3, <3>1, CallOn
  <2>2. /\ Uses(u, o, dev[o], FALSE, users[o], c) /\ users[o] \in SUBSET User
        /\ dev[o] \in States
    BY <1>1, <1>3, <2>1, StateIs DEF Uses
  <2>3. Fitting(u, o, users[o], c)
    BY <2>1 DEF Fitting, Taking
  <2>4. ASSUME Served(o), ~Clash(o) PROVE Served(o)'
    <3>1. /\ dev'[o] = dev[o] /\ ~driver'[o] /\ users'[o] = users[o] /\ call'[u] = c
          /\ \A v \in User \ {u} : call'[v] = call[v]
      BY <1>1, <1>3, <2>1 DEF DevicesTyped
    <3>2. ASSUME NEW v \in User \ {u}, NEW S PROVE In(v, o, S)' <=> In(v, o, S)
      BY <3>1 DEF In
    <3>3. ASSUME NEW S PROVE In(u, o, S)' <=> "c_flag" \in S
      BY <2>1, <3>1 DEF In
    <3>4. users[o] = {} /\ \A v \in User : ~In(v, o, {"o_flag", "o_read", "o_write"})
      BY <1>1, <2>4 DEF Served, CloseInv, Clash, In
    <3>5. CountInv(o)'
      BY <2>4, <3>1, <3>2, <3>3 DEF Served, CountInv
    <3>6. OpenInv(o)'
      <4>1. \A v \in User : In(v, o, {"o_busy"} \cup Taking)' => dev[o].activated
        BY <2>4, <3>2, <3>3 DEF Served, OpenInv, Taking
      <4>2. \A v \in User : ~In(v, o, {"o_flag", "o_read", "o_write"})'
        BY <3>2, <3>3, <3>4
      <4>3. \A v \in User : ~In(v, o, {"o_read", "o_write"})'
        BY <4>2 DEF In
      <4> QED BY <3>1, <3>4, <4>1, <4>2, <4>3 DEF OpenInv
    <3>7. CloseInv(o)'
      BY <3>1, <3>3, <3>4 DEF CloseInv
    <3>8. \A v \in User : Engages(v, o)' => Engages(v, o)
      BY <3>1, <3>2, <3>3 DEF Engages, Taking
    <3> QED BY <2>4, <3>5, <3>6, <3>7, <3>8 DEF Served, AloneInv
  <2> QED BY <2>2, <2>3, <2>4, StepServed
<1> QED BY <1>2, <1>3 DEF D!CloseDriver

LEMMA ClearOpenServed ==
    ASSUME ServedInv, NEW u \in User, NEW o \in Object, Around(o), call[u].obj = o,
           D!ClearOpen(u, o)
    PROVE  ServedInv'
<1>1. DevicesTyped /\ call[u].at = "c_flag" /\ UNCHANGED <<driver, users>>
  BY DEF ServedInv, D!ClearOpen
<1>2. PICK c \in UserCalls : call' = [call EXCEPT ![u] = c] /\ c.at = "out" /\ c.obj = NoObject
  BY <1>1, CallIs DEF D!ClearOpen, D!Over
<1>3. PICK d \in States : /\ dev' = [dev EXCEPT ![o] = d] /\ ~d.open
                          /\ d.activated = dev[o].activated /\ d.ref = dev[o].ref
  BY <1>1, OpenIs DEF D!ClearOpen
<1>4. Uses(u, o, d, driver[o], users[o], c) /\ users[o] \in SUBSET User /\ driver[o] \in BOOLEAN
  BY <1>1, <1>2, <1>3, StateIs DEF Uses
<1>5. Fitting(u, o, users[o], c)
  BY <1>2, ObjectFacts DEF Fitting
<1>6. ASSUME Served(o), ~Clash(o) PROVE Served(o)'
  <2>1. /\ dev'[o] = d /\ driver'[o] = driver[o] /\ users'[o] = users[o] /\ call'[u] = c
        /\ \A v \in User \ {u} : call'[v] = call[v]
    BY <1>1, <1>4, UsesEffect
  <2>2. ASSUME NEW v \in User \ {u}, NEW S PROVE In(v, o, S)' <=> In(v, o, S)
    BY <2>1 DEF In
  <2>3. ASSUME NEW S PROVE ~In(u, o, S)'
    BY <1>2, <2>1, ObjectFacts DEF In
  <2>4. users[o] = {} /\ \A v \in User : ~In(v, o, {"o_flag", "o_read", "o_write"})
    BY <1>1, <1>6 DEF Served, CloseInv, Clash, In
  <2>5. CountInv(o)'
    BY <1>3, <1>6, <2>1, <2>2, <2>3 DEF Served, CountInv
  <2>6. OpenInv(o)'
    <3>1. \A v \in User : In(v, o, {"o_busy"} \cup Taking)' => dev[o].activated
      BY <1>6, <2>2, <2>3 DEF Served, OpenInv
    <3>2. \A v \in User : ~In(v, o, {"o_flag", "o_read", "o_write"})'
      BY <2>2, <2>3, <2>4
    <3>3. \A v \in User : ~In(v, o, {"o_read", "o_write"})'
      BY <3>2 DEF In
    <3> QED BY <1>3, <2>1, <2>4, <3>1, <3>2, <3>3 DEF OpenInv
  <2>7. CloseInv(o)'
    BY <1>3, <2>1, <2>4 DEF CloseInv
  <2>8. \A v \in User : Engages(v, o)' => Engages(v, o)
    BY <2>1, <2>2, <2>3 DEF Engages
  <2> QED BY <1>6, <2>5, <2>6, <2>7, <2>8 DEF Served, AloneInv
<1> QED BY <1>4, <1>5, <1>6, StepServed

LEMMA DeviceUseServed ==
    ASSUME ObjectsInv, ServedInv, D!DeviceUse
    PROVE  ServedInv'
<1>1. PICK u \in User, o \in Object :
         /\ D!Enter(u, o) \/ D!Proceed(u, o)
         /\ torn' = IF D!Overlap(o)' THEN torn \cup {o} ELSE torn
  BY DEF D!DeviceUse
<1>2. UNCHANGED <<list, type, job>>
  BY DEF D!DeviceUse, D!objectVars
<1>3. CASE D!Enter(u, o)
  <2>1. Linked(o) /\ Typed(o)
    BY <1>3, ObjectLists DEF D!Enter, Linked, Typed
  <2>2. early' = IF Free(o) THEN early ELSE early \cup {o}
    BY <1>3 DEF D!Enter, Free
  <2>3. Around(o)
    BY <1>1, <1>2, <2>1, <2>2 DEF Around
  <2> QED BY <1>3, <2>3, EnterServed DEF D!Enter
<1>4. CASE D!Proceed(u, o)
  <2>1. call[u].obj = o /\ early' = early
    BY <1>4 DEF D!Proceed
  <2>2. Linked(o) /\ Typed(o) /\ (Free(o) \/ o \in early)
    BY <2>1 DEF ServedInv, Used
  <2>3. Around(o)
    BY <1>1, <1>2, <2>1, <2>2 DEF Around
  <2> QED BY <1>4, <2>1, <2>3, InitialiseServed, TestBusyServed, OpenDriverServed, SetOpenServed,
             ReadCountServed, WriteMoreServed, TestUsedServed, WriteLessServed, TestLastServed,
             CloseDriverServed, ClearOpenServed DEF D!Proceed
<1> QED BY <1>1, <1>3, <1>4

(* The calls of the users leave the registrations alone. *)
LEMMA DeviceUseNames ==
    ASSUME ObjectsInv, NamesInv, D!DeviceUse
    PROVE  ObjectsInv' /\ NamesInv'
<1>1. UNCHANGED <<list, type, name, lock, job, present>> /\ doubtful' = doubtful
  BY DEF D!DeviceUse, D!objectVars
<1>2. ObjectsInv'
  BY <1>1, ObjectsStay
<1>3. NamesInv'
  BY <1>1 DEF NamesInv, Distinct, SeekSound, Seeks, Linked
<1> QED BY <1>2, <1>3

DevicesInv == part = "devices" => NamesInv /\ ServedInv

LEMMA DevicesBegin ==
    ASSUME ServiceInit
    PROVE  DevicesInv
<1>1. /\ D!ObjectInit /\ D!DeviceInit
  BY DEF ServiceInit
<1>2. \A o \in Object : ~Linked(o)
  <2>1. Elems(<<>>) = {}
    BY DEF Elems
  <2> QED BY <1>1, <2>1 DEF D!ObjectInit, Linked
<1>3. \A t \in Thread : job[t].op = "none" /\ job[t].at = "idle"
  BY <1>1 DEF D!ObjectInit, D!Idle
<1>4. NamesInv
  BY <1>2, <1>3 DEF NamesInv, Distinct, SeekSound, Seeks
<1>5. D!Fresh \in States /\ D!Out \in UserCalls /\ D!Out.obj = NoObject
  BY DEF D!Fresh, D!Out, States, UserCalls, CallPlaces
<1>6. DevicesTyped
  BY <1>1, <1>5 DEF D!DeviceInit, DevicesTyped
<1>7. /\ \A o \in Object : users[o] = {}
      /\ \A u \in User : call[u].obj \notin Object
  BY <1>1, <1>5, ObjectFacts DEF D!DeviceInit
<1>8. /\ \A o \in Object : ~Used(o) /\ ~Clash(o)
      /\ \A u \in User, o \in Object : CallSound(u, o)
  BY <1>7 DEF Used, Clash, CallSound, In
<1> QED BY <1>2, <1>4, <1>6, <1>8 DEF DevicesInv, ServedInv

LEMMA DevicesInvariant == ServiceSpec => []DevicesInv
<1>1. ServiceInit => DevicesInv
  BY DevicesBegin
<1>2. ObjectsInv /\ DevicesInv /\ [ServiceNext]_serviceVars => DevicesInv'
  <2> SUFFICES ASSUME ObjectsInv, DevicesInv, [ServiceNext]_serviceVars, part' = "devices"
               PROVE  NamesInv' /\ ServedInv'
    BY DEF DevicesInv
  <2>1. CASE Devices
    <3>1. NamesInv /\ ServedInv /\ ((\E t \in Thread : D!DeviceStep(t)) \/ D!DeviceUse)
      BY <2>1 DEF Devices, DevicesInv
    <3> QED BY <3>1, DeviceStepNames, DeviceStepServed, DeviceUseServed, DeviceUseNames
  <2>2. CASE UNCHANGED serviceVars
    <3>1. NamesInv /\ ServedInv
      BY <2>2 DEF serviceVars, DevicesInv
    <3>2. UNCHANGED <<list, type, name, job, present>> /\ UNCHANGED <<dev, driver, users, call, doubtful, early, torn>>
      BY <2>2 DEF serviceVars, objectVars, deviceVars
    <3>3. NamesInv'
      BY <3>1, <3>2 DEF NamesInv, Distinct, SeekSound, Seeks, Linked
    <3>4. ServedInv'
      BY <3>1, <3>2, ServedKept DEF Linked, Typed, Free, D!Unclaimed
    <3> QED BY <3>3, <3>4
  <2>3. ~Pointers /\ ~Timers /\ ~Objects
    BY DEF Pointers, Timers, Objects
  <2> QED BY <2>1, <2>2, <2>3 DEF ServiceNext
<1> QED BY <1>1, <1>2, ObjectsInvariant, PTL DEF ServiceSpec

(* With any threads, devices and users: two registered devices share a name  *)
(* only if they were being registered at the same time (device.c:59-62).     *)
(* However the steps of rt_device_init, rt_device_open and rt_device_close   *)
(* interleave, the count of a device is the number of its users, whoever may *)
(* read a device finds its driver open, and a stand-alone device has one     *)
(* user, but for a device used before its registration was over              *)
(* (device.c:63-65) and one with two calls that overlap as Overlap says.     *)
THEOREM DevicesStaySound == ServiceSpec => []DevicesSound
<1>1. ObjectsInv /\ DevicesInv => DevicesSound
  <2> SUFFICES ASSUME ObjectsInv, NamesInv, ServedInv
               PROVE  D!NamesShared /\ D!UsersServed
    BY DEF DevicesSound, DevicesInv
  <2>1. \A o \in D!Elems(list) : o \in Object /\ Linked(o)
    <3>1. Elems(list) \subseteq Object
      BY ElemsType DEF ObjectsInv, ObjectsTyped
    <3> QED BY <3>1, ObjectLists DEF Linked
  <2>2. D!NamesShared
    BY <2>1 DEF D!NamesShared, NamesInv, Distinct
  <2>3. D!UsersServed
    <3> SUFFICES ASSUME NEW o \in D!Elems(list), D!Unclaimed(o), o \notin early \cup torn
                 PROVE  /\ dev[o].ref = D!Cardinality(users[o])
                        /\ dev[o].ref > 0 =>
                              /\ dev[o].activated /\ driver[o]
                              /\ dev[o].open \/ (o \in Bare /\ D!CalledOn(o, {"o_flag"}) # {})
                        /\ o \in Standalone => D!Cardinality(users[o]) <= 1
                        /\ users[o] = {} /\ D!CalledOn(o, {"c_flag"}) = {} /\ dev[o].open => driver[o]
      BY DEF D!UsersServed, D!Usable
    <3>0. o \in Object /\ Linked(o) /\ Free(o)
      BY <2>1 DEF Free
    <3>1. Served(o) /\ users[o] \subseteq User
      BY <3>0 DEF ServedInv, DevicesTyped
    <3>2. dev[o].ref = Cardinality(users[o]) /\ (dev[o].ref > 0 => users[o] # {})
      BY <3>1, FS_EmptySet DEF Served, CountInv
    <3>3. /\ (\E v \in User : In(v, o, {"o_flag"})) <=> D!CalledOn(o, {"o_flag"}) # {}
          /\ (\A u \in User : ~In(u, o, {"c_flag"})) <=> D!CalledOn(o, {"c_flag"}) = {}
      BY DEF In, D!CalledOn
    <3>4. o \in Standalone => Cardinality(users[o]) <= 1
      <4> SUFFICES ASSUME o \in Standalone PROVE Cardinality(users[o]) <= 1
        OBVIOUS
      <4>1. \A u, v \in users[o] : u = v
        BY <3>1 DEF Served, AloneInv, Engages
      <4>2. users[o] = {} \/ \E u \in User : users[o] = {u}
        BY <3>1, <4>1
      <4>3. Cardinality({}) = 0 /\ \A x : Cardinality({x}) = 1
        BY FS_EmptySet, FS_Singleton
      <4>4. CASE users[o] = {}
        BY <4>3, <4>4, SMT
      <4>5. ASSUME NEW u \in User, users[o] = {u} PROVE Cardinality(users[o]) <= 1
        <5>1. Cardinality(users[o]) = 1
          BY <4>3, <4>5, Zenon
        <5> QED BY <5>1
      <4> QED BY <4>2, <4>4, <4>5
    <3>5. /\ dev[o].ref > 0 =>
             /\ dev[o].activated /\ driver[o]
             /\ dev[o].open \/ (o \in Bare /\ D!CalledOn(o, {"o_flag"}) # {})
          /\ users[o] = {} /\ D!CalledOn(o, {"c_flag"}) = {} /\ dev[o].open => driver[o]
      BY <3>1, <3>2, <3>3 DEF Served, OpenInv, CloseInv, Opened
    <3>6. D!Cardinality(users[o]) = Cardinality(users[o])
      BY UsersFew, Zenon
    <3> QED BY <3>2, <3>4, <3>5, <3>6
  <2> QED BY <2>2, <2>3
<1> QED BY <1>1, ObjectsInvariant, DevicesInvariant, PTL
=============================================================================
