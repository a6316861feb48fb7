---------------------------- MODULE ListsProofs ----------------------------
(***************************************************************************)
(* What the list operators of Lists return: their type, the nodes they      *)
(* hold, that no node is linked twice, and their order; and sums along an   *)
(* interval, which the proofs about heaps need.                             *)
(***************************************************************************)
EXTENDS Lists, Integers, SequenceTheorems, FiniteSetTheorems, WellFoundedInduction, TLAPS

(* A set of naturals that is not empty has a least element. *)
LEMMA Least ==
    ASSUME NEW S, S \subseteq Nat, S # {}
    PROVE  \E m \in S : \A n \in S : m <= n
<1> DEFINE F == {0..n : n \in S}
           R == StrictSubsetOrdering(Nat)
<1>1. F \subseteq FiniteSubsetsOf(Nat) /\ F # {}
  <2>1. \A n \in S : 0..n \subseteq Nat /\ IsFiniteSet(0..n)
    BY FS_Interval
  <2>2. \A n \in S : 0..n \in FiniteSubsetsOf(Nat)
    BY <2>1 DEF FiniteSubsetsOf
  <2> QED BY <2>2
<1>2. IsWellFoundedOn(R, FiniteSubsetsOf(Nat))
  BY FS_StrictSubsetOrderingWellFounded
<1>3. PICK x \in F : \A y \in F : ~(<<y, x>> \in R)
  <2> HIDE DEF F, R
  <2> QED BY <1>1, <1>2, WFMin
<1>4. PICK m \in S : x = 0..m
  OBVIOUS
<1>5. ASSUME NEW n \in S, n < m PROVE FALSE
  <2>1. 0..n \subseteq 0..m /\ 0..n # 0..m /\ 0..n \subseteq Nat /\ 0..m \subseteq Nat
    BY <1>5
  <2>2. <<0..n, 0..m>> \in R
    BY <2>1 DEF StrictSubsetOrdering
  <2> QED BY <2>2, <1>3, <1>4
<1> QED BY <1>5

(* A list is empty when it has no nodes. *)
LEMMA EmptyElems ==
    ASSUME NEW S, NEW s \in Seq(S)
    PROVE  s = <<>> <=> Elems(s) = {}
BY DEF Elems

(* The head of a list that is not empty is one of its nodes. *)
LEMMA HeadElem ==
    ASSUME NEW S, NEW s \in Seq(S), s # <<>>
    PROVE  Head(s) \in Elems(s) /\ Head(s) \in S
BY DEF Elems

(* Nodes of a list are members of the set it is over. *)
LEMMA ElemsType ==
    ASSUME NEW S, NEW s \in Seq(S)
    PROVE  Elems(s) \subseteq S
BY DEF Elems

(* rt_list_insert_after at the head adds one node. *)
LEMMA PushFrontFacts ==
    ASSUME NEW S, NEW s \in Seq(S), NEW n \in S
    PROVE  /\ PushFront(s, n) \in Seq(S)
           /\ PushFront(s, n) # <<>>
           /\ Elems(PushFront(s, n)) = Elems(s) \cup {n}
           /\ IsOnce(s) /\ n \notin Elems(s) => IsOnce(PushFront(s, n))
<1> DEFINE r == PushFront(s, n)
<1>1. /\ r \in Seq(S) /\ Len(r) = Len(s) + 1
      /\ \A i \in 1..Len(r) : r[i] = IF i = 1 THEN n ELSE s[i - 1]
  BY ConcatProperties, <<n>> \in Seq(S), Len(<<n>>) = 1 DEF PushFront
<1>2. DOMAIN r = 1..(Len(s) + 1) /\ DOMAIN s = 1..Len(s) /\ Len(s) \in Nat
  BY <1>1
<1> HIDE DEF r
<1>3. Elems(r) = Elems(s) \cup {n}
  <2>1. ASSUME NEW e \in Elems(r) PROVE e \in Elems(s) \cup {n}
    BY <2>1, <1>1, <1>2 DEF Elems
  <2>2. ASSUME NEW e \in Elems(s) PROVE e \in Elems(r)
    <3>1. PICK i \in 1..Len(s) : e = s[i]
      BY <2>2, <1>2 DEF Elems
    <3>2. i + 1 \in DOMAIN r /\ r[i + 1] = e
      BY <3>1, <1>1, <1>2
    <3> QED BY <3>2 DEF Elems
  <2>3. n \in Elems(r)
    <3>1. 1 \in DOMAIN r /\ r[1] = n
      BY <1>1, <1>2
    <3> QED BY <3>1 DEF Elems
  <2> QED BY <2>1, <2>2, <2>3
<1>4. IsOnce(s) /\ n \notin Elems(s) => IsOnce(r)
  <2> SUFFICES ASSUME IsOnce(s), n \notin Elems(s),
                      NEW x \in 1..(Len(s) + 1), NEW y \in 1..(Len(s) + 1), r[x] = r[y]
               PROVE  x = y
    BY <1>2 DEF IsOnce
  <2>1. \A z \in 1..(Len(s) + 1) : z # 1 => z - 1 \in 1..Len(s) /\ r[z] = s[z - 1]
    BY <1>1, <1>2
  <2>2. \A j \in 1..Len(s) : s[j] # n
    BY <1>2 DEF Elems
  <2>3. r[1] = n
    BY <1>1, <1>2
  <2>4. CASE x = 1 \/ y = 1
    BY <2>1, <2>2, <2>3, <2>4
  <2>5. CASE x # 1 /\ y # 1
    <3>1. x - 1 = y - 1
      BY <2>1, <2>5, <1>2 DEF IsOnce
    <3> QED BY <3>1, <1>2
  <2> QED BY <2>4, <2>5
<1> QED
  BY <1>1, <1>2, <1>3, <1>4 DEF r

(* rt_list_insert_before at the head adds one node. *)
LEMMA PushBackFacts ==
    ASSUME NEW S, NEW s \in Seq(S), NEW n \in S
    PROVE  /\ PushBack(s, n) \in Seq(S)
           /\ PushBack(s, n) # <<>>
           /\ Elems(PushBack(s, n)) = Elems(s) \cup {n}
           /\ IsOnce(s) /\ n \notin Elems(s) => IsOnce(PushBack(s, n))
<1> DEFINE r == PushBack(s, n)
<1>1. /\ r \in Seq(S) /\ r # <<>> /\ Len(r) = Len(s) + 1
      /\ \A i \in 1..Len(s) : r[i] = s[i]
      /\ r[Len(s) + 1] = n
  BY AppendProperties DEF PushBack
<1>2. DOMAIN r = 1..(Len(s) + 1) /\ DOMAIN s = 1..Len(s) /\ Len(s) \in Nat
  BY <1>1
<1> HIDE DEF r
<1>3. Elems(r) = Elems(s) \cup {n}
  <2>1. ASSUME NEW e \in Elems(r) PROVE e \in Elems(s) \cup {n}
    BY <2>1, <1>1, <1>2 DEF Elems
  <2>2. ASSUME NEW e \in Elems(s) PROVE e \in Elems(r)
    BY <2>2, <1>1, <1>2 DEF Elems
  <2>3. n \in Elems(r)
    <3>1. Len(s) + 1 \in DOMAIN r
      BY <1>2
    <3> QED BY <3>1, <1>1 DEF Elems
  <2> QED BY <2>1, <2>2, <2>3
<1>4. IsOnce(s) /\ n \notin Elems(s) => IsOnce(r)
  BY <1>1, <1>2 DEF IsOnce, Elems
<1> QED
  BY <1>1, <1>2, <1>3, <1>4 DEF r

(* Linking after the i-th node adds one node. *)
LEMMA LinkAfterFacts ==
    ASSUME NEW S, NEW s \in Seq(S), NEW n \in S, NEW i \in 0..Len(s)
    PROVE  /\ LinkAfter(s, i, n) \in Seq(S)
           /\ Elems(LinkAfter(s, i, n)) = Elems(s) \cup {n}
           /\ IsOnce(s) /\ n \notin Elems(s) => IsOnce(LinkAfter(s, i, n))
<1> DEFINE r == LinkAfter(s, i, n)
<1>0. Len(s) \in Nat /\ DOMAIN s = 1..Len(s) /\ \A j \in 1..Len(s) : s[j] \in S
  OBVIOUS
<1>1. /\ r \in [1..(Len(s) + 1) -> S]
      /\ \A j \in 1..(Len(s) + 1) : r[j] = IF j <= i THEN s[j] ELSE IF j = i + 1 THEN n ELSE s[j - 1]
  BY <1>0 DEF LinkAfter
<1>2. r \in Seq(S) /\ DOMAIN r = 1..(Len(s) + 1)
  BY <1>1, <1>0, SeqDef
<1> HIDE DEF r
<1>3. Elems(r) = Elems(s) \cup {n}
  <2>1. ASSUME NEW e \in Elems(r) PROVE e \in Elems(s) \cup {n}
    BY <2>1, <1>0, <1>1, <1>2 DEF Elems
  <2>2. ASSUME NEW e \in Elems(s) PROVE e \in Elems(r)
    <3>1. PICK j \in 1..Len(s) : e = s[j]
      BY <2>2, <1>0 DEF Elems
    <3>2. CASE j <= i
      <4>1. j \in DOMAIN r /\ r[j] = e
        BY <3>1, <3>2, <1>0, <1>1, <1>2
      <4> QED BY <4>1 DEF Elems
    <3>3. CASE j > i
      <4>1. j + 1 \in DOMAIN r /\ r[j + 1] = e
        BY <3>1, <3>3, <1>0, <1>1, <1>2
      <4> QED BY <4>1 DEF Elems
    <3> QED BY <3>2, <3>3, <1>0
  <2>3. n \in Elems(r)
    <3>1. i + 1 \in DOMAIN r /\ r[i + 1] = n
      BY <1>0, <1>1, <1>2
    <3> QED BY <3>1 DEF Elems
  <2> QED BY <2>1, <2>2, <2>3
<1>4. IsOnce(s) /\ n \notin Elems(s) => IsOnce(r)
  <2> SUFFICES ASSUME IsOnce(s), n \notin Elems(s),
                      NEW x \in 1..(Len(s) + 1), NEW y \in 1..(Len(s) + 1), r[x] = r[y]
               PROVE  x = y
    BY <1>2 DEF IsOnce
  <2>1. \A j \in 1..Len(s) : s[j] # n
    BY <1>0 DEF Elems
  <2> DEFINE from(z) == IF z <= i THEN z ELSE z - 1
  <2>2. \A z \in 1..(Len(s) + 1) :
           z # i + 1 => from(z) \in 1..Len(s) /\ r[z] = s[from(z)] /\ r[z] # n
    BY <2>1, <1>0, <1>1
  <2>3. r[i + 1] = n
    BY <1>0, <1>1
  <2>4. CASE x = i + 1 \/ y = i + 1
    <3>1. x = i + 1 => y = i + 1
      BY <2>2, <2>3
    <3>2. y = i + 1 => x = i + 1
      BY <2>2, <2>3
    <3> QED BY <2>4, <3>1, <3>2
  <2>5. CASE x # i + 1 /\ y # i + 1
    <3>1. from(x) = from(y)
      BY <2>2, <2>5, <1>0 DEF IsOnce
    <3> QED BY <3>1, <2>5, <1>0
  <2> QED BY <2>4, <2>5
<1> QED
  BY <1>2, <1>3, <1>4 DEF r

(* rt_list_remove on a node that is in no list changes nothing. *)
LEMMA UnlinkAbsent ==
    ASSUME NEW s, NEW n, n \notin Elems(s)
    PROVE  Unlink(s, n) = s
BY DEF Unlink

(* rt_list_remove takes the node out of the list. *)
LEMMA UnlinkFacts ==
    ASSUME NEW S, NEW s \in Seq(S), NEW n
    PROVE  /\ Unlink(s, n) \in Seq(S)
           /\ IsOnce(s) => /\ IsOnce(Unlink(s, n))
                           /\ Elems(Unlink(s, n)) = Elems(s) \ {n}
<1>0. Len(s) \in Nat /\ DOMAIN s = 1..Len(s) /\ \A j \in 1..Len(s) : s[j] \in S
  OBVIOUS
<1>1. CASE n \notin Elems(s)
  BY <1>1, UnlinkAbsent
<1>2. CASE n \in Elems(s)
  <2> DEFINE i == CHOOSE j \in DOMAIN s : s[j] = n
             r == Unlink(s, n)
  <2>1. i \in 1..Len(s) /\ s[i] = n
    BY <1>2, <1>0 DEF Elems
  <2>2. r = [j \in 1..(Len(s) - 1) |-> IF j < i THEN s[j] ELSE s[j + 1]]
    BY <1>2 DEF Unlink
  <2> HIDE DEF i, r
  <2>3. /\ r \in [1..(Len(s) - 1) -> S]
        /\ \A j \in 1..(Len(s) - 1) : r[j] = IF j < i THEN s[j] ELSE s[j + 1]
    BY <2>1, <2>2, <1>0
  <2>4. r \in Seq(S) /\ DOMAIN r = 1..(Len(s) - 1)
    BY <2>1, <2>3, <1>0, SeqDef
  <2>5. ASSUME IsOnce(s) PROVE IsOnce(r)
    BY <2>1, <2>3, <2>4, <2>5, <1>0 DEF IsOnce
  <2>6. ASSUME IsOnce(s) PROVE Elems(r) = Elems(s) \ {n}
    <3>1. ASSUME NEW e \in Elems(r) PROVE e \in Elems(s) \ {n}
      <4>1. PICK j \in 1..(Len(s) - 1) : e = r[j]
        BY <3>1, <2>4 DEF Elems
      <4>2. PICK m \in 1..Len(s) : m # i /\ e = s[m]
        BY <4>1, <2>1, <2>3, <1>0
      <4>3. s[m] # n
        BY <4>2, <2>1, <2>6, <1>0 DEF IsOnce
      <4> QED BY <4>2, <4>3, <1>0 DEF Elems
    <3>2. ASSUME NEW e \in Elems(s) \ {n} PROVE e \in Elems(r)
      <4>1. PICK m \in 1..Len(s) : e = s[m]
        BY <3>2, <1>0 DEF Elems
      <4>2. m # i
        BY <4>1, <3>2, <2>1
      <4>3. CASE m < i
        <5>1. m \in DOMAIN r /\ r[m] = e
          BY <4>1, <4>3, <2>1, <2>3, <2>4, <1>0
        <5> QED BY <5>1 DEF Elems
      <4>4. CASE m > i
        <5>1. m - 1 \in DOMAIN r /\ r[m - 1] = e
          BY <4>1, <4>4, <2>1, <2>3, <2>4, <1>0
        <5> QED BY <5>1 DEF Elems
      <4> QED BY <4>2, <4>3, <4>4, <2>1, <1>0
    <3> QED BY <3>1, <3>2
  <2> QED
    BY <2>4, <2>5, <2>6 DEF r
<1> QED
  BY <1>1, <1>2

(* Without its head a list has one node less. *)
LEMMA TailFacts ==
    ASSUME NEW S, NEW s \in Seq(S), s # <<>>
    PROVE  /\ Tail(s) \in Seq(S) /\ Len(Tail(s)) = Len(s) - 1 /\ Head(s) \in S
           /\ Elems(s) = {Head(s)} \cup Elems(Tail(s))
           /\ IsOnce(s) => IsOnce(Tail(s)) /\ Head(s) \notin Elems(Tail(s))
<1>1. /\ Len(s) \in Nat /\ DOMAIN s = 1..Len(s) /\ Len(s) > 0 /\ \A j \in 1..Len(s) : s[j] \in S
      /\ Head(s) = s[1]
  OBVIOUS
<1>2. /\ Tail(s) \in Seq(S) /\ Len(Tail(s)) = Len(s) - 1
      /\ \A j \in 1..(Len(s) - 1) : Tail(s)[j] = s[j + 1]
      /\ DOMAIN Tail(s) = 1..(Len(s) - 1)
  BY HeadTailProperties
<1>3. Elems(s) = {Head(s)} \cup Elems(Tail(s))
  <2>1. ASSUME NEW e \in Elems(s) PROVE e \in {Head(s)} \cup Elems(Tail(s))
    <3>1. PICK j \in 1..Len(s) : e = s[j]
      BY <2>1, <1>1 DEF Elems
    <3>2. CASE j # 1
      <4>1. j - 1 \in 1..(Len(s) - 1) /\ Tail(s)[j - 1] = e
        BY <3>1, <3>2, <1>1, <1>2
      <4> QED BY <4>1, <1>2 DEF Elems
    <3> QED BY <3>1, <3>2, <1>1
  <2>2. ASSUME NEW e \in Elems(Tail(s)) PROVE e \in Elems(s)
    BY <2>2, <1>1, <1>2 DEF Elems
  <2>3. Head(s) \in Elems(s)
    BY <1>1 DEF Elems
  <2> QED BY <2>1, <2>2, <2>3
<1>4. ASSUME IsOnce(s) PROVE IsOnce(Tail(s)) /\ Head(s) \notin Elems(Tail(s))
  BY <1>4, <1>1, <1>2 DEF IsOnce, Elems
<1> QED BY <1>1, <1>2, <1>3, <1>4

(* Two lists behind each other. *)
LEMMA ConcatFacts ==
    ASSUME NEW S, NEW s \in Seq(S), NEW r \in Seq(S)
    PROVE  /\ s \o r \in Seq(S) /\ Len(s \o r) = Len(s) + Len(r)
           /\ Elems(s \o r) = Elems(s) \cup Elems(r)
           /\ IsOnce(s) /\ IsOnce(r) /\ Elems(s) \cap Elems(r) = {} => IsOnce(s \o r)
<1> DEFINE c == s \o r
<1>1. /\ c \in Seq(S) /\ Len(c) = Len(s) + Len(r) /\ Len(s) \in Nat /\ Len(r) \in Nat
      /\ DOMAIN s = 1..Len(s) /\ DOMAIN r = 1..Len(r) /\ DOMAIN c = 1..(Len(s) + Len(r))
      /\ \A i \in 1..(Len(s) + Len(r)) : c[i] = IF i <= Len(s) THEN s[i] ELSE r[i - Len(s)]
  BY ConcatProperties
<1> HIDE DEF c
<1>2. Elems(c) = Elems(s) \cup Elems(r)
  <2>1. ASSUME NEW e \in Elems(c) PROVE e \in Elems(s) \cup Elems(r)
    <3>1. PICK i \in 1..(Len(s) + Len(r)) : e = c[i]
      BY <2>1, <1>1 DEF Elems
    <3>2. i <= Len(s) => i \in DOMAIN s /\ c[i] = s[i]
      BY <1>1
    <3>3. ~(i <= Len(s)) => i - Len(s) \in DOMAIN r /\ c[i] = r[i - Len(s)]
      BY <1>1
    <3> QED BY <3>1, <3>2, <3>3 DEF Elems
  <2>2. ASSUME NEW e \in Elems(s) PROVE e \in Elems(c)
    BY <2>2, <1>1 DEF Elems
  <2>3. ASSUME NEW e \in Elems(r) PROVE e \in Elems(c)
    <3>1. PICK i \in 1..Len(r) : e = r[i]
      BY <2>3, <1>1 DEF Elems
    <3>2. PICK k \in Int : k = i + Len(s)
      BY <1>1
    <3>3. k \in DOMAIN c /\ ~(k <= Len(s)) /\ k - Len(s) = i
      BY <1>1, <3>2
    <3>4. c[k] = r[i]
      BY <1>1, <3>3
    <3> QED BY <3>1, <3>3, <3>4 DEF Elems
  <2> QED BY <2>1, <2>2, <2>3
<1>3. ASSUME IsOnce(s), IsOnce(r), Elems(s) \cap Elems(r) = {} PROVE IsOnce(c)
  <2> SUFFICES ASSUME NEW i \in 1..(Len(s) + Len(r)), NEW j \in 1..(Len(s) + Len(r)), c[i] = c[j]
               PROVE  i = j
    BY <1>1 DEF IsOnce
  <2>1. \A n \in 1..(Len(s) + Len(r)) :
           \/ n \in DOMAIN s /\ c[n] = s[n] /\ c[n] \in Elems(s)
           \/ n - Len(s) \in DOMAIN r /\ c[n] = r[n - Len(s)] /\ c[n] \in Elems(r)
    <3> SUFFICES ASSUME NEW n \in 1..(Len(s) + Len(r))
                 PROVE  \/ n \in DOMAIN s /\ c[n] = s[n] /\ c[n] \in Elems(s)
                        \/ n - Len(s) \in DOMAIN r /\ c[n] = r[n - Len(s)] /\ c[n] \in Elems(r)
      OBVIOUS
    <3>1. CASE n <= Len(s)
      BY <3>1, <1>1 DEF Elems
    <3>2. CASE ~(n <= Len(s))
      <4>1. n - Len(s) \in DOMAIN r /\ c[n] = r[n - Len(s)]
        BY <3>2, <1>1
      <4> QED BY <4>1 DEF Elems
    <3> QED BY <3>1, <3>2
  <2>2. CASE i \in DOMAIN s /\ c[i] = s[i] /\ j \in DOMAIN s /\ c[j] = s[j]
    BY <2>2, <1>3 DEF IsOnce
  <2>3. CASE i - Len(s) \in DOMAIN r /\ c[i] = r[i - Len(s)] /\ j - Len(s) \in DOMAIN r /\ c[j] = r[j - Len(s)]
    <3>1. i - Len(s) = j - Len(s)
      BY <2>3, <1>3 DEF IsOnce
    <3> QED BY <3>1, <1>1
  <2> QED BY <2>1, <2>2, <2>3, <1>3
<1> QED BY <1>1, <1>2, <1>3 DEF c

-----------------------------------------------------------------------------
(* Along the list s the values of f do not decrease. *)
InOrder(s, f) == \A i, j \in DOMAIN s : i < j => f[s[i]] <= f[s[j]]

(* Only the values of the nodes in the list count. *)
LEMMA InOrderSame ==
    ASSUME NEW s, NEW f, NEW g, InOrder(s, f), \A e \in Elems(s) : g[e] = f[e]
    PROVE  InOrder(s, g)
<1>1. \A i \in DOMAIN s : g[s[i]] = f[s[i]]
  BY DEF Elems
<1> QED BY <1>1 DEF InOrder

(* The head comes first. *)
LEMMA InOrderHead ==
    ASSUME NEW S, NEW s \in Seq(S), NEW f \in [S -> Int], InOrder(s, f), NEW e \in Elems(s)
    PROVE  f[Head(s)] <= f[e]
<1>1. PICK j \in DOMAIN s : e = s[j]
  BY DEF Elems
<1>2. j \in 1..Len(s) /\ 1 \in DOMAIN s /\ Head(s) = s[1] /\ s[j] \in S /\ s[1] \in S
  BY <1>1
<1>3. j = 1 \/ 1 < j
  BY <1>2
<1> QED BY <1>1, <1>2, <1>3 DEF InOrder

(* rt_list_remove keeps the order. *)
LEMMA UnlinkInOrder ==
    ASSUME NEW S, NEW s \in Seq(S), NEW n, NEW f, InOrder(s, f)
    PROVE  InOrder(Unlink(s, n), f)
<1>0. Len(s) \in Nat /\ DOMAIN s = 1..Len(s)
  OBVIOUS
<1>1. CASE n \notin Elems(s)
  BY <1>1, UnlinkAbsent
<1>2. CASE n \in Elems(s)
  <2> DEFINE i == CHOOSE j \in DOMAIN s : s[j] = n
             r == Unlink(s, n)
  <2>1. i \in 1..Len(s)
    BY <1>2, <1>0 DEF Elems
  <2>2. r = [j \in 1..(Len(s) - 1) |-> IF j < i THEN s[j] ELSE s[j + 1]]
    BY <1>2 DEF Unlink
  <2> HIDE DEF i, r
  <2>3. DOMAIN r = 1..(Len(s) - 1)
    BY <2>2
  <2> DEFINE from(j) == IF j < i THEN j ELSE j + 1
  <2>4. \A j \in 1..(Len(s) - 1) : from(j) \in 1..Len(s) /\ r[j] = s[from(j)]
    BY <2>1, <2>2, <1>0
  <2>5. \A a, b \in 1..(Len(s) - 1) : a < b => from(a) < from(b)
    BY <2>1, <1>0
  <2> HIDE DEF from
  <2>6. InOrder(r, f)
    BY <2>3, <2>4, <2>5, <1>0 DEF InOrder
  <2> QED BY <2>6 DEF r
<1> QED BY <1>1, <1>2

(* So does linking a node behind those that are not greater, in front of one *)
(* that is.                                                                  *)
LEMMA LinkAfterInOrder ==
    ASSUME NEW S, NEW s \in Seq(S), NEW n \in S, NEW i \in 0..Len(s), NEW f \in [S -> Int],
           InOrder(s, f),
           \A j \in 1..i : f[s[j]] <= f[n],
           i < Len(s) => f[n] <= f[s[i + 1]]
    PROVE  InOrder(LinkAfter(s, i, n), f)
<1> DEFINE r == LinkAfter(s, i, n)
<1>0. Len(s) \in Nat /\ DOMAIN s = 1..Len(s) /\ \A j \in 1..Len(s) : s[j] \in S /\ f[s[j]] \in Int
  OBVIOUS
<1>1. /\ DOMAIN r = 1..(Len(s) + 1)
      /\ \A j \in 1..(Len(s) + 1) : r[j] = IF j <= i THEN s[j] ELSE IF j = i + 1 THEN n ELSE s[j - 1]
  BY <1>0 DEF LinkAfter
<1> HIDE DEF r
<1>2. \A j \in 1..Len(s) : j > i => f[n] <= f[s[j]]
  <2> SUFFICES ASSUME NEW j \in 1..Len(s), j > i PROVE f[n] <= f[s[j]]
    OBVIOUS
  <2>1. i + 1 \in 1..Len(s) /\ f[n] <= f[s[i + 1]] /\ f[n] \in Int
    BY <1>0
  <2>2. j = i + 1 \/ i + 1 < j
    BY <1>0
  <2>3. f[s[i + 1]] <= f[s[j]]
    <3>1. CASE j = i + 1
      BY <3>1, <1>0
    <3>2. CASE i + 1 < j
      BY <3>2, <1>0, <2>1 DEF InOrder
    <3> QED BY <2>2, <3>1, <3>2
  <2> QED BY <1>0, <2>1, <2>3
<1>3. ASSUME NEW a \in 1..(Len(s) + 1), NEW b \in 1..(Len(s) + 1), a < b
      PROVE  f[r[a]] <= f[r[b]]
  <2>1. CASE b <= i
    <3>1. a \in 1..Len(s) /\ b \in 1..Len(s) /\ a <= i
      BY <2>1, <1>0, <1>3
    <3>2. r[a] = s[a] /\ r[b] = s[b]
      BY <2>1, <3>1, <1>1, <1>3
    <3> QED BY <3>1, <3>2, <1>0, <1>3 DEF InOrder
  <2>2. CASE b = i + 1
    <3>1. r[a] = s[a] /\ r[b] = n /\ a \in 1..i
      BY <2>2, <1>0, <1>1, <1>3
    <3> QED BY <3>1
  <2>3. CASE b > i + 1
    <3>1. r[b] = s[b - 1] /\ b - 1 \in 1..Len(s) /\ b - 1 > i
      BY <2>3, <1>0, <1>1, <1>3
    <3>2. CASE a <= i
      <4>1. a \in 1..Len(s) /\ a < b - 1
        BY <3>1, <3>2, <1>0
      <4>2. r[a] = s[a]
        BY <3>2, <1>1
      <4> QED BY <3>1, <4>1, <4>2, <1>0 DEF InOrder
    <3>3. CASE a = i + 1
      <4>1. r[a] = n
        BY <3>3, <1>0, <1>1
      <4> QED BY <3>1, <4>1, <1>2
    <3>4. CASE a > i + 1
      <4>1. a - 1 \in 1..Len(s) /\ a - 1 < b - 1
        BY <3>4, <1>0, <1>3
      <4>2. ~(a <= i) /\ a # i + 1
        BY <3>4, <1>0
      <4>3. r[a] = s[a - 1]
        BY <4>2, <1>1
      <4> QED BY <3>1, <4>1, <4>3, <1>0 DEF InOrder
    <3> QED BY <3>2, <3>3, <3>4, <1>0
  <2> QED BY <2>1, <2>2, <2>3, <1>0
<1> QED BY <1>1, <1>3 DEF InOrder, r

-----------------------------------------------------------------------------
(* Running totals of w along 0..n, as the recursive functions in the         *)
(* modules of the heaps compute them.                                        *)
Totals(w, z, n) == /\ z \in [0..n -> Int] /\ z[0] = w[0]
                   /\ \A k \in 1..n : z[k] = w[k] + z[k - 1]

(* The same, where the total of each is defined from the total before it. *)
SumsAlong(w, f, n) == f = [i \in 0..n |-> w[i] + (IF i = 0 THEN 0 ELSE f[i - 1])]

LEMMA SumsAreTotals ==
    ASSUME NEW M \in Nat, NEW w \in [0..M -> Int], NEW f, SumsAlong(w, f, M)
    PROVE  Totals(w, f, M)
<1>1. \A k \in 0..M : f[k] = w[k] + (IF k = 0 THEN 0 ELSE f[k - 1])
  BY DEF SumsAlong
<1>2. ASSUME NEW k \in 1..M PROVE f[k] = w[k] + f[k - 1]
  <2>1. k \in 0..M /\ k # 0
    OBVIOUS
  <2> QED BY <2>1, <1>1
<1>3. f[0] = w[0]
  <2>1. PICK a : a = w[0]
    OBVIOUS
  <2>2. a \in Int /\ f[0] = a + 0
    BY <2>1, <1>1
  <2> QED BY <2>1, <2>2
<1>4. f = [k \in 0..M |-> f[k]]
  BY DEF SumsAlong
<1> DEFINE Right(n) == f[n] \in Int
           T == {n \in Nat : n <= M /\ ~Right(n)}
<1>5. T = {}
  <2> SUFFICES ASSUME T # {} PROVE FALSE
    OBVIOUS
  <2>1. PICK n \in T : \A l \in T : n <= l
    <3>1. T \subseteq Nat
      OBVIOUS
    <3> HIDE DEF T
    <3> QED BY <3>1, Least
  <2>2. n \in Nat /\ n <= M /\ ~Right(n) /\ n \in 0..M
    OBVIOUS
  <2>3. n # 0
    BY <2>2, <1>3
  <2>4. n - 1 \in Nat /\ ~(n <= n - 1) /\ n - 1 <= M /\ n \in 1..M
    <3> HIDE DEF Right, T
    <3> QED BY <2>2, <2>3
  <2>5. Right(n - 1)
    <3>1. n - 1 \notin T
      <4> HIDE DEF T
      <4> QED BY <2>1, <2>4
    <3> HIDE DEF Right
    <3> QED BY <2>4, <3>1
  <2>6. f[n] \in Int
    <3>1. f[n] = w[n] + f[n - 1] /\ w[n] \in Int
      BY <2>2, <2>4, <1>2
    <3> QED BY <3>1, <2>5
  <2> QED BY <2>2, <2>6
<1>6. ASSUME NEW k \in 0..M PROVE f[k] \in Int
  <2>1. Right(k)
    <3>1. k \in Nat /\ k <= M
      OBVIOUS
    <3> HIDE DEF Right
    <3> QED BY <3>1, <1>5
  <2> QED BY <2>1
<1>7. f \in [0..M -> Int]
  BY <1>4, <1>6
<1> QED BY <1>2, <1>3, <1>7 DEF Totals

LEMMA TotalsExist ==
    ASSUME NEW M \in Nat, NEW w \in [0..M -> Int]
    PROVE  \E z : Totals(w, z, M)
<1> DEFINE P(n) == \E z : Totals(w, z, n)
           T == {n \in Nat : n <= M /\ ~P(n)}
<1>1. M \in Nat
  OBVIOUS
<1>2. T = {}
  <2> SUFFICES ASSUME T # {} PROVE FALSE
    OBVIOUS
  <2>1. PICK n \in T : \A l \in T : n <= l
    <3>1. T \subseteq Nat
      OBVIOUS
    <3> HIDE DEF T
    <3> QED BY <3>1, Least
  <2>2. n \in Nat /\ n <= M /\ ~P(n)
    OBVIOUS
  <2>3. n # 0
    <3>1. PICK c : c = w[0]
      OBVIOUS
    <3>2. c \in Int
      BY <3>1, <1>1
    <3>3. PICK z : z = [k \in 0..0 |-> c]
      OBVIOUS
    <3>4. z \in [0..0 -> Int] /\ z[0] = c /\ 1..0 = {}
      BY <3>2, <3>3
    <3>5. Totals(w, z, 0)
      BY <3>1, <3>4 DEF Totals
    <3> QED BY <3>5, <2>2
  <2>4. n - 1 \in Nat /\ n - 1 \notin T
    <3>1. n - 1 \in Nat /\ ~(n <= n - 1)
      BY <2>2, <2>3
    <3> HIDE DEF T
    <3> QED BY <3>1, <2>1
  <2>5. PICK z : Totals(w, z, n - 1)
    <3>1. n - 1 <= M
      BY <2>2, <1>1
    <3>2. P(n - 1)
      <4> HIDE DEF P
      <4> QED BY <3>1, <2>4
    <3> QED BY <3>2
  <2>6. PICK c : c = w[n]
    OBVIOUS
  <2>7. c \in Int
    BY <2>2, <2>6
  <2>8. z \in [0..(n - 1) -> Int] /\ z[0] = w[0] /\ z[n - 1] \in Int
        /\ \A k \in 1..(n - 1) : z[k] = w[k] + z[k - 1]
    BY <2>4, <2>5 DEF Totals
  <2>9. PICK y : y = [k \in 0..n |-> IF k = n THEN c + z[n - 1] ELSE z[k]]
    OBVIOUS
  <2>10. y \in [0..n -> Int]
    BY <2>2, <2>7, <2>8, <2>9
  <2>11. y[n] = c + z[n - 1] /\ \A k \in 0..(n - 1) : y[k] = z[k]
    BY <2>2, <2>9
  <2>12. y[0] = w[0]
    BY <2>4, <2>8, <2>11
  <2>13. ASSUME NEW k \in 1..n PROVE y[k] = w[k] + y[k - 1]
    <3>1. CASE k = n
      BY <3>1, <2>4, <2>6, <2>11
    <3>2. CASE k # n
      <4>1. k \in 1..(n - 1) /\ k \in 0..(n - 1) /\ k - 1 \in 0..(n - 1)
        BY <3>2, <2>2
      <4> QED BY <4>1, <2>8, <2>11
    <3> QED BY <3>1, <3>2
  <2>14. Totals(w, y, n)
    BY <2>10, <2>12, <2>13 DEF Totals
  <2> QED BY <2>14, <2>2
<1>3. P(M)
  <2> HIDE DEF P
  <2> QED BY <1>1, <1>2
<1> QED BY <1>3

MovedBy(w, z, M, d) == w[M] = z[M] + d
DifferAt(u, t, M, i) == \A k \in 0..M : k # i => u[k] = t[k]

(* Where one value changes, so does the sum.                                 *)
LEMMA SumsAlongExist ==
    ASSUME NEW M \in Nat, NEW w \in [0..M -> Int]
    PROVE  \E z : SumsAlong(w, z, M)
<1>1. PICK z : Totals(w, z, M)
  BY TotalsExist
<1>2. z \in [0..M -> Int] /\ z[0] = w[0] /\ \A k \in 1..M : z[k] = w[k] + z[k - 1]
  BY <1>1 DEF Totals
<1>3. ASSUME NEW k \in 0..M PROVE z[k] = w[k] + (IF k = 0 THEN 0 ELSE z[k - 1])
  <2>1. CASE k = 0
    <3>1. PICK a : a = w[0]
      OBVIOUS
    <3>2. a \in Int /\ z[0] = a
      BY <3>1, <1>2
    <3> QED BY <2>1, <3>1, <3>2
  <2>2. CASE k # 0
    <3>1. k \in 1..M
      BY <2>2
    <3> QED BY <2>2, <3>1, <1>2
  <2> QED BY <2>1, <2>2
<1>4. z = [k \in 0..M |-> w[k] + (IF k = 0 THEN 0 ELSE z[k - 1])]
  BY <1>2, <1>3
<1> QED BY <1>4 DEF SumsAlong

LEMMA TotalsChange ==
    ASSUME NEW M \in Nat, NEW t \in [0..M -> Int], NEW u \in [0..M -> Int], NEW z, NEW w,
           Totals(t, z, M), Totals(u, w, M), NEW i \in 0..M, DifferAt(u, t, M, i)
    PROVE  MovedBy(w, z, M, u[i] - t[i])
<1>0. PICK d : d = u[i] - t[i]
  OBVIOUS
<1> DEFINE Right(n) == w[n] = z[n] + (IF n < i THEN 0 ELSE d)
           T == {n \in Nat : n <= M /\ ~Right(n)}
<1>1. M \in Nat /\ d \in Int /\ d = u[i] - t[i] /\ \A k \in 0..M : k # i => u[k] = t[k]
  BY <1>0 DEF DifferAt
<1>2. /\ \A k \in 0..M : z[k] \in Int /\ w[k] \in Int
      /\ z[0] = t[0] /\ w[0] = u[0]
      /\ \A k \in 1..M : z[k] = t[k] + z[k - 1] /\ w[k] = u[k] + w[k - 1]
  BY DEF Totals
<1>3. T = {}
  <2> SUFFICES ASSUME T # {} PROVE FALSE
    OBVIOUS
  <2>1. PICK n \in T : \A l \in T : n <= l
    <3>1. T \subseteq Nat
      OBVIOUS
    <3> HIDE DEF T
    <3> QED BY <3>1, Least
  <2>2. n \in Nat /\ n <= M /\ ~Right(n) /\ n \in 0..M
    OBVIOUS
  <2>3. PICK a : a = t[n]
    OBVIOUS
  <2>4. PICK b : b = u[n]
    OBVIOUS
  <2>5. a \in Int /\ b \in Int /\ b = a + (IF n = i THEN d ELSE 0)
    <3>1. a \in Int /\ b \in Int
      BY <2>2, <2>3, <2>4
    <3>2. CASE n = i
      BY <3>1, <3>2, <2>3, <2>4, <1>1
    <3>3. CASE n # i
      BY <3>1, <3>3, <2>2, <2>3, <2>4, <1>1
    <3> QED BY <3>2, <3>3
  <2>6. CASE n = 0
    <3>1. w[n] = b /\ z[n] = a
      BY <2>6, <2>3, <2>4, <1>2
    <3> QED BY <3>1, <2>2, <2>5, <2>6, <1>1
  <2>7. CASE n # 0
    <3>1. n - 1 \in Nat /\ ~(n <= n - 1) /\ n - 1 <= M /\ n - 1 \in 0..M /\ n \in 1..M
      <4> HIDE DEF Right, T
      <4> QED BY <2>2, <2>7, <1>1
    <3>2. n - 1 \notin T
      <4> HIDE DEF T
      <4> QED BY <2>1, <3>1
    <3>3. w[n - 1] = z[n - 1] + (IF n - 1 < i THEN 0 ELSE d)
      BY <3>1, <3>2
    <3>4. z[n] = a + z[n - 1] /\ w[n] = b + w[n - 1] /\ z[n - 1] \in Int /\ w[n - 1] \in Int
      BY <3>1, <2>3, <2>4, <1>2
    <3>5. PICK p : p = z[n - 1]
      OBVIOUS
    <3>6. PICK q : q = w[n - 1]
      OBVIOUS
    <3>7. p \in Int /\ q \in Int /\ z[n] = a + p /\ w[n] = b + q /\ q = p + (IF n - 1 < i THEN 0 ELSE d)
      BY <3>3, <3>4, <3>5, <3>6
    <3>8. n \in Int /\ i \in Int /\ d \in Int
      BY <2>2, <1>1
    <3>9. w[n] = z[n] + (IF n < i THEN 0 ELSE d)
      <4> HIDE DEF Right, T
      <4>1. CASE n < i
        <5>1. n - 1 < i /\ n # i
          BY <4>1, <3>8
        <5>2. q = p /\ b = a
          BY <5>1, <3>7, <2>5
        <5> QED BY <4>1, <5>2, <3>7, <2>5
      <4>2. CASE n = i
        <5>1. n - 1 < i /\ ~(n < i)
          BY <4>2, <3>8
        <5>2. q = p /\ b = a + d
          BY <4>2, <5>1, <3>7, <2>5
        <5> QED BY <5>1, <5>2, <3>7, <3>8, <2>5
      <4>3. CASE n > i
        <5>1. ~(n - 1 < i) /\ ~(n < i) /\ n # i
          BY <4>3, <3>8
        <5>2. q = p + d /\ b = a
          BY <5>1, <3>7, <2>5
        <5> QED BY <5>1, <5>2, <3>7, <3>8, <2>5
      <4> QED BY <4>1, <4>2, <4>3, <3>8
    <3> QED BY <3>9, <2>2
  <2> QED BY <2>6, <2>7
<1>4. Right(M)
  BY <1>1, <1>3
<1> QED BY <1>0, <1>1, <1>4 DEF MovedBy
=============================================================================
