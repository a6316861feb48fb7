------------------------- MODULE SchedulerListProofs -------------------------
(***************************************************************************)
(* For every set of threads and priorities, and every program whose threads *)
(* keep to places of their own (OwnPlaces): scheduler_list's lists agree    *)
(* with status and bitmaps, no node is linked twice, the thread that         *)
(* SysTick_Handler calls has the highest priority, sleepers wake on time.   *)
(***************************************************************************)
EXTENDS SchedulerList, ListsProofs

(* The globals and the TCBs. *)
Status == {"none", "ready", "sleep", "exit"}
State == [ ready   : [Prio -> Seq(Thread)], rbm : SUBSET Prio,
           sleep   : [Prio -> Seq(Thread)], sbm : SUBSET Prio,
           timeout : Seq(Thread), defunct : Seq(Thread),
           prio    : [Thread -> Nat], ticks : [Thread -> Nat],
           slice   : [Thread -> Nat], status : [Thread -> Status],
           current : Thread \cup {NoThread}, fault : {"none", "relinked", "wild"} ]

(* The ready lists hold the threads of R, each at its level `at', and the    *)
(* bits of ready_bitmap are those of lists with a thread.                    *)
ReadyHolds(q, R, at) ==
    /\ R \subseteq Thread /\ \A t \in R : at[t] \in Prio
    /\ \A p \in Prio : /\ IsOnce(q.ready[p])
                       /\ \A t \in Thread : t \in Elems(q.ready[p]) <=> t \in R /\ at[t] = p
    /\ q.rbm = {p \in Prio : q.ready[p] # <<>>}

(* The same of the sleep lists; `pri' are the original priorities. *)
SleepHolds(q, S, pri) ==
    /\ S \subseteq Thread /\ \A t \in S : pri[t] \in Prio
    /\ \A p \in Prio : /\ IsOnce(q.sleep[p])
                       /\ \A t \in Thread : t \in Elems(q.sleep[p]) <=> t \in S /\ pri[t] = p
    /\ q.sbm = {p \in Prio : q.sleep[p] # <<>>}

DefunctHolds(q, D) == IsOnce(q.defunct) /\ Elems(q.defunct) = D

(* All but the ready lists, and all but the sleep lists, is the same. *)
ReadyApart(r, q) ==
    /\ r.sleep = q.sleep /\ r.sbm = q.sbm /\ r.timeout = q.timeout /\ r.defunct = q.defunct
    /\ r.prio = q.prio /\ r.ticks = q.ticks /\ r.slice = q.slice /\ r.status = q.status
    /\ r.current = q.current /\ r.fault = q.fault

-----------------------------------------------------------------------------
(* The operations on the ready lists. *)

LEMMA PrioFacts ==
    /\ Prio \subseteq Nat
    /\ \A p \in Nat : p < MaxPriority => p \in Prio
    /\ \A p \in Prio : p < MaxPriority
  BY SchedulerListAssumption DEF Prio

(* A thread is linked in a ready list exactly when it is in R. *)
LEMMA ReadyLinkedIs ==
    ASSUME NEW q, NEW R, NEW at, ReadyHolds(q, R, at), NEW t \in Thread
    PROVE  ReadyLinked(q, t) <=> t \in R
  BY DEF ReadyLinked, ReadyHolds

(* list_insert_tail of a ready_node that is not linked, and the bitmap. *)
LEMMA LinkReadyLinks ==
    ASSUME NEW q \in State, NEW R, NEW at, ReadyHolds(q, R, at),
           NEW t \in Thread, t \notin R, NEW p \in Prio, NEW r, r = LinkReady(q, t, p),
           NEW at2, at2[t] = p, \A u \in Thread : u # t => at2[u] = at[u]
    PROVE  /\ r \in State /\ ReadyApart(r, q) /\ ReadyHolds(r, R \cup {t}, at2)
           /\ r.ready[p] = PushBack(q.ready[p], t)
           /\ \A o \in Prio : o # p => r.ready[o] = q.ready[o]
<1>1. ~ReadyLinked(q, t)
  BY ReadyLinkedIs
<1>2. r = [q EXCEPT !.ready[p] = PushBack(@, t), !.rbm = @ \cup {p}]
  BY <1>1 DEF LinkReady
<1>3. /\ q.ready \in [Prio -> Seq(Thread)] /\ q.rbm \in SUBSET Prio
      /\ q.ready[p] \in Seq(Thread)
  BY DEF State
<1> DEFINE b == PushBack(q.ready[p], t)
<1>4. /\ b \in Seq(Thread) /\ b # <<>> /\ Elems(b) = Elems(q.ready[p]) \cup {t}
      /\ IsOnce(q.ready[p]) /\ t \notin Elems(q.ready[p]) => IsOnce(b)
  <2>1. PICK l : l = q.ready[p]
    OBVIOUS
  <2>2. l \in Seq(Thread)
    BY <1>3, <2>1
  <2>3. /\ PushBack(l, t) \in Seq(Thread) /\ PushBack(l, t) # <<>>
        /\ Elems(PushBack(l, t)) = Elems(l) \cup {t}
        /\ IsOnce(l) /\ t \notin Elems(l) => IsOnce(PushBack(l, t))
    BY <2>2, PushBackFacts
  <2> QED BY <2>1, <2>3
<1>5. b = PushBack(q.ready[p], t)
  OBVIOUS
<1> HIDE DEF b
<1>6. /\ r.ready = [q.ready EXCEPT ![p] = b] /\ r.rbm = q.rbm \cup {p}
      /\ ReadyApart(r, q)
  BY <1>2 DEF State, ReadyApart, b
<1>7. r \in State
  <2>1. [q.ready EXCEPT ![p] = b] \in [Prio -> Seq(Thread)] /\ q.rbm \cup {p} \in SUBSET Prio
    BY <1>3, <1>4
  <2>2. r = [q EXCEPT !.ready = [q.ready EXCEPT ![p] = b], !.rbm = q.rbm \cup {p}]
    BY <1>2 DEF State, b
  <2> QED BY <2>1, <2>2 DEF State
<1>8. r.ready[p] = b /\ \A o \in Prio : o # p => r.ready[o] = q.ready[o]
  BY <1>3, <1>6
<1>9. ReadyHolds(r, R \cup {t}, at2)
  <2> DEFINE R2 == R \cup {t}
  <2>1. at2[t] = p /\ \A u \in Thread : u # t => at2[u] = at[u]
    OBVIOUS
  <2>2. R \subseteq Thread /\ (\A u \in R : at[u] \in Prio) /\ q.rbm = {o \in Prio : q.ready[o] # <<>>}
    BY DEF ReadyHolds
  <2>3. R2 \subseteq Thread /\ \A u \in R2 : at2[u] \in Prio
    BY <2>1, <2>2
  <2>4. ASSUME NEW o \in Prio
        PROVE  IsOnce(r.ready[o]) /\ \A u \in Thread : u \in Elems(r.ready[o]) <=> u \in R2 /\ at2[u] = o
    <3>1. IsOnce(q.ready[o]) /\ \A u \in Thread : u \in Elems(q.ready[o]) <=> u \in R /\ at[u] = o
      BY DEF ReadyHolds
    <3>2. CASE o = p
      <4>1. IsOnce(b) /\ Elems(b) = Elems(q.ready[o]) \cup {t}
        BY <3>1, <3>2, <1>4
      <4> QED BY <3>1, <3>2, <4>1, <1>8, <2>1
    <3>3. CASE o # p
      BY <3>1, <3>3, <1>8, <2>1
    <3> QED BY <3>2, <3>3
  <2>5. r.rbm = {o \in Prio : r.ready[o] # <<>>}
    BY <1>4, <1>6, <1>8, <2>2
  <2> HIDE DEF R2
  <2>6. ReadyHolds(r, R2, at2)
    BY <2>3, <2>4, <2>5 DEF ReadyHolds
  <2> QED BY <2>6 DEF R2
<1> QED BY <1>5, <1>6, <1>7, <1>8, <1>9

(* list_remove of a linked ready_node, and the bitmap. *)
LEMMA UnlinkReadyUnlinks ==
    ASSUME NEW q \in State, NEW R, NEW at, ReadyHolds(q, R, at),
           NEW t \in R, NEW r, r = UnlinkReady(q, t, at[t])
    PROVE  /\ r \in State /\ ReadyApart(r, q) /\ ReadyHolds(r, R \ {t}, at)
           /\ \A o \in Prio : o # at[t] => r.ready[o] = q.ready[o]
<1>1. t \in Thread /\ at[t] \in Prio /\ q.rbm = {o \in Prio : q.ready[o] # <<>>} /\ R \subseteq Thread
      /\ \A u \in R : at[u] \in Prio
  BY DEF ReadyHolds
<1>2. q.ready \in [Prio -> Seq(Thread)] /\ q.rbm \in SUBSET Prio
  BY DEF State
<1> DEFINE l == [i \in Prio |-> Unlink(q.ready[i], t)]
<1>3. ASSUME NEW o \in Prio
      PROVE  /\ l[o] \in Seq(Thread) /\ IsOnce(l[o]) /\ Elems(l[o]) = Elems(q.ready[o]) \ {t}
             /\ o # at[t] => l[o] = q.ready[o]
  <2>1. q.ready[o] \in Seq(Thread) /\ IsOnce(q.ready[o])
        /\ \A u \in Thread : u \in Elems(q.ready[o]) <=> u \in R /\ at[u] = o
    BY <1>2 DEF ReadyHolds
  <2>2. o # at[t] => t \notin Elems(q.ready[o])
    BY <1>1, <2>1
  <2>3. l[o] = Unlink(q.ready[o], t)
    OBVIOUS
  <2> HIDE DEF l
  <2> QED BY <2>1, <2>2, <2>3, UnlinkFacts, UnlinkAbsent
<1>4. r = [q EXCEPT !.ready = l, !.rbm = IF l[at[t]] = <<>> THEN @ \ {at[t]} ELSE @]
  BY DEF UnlinkReady
<1>5. l \in [Prio -> Seq(Thread)]
  <2>1. l = [o \in Prio |-> l[o]]
    OBVIOUS
  <2> HIDE DEF l
  <2> QED BY <2>1, <1>3
<1> HIDE DEF l
<1>6. r.ready = l /\ r.rbm = (IF l[at[t]] = <<>> THEN q.rbm \ {at[t]} ELSE q.rbm) /\ ReadyApart(r, q)
  BY <1>4 DEF State, ReadyApart
<1>7. r \in State
  BY <1>2, <1>4, <1>5 DEF State
<1>8. \A o \in Prio : IsOnce(l[o]) /\ \A u \in Thread : u \in Elems(l[o]) <=> u \in R \ {t} /\ at[u] = o
  <2> TAKE o \in Prio
  <2>1. \A u \in Thread : u \in Elems(q.ready[o]) <=> u \in R /\ at[u] = o
    BY DEF ReadyHolds
  <2> QED BY <2>1, <1>3
<1>9. r.rbm = {o \in Prio : l[o] # <<>>}
  <2>1. t \in Elems(q.ready[at[t]])
    BY <1>1 DEF ReadyHolds
  <2>2. q.ready[at[t]] # <<>>
    <3>1. q.ready[at[t]] \in Seq(Thread)
      BY <1>1, <1>2
    <3> QED BY <2>1, <3>1, EmptyElems
  <2> QED BY <2>2, <1>1, <1>3, <1>6
<1>10. ReadyHolds(r, R \ {t}, at)
  BY <1>1, <1>6, <1>8, <1>9 DEF ReadyHolds
<1> QED BY <1>3, <1>6, <1>7, <1>10

-----------------------------------------------------------------------------
(* Lists behind each other: the nodes of all, each once if the lists share   *)
(* none.                                                                     *)
LEMMA FlattenFacts ==
    ASSUME NEW S, NEW n \in Nat \ {0}, NEW f \in [1..n -> Seq(S)],
           \A i \in 1..n : IsOnce(f[i]),
           \A i, j \in 1..n : i # j => Elems(f[i]) \cap Elems(f[j]) = {}
    PROVE  /\ FlattenSeq(f) \in Seq(S) /\ IsOnce(FlattenSeq(f))
           /\ \A e : e \in Elems(FlattenSeq(f)) <=> \E i \in 1..n : e \in Elems(f[i])
<1> DEFINE P(m) == \E g : g = [i \in 1..m |-> IF i = 1 THEN f[i] ELSE g[i - 1] \o f[i]]
           T == {m \in Nat \ {0} : ~P(m)}
<1>1. P(1)
  <2> DEFINE g == [i \in 1..1 |-> f[i]]
  <2>1. g = [i \in 1..1 |-> IF i = 1 THEN f[i] ELSE g[i - 1] \o f[i]]
    <3>1. \A i \in 1..1 : i = 1
      OBVIOUS
    <3> QED BY <3>1
  <2> HIDE DEF g
  <2> QED BY <2>1
<1>2. ASSUME NEW m \in Nat \ {0}, P(m) PROVE P(m + 1)
  <2>1. PICK g : g = [i \in 1..m |-> IF i = 1 THEN f[i] ELSE g[i - 1] \o f[i]]
    BY <1>2
  <2>2. \A i \in 1..m : g[i] = IF i = 1 THEN f[i] ELSE g[i - 1] \o f[i]
    BY <2>1
  <2> DEFINE h == [i \in 1..(m + 1) |-> IF i = m + 1 THEN g[m] \o f[i] ELSE g[i]]
  <2>3. ASSUME NEW i \in 1..(m + 1)
        PROVE  h[i] = IF i = 1 THEN f[i] ELSE h[i - 1] \o f[i]
    <3>1. CASE i = m + 1
      <4>1. i # 1 /\ i - 1 = m /\ m \in 1..(m + 1) /\ m # m + 1
        BY <3>1
      <4>2. h[i] = g[m] \o f[i] /\ h[m] = g[m]
        BY <3>1, <4>1
      <4> HIDE DEF h
      <4> QED BY <4>1, <4>2
    <3>2. CASE i # m + 1
      <4>1. i \in 1..m /\ h[i] = g[i]
        BY <3>2
      <4>2. i # 1 => i - 1 \in 1..(m + 1) /\ i - 1 # m + 1
        BY <4>1
      <4>3. i # 1 => h[i - 1] = g[i - 1]
        BY <4>2
      <4> HIDE DEF h
      <4> QED BY <2>2, <4>1, <4>3
    <3> QED BY <3>1, <3>2
  <2>4. h = [i \in 1..(m + 1) |-> h[i]]
    OBVIOUS
  <2> HIDE DEF h
  <2>5. h = [i \in 1..(m + 1) |-> IF i = 1 THEN f[i] ELSE h[i - 1] \o f[i]]
    BY <2>3, <2>4
  <2> QED BY <2>5
<1> HIDE DEF P
<1>3. T = {}
  <2> SUFFICES ASSUME T # {} PROVE FALSE
    OBVIOUS
  <2>1. PICK m \in T : \A l \in T : m <= l
    <3>1. T \subseteq Nat
      OBVIOUS
    <3> HIDE DEF T
    <3> QED BY <3>1, Least
  <2>2. m \in Nat /\ m # 0 /\ ~P(m)
    OBVIOUS
  <2>3. m # 1
    BY <2>2, <1>1
  <2>4. m - 1 \in Nat \ {0} /\ m - 1 \notin T
    <3>1. m - 1 \in Nat \ {0} /\ ~(m <= m - 1)
      BY <2>2, <2>3
    <3> HIDE DEF T
    <3> QED BY <2>1, <3>1
  <2>5. P(m - 1)
    BY <2>4
  <2>6. P((m - 1) + 1) /\ (m - 1) + 1 = m
    BY <2>2, <2>4, <2>5, <1>2
  <2> QED BY <2>2, <2>6
<1>4. P(n)
  BY <1>3
<1> DEFINE Rec(g) == g = [i \in 1..n |-> IF i = 1 THEN f[i] ELSE g[i - 1] \o f[i]]
           g == CHOOSE x : Rec(x)
<1>5. Rec(g)
  BY <1>4 DEF P
<1>6. FlattenSeq(f) = g[n]
  <2>1. f \in Seq(Seq(S)) /\ Len(f) = n /\ n # 0
    OBVIOUS
  <2> QED BY <2>1 DEF FlattenSeq
<1>7. \A i \in 1..n : g[i] = IF i = 1 THEN f[i] ELSE g[i - 1] \o f[i]
  <2> HIDE DEF g
  <2> QED BY <1>5
<1> HIDE DEF g
<1> DEFINE Done(i) == /\ g[i] \in Seq(S) /\ IsOnce(g[i])
                      /\ Elems(g[i]) = {e \in S : \E j \in 1..i : e \in Elems(f[j])}
           U == {i \in 1..n : ~Done(i)}
<1>8. Done(1)
  <2>1. 1 \in 1..n /\ g[1] = f[1] /\ f[1] \in Seq(S) /\ IsOnce(f[1]) /\ \A j \in 1..1 : j = 1
    BY <1>7
  <2>2. Elems(f[1]) \subseteq S
    BY <2>1, ElemsType
  <2> QED BY <2>1, <2>2
<1>9. ASSUME NEW i \in 1..n, i # 1, Done(i - 1) PROVE Done(i)
  <2>1. /\ i - 1 \in 1..n /\ g[i] = g[i - 1] \o f[i] /\ f[i] \in Seq(S) /\ IsOnce(f[i])
        /\ i \in 1..i /\ \A j \in 1..i : j = i \/ j \in 1..(i - 1)
        /\ \A j \in 1..(i - 1) : j \in 1..i /\ j \in 1..n /\ j # i
    <3>1. i - 1 \in 1..n /\ f[i] \in Seq(S) /\ IsOnce(f[i])
      BY <1>9
    <3>2. g[i] = g[i - 1] \o f[i]
      BY <1>7, <1>9
    <3>3. /\ i \in 1..i /\ \A j \in 1..i : j = i \/ j \in 1..(i - 1)
          /\ \A j \in 1..(i - 1) : j \in 1..i /\ j \in 1..n /\ j # i
      <4> HIDE DEF U, T
      <4> QED OBVIOUS
    <3> QED BY <3>1, <3>2, <3>3
  <2>2. /\ g[i - 1] \in Seq(S) /\ IsOnce(g[i - 1])
        /\ Elems(g[i - 1]) = {e \in S : \E j \in 1..(i - 1) : e \in Elems(f[j])}
    BY <1>9
  <2>3. Elems(f[i]) \subseteq S
    BY <2>1, ElemsType
  <2>4. Elems(g[i - 1]) \cap Elems(f[i]) = {}
    BY <2>1, <2>2
  <2>5. PICK a, b : a = g[i - 1] /\ b = f[i]
    OBVIOUS
  <2>6. a \in Seq(S) /\ b \in Seq(S) /\ IsOnce(a) /\ IsOnce(b) /\ Elems(a) \cap Elems(b) = {}
    BY <2>1, <2>2, <2>4, <2>5
  <2>7. a \o b \in Seq(S) /\ Elems(a \o b) = Elems(a) \cup Elems(b) /\ IsOnce(a \o b)
    BY <2>6, ConcatFacts
  <2>8. g[i] \in Seq(S) /\ Elems(g[i]) = Elems(g[i - 1]) \cup Elems(f[i]) /\ IsOnce(g[i])
    BY <2>1, <2>5, <2>7
  <2>9. Elems(g[i]) = {e \in S : \E j \in 1..i : e \in Elems(f[j])}
    BY <2>1, <2>2, <2>3, <2>8
  <2> QED BY <2>8, <2>9
<1> HIDE DEF Done
<1>10. U = {}
  <2> SUFFICES ASSUME U # {} PROVE FALSE
    OBVIOUS
  <2>1. PICK i \in U : \A l \in U : i <= l
    <3>1. U \subseteq Nat
      OBVIOUS
    <3> HIDE DEF U
    <3> QED BY <3>1, Least
  <2>2. i \in 1..n /\ ~Done(i)
    OBVIOUS
  <2>3. i # 1
    BY <2>2, <1>8
  <2>4. i - 1 \in 1..n /\ i - 1 \notin U
    <3>1. i - 1 \in 1..n /\ ~(i <= i - 1)
      BY <2>2, <2>3
    <3> HIDE DEF U
    <3> QED BY <2>1, <3>1
  <2>5. Done(i - 1)
    BY <2>4
  <2> QED BY <2>2, <2>3, <2>5, <1>9
<1>11. n \in 1..n
  OBVIOUS
<1>12. Done(n)
  BY <1>10, <1>11
<1>13. \A i \in 1..n : Elems(f[i]) \subseteq S
  BY ElemsType
<1> QED BY <1>6, <1>12, <1>13 DEF Done

(* The walk of SysTick_Handler meets every sleeper once. *)
LEMMA SleepersOfFacts ==
    ASSUME NEW q \in State, NEW S, NEW pri, SleepHolds(q, S, pri), NEW w, w = SleepersOf(q, q.sbm)
    PROVE  w \in Seq(Thread) /\ IsOnce(w) /\ Elems(w) = S
<1> DEFINE f == [i \in 1..MaxPriority |-> IF i - 1 \in q.sbm THEN q.sleep[i - 1] ELSE <<>>]
<1>1. MaxPriority \in Nat \ {0}
  BY SchedulerListAssumption
<1>2. /\ q.sleep \in [Prio -> Seq(Thread)]
      /\ \A i \in 1..MaxPriority : i - 1 \in Prio
      /\ \A p \in Prio : p + 1 \in 1..MaxPriority /\ (p + 1) - 1 = p
  BY <1>1 DEF State, Prio
<1>3. ASSUME NEW i \in 1..MaxPriority
      PROVE  f[i] \in Seq(Thread) /\ f[i] = q.sleep[i - 1]
  <2>1. i - 1 \in Prio /\ q.sleep[i - 1] \in Seq(Thread)
    BY <1>2
  <2>2. i - 1 \notin q.sbm => q.sleep[i - 1] = <<>>
    BY <2>1 DEF SleepHolds
  <2> QED BY <2>1, <2>2
<1>4. f \in [1..MaxPriority -> Seq(Thread)]
  <2>1. f = [i \in 1..MaxPriority |-> f[i]]
    OBVIOUS
  <2> HIDE DEF f
  <2> QED BY <2>1, <1>3
<1>5. w = FlattenSeq(f)
  BY DEF SleepersOf
<1> HIDE DEF f
<1>6. S \subseteq Thread /\ \A t \in S : pri[t] \in Prio
  BY DEF SleepHolds
<1>7. ASSUME NEW i \in 1..MaxPriority
      PROVE  IsOnce(f[i]) /\ Elems(f[i]) = {t \in S : pri[t] = i - 1}
  <2>1. i - 1 \in Prio /\ f[i] \in Seq(Thread)
    BY <1>2, <1>3
  <2>2. IsOnce(q.sleep[i - 1]) /\ \A t \in Thread : t \in Elems(q.sleep[i - 1]) <=> t \in S /\ pri[t] = i - 1
    BY <2>1 DEF SleepHolds
  <2>3. Elems(f[i]) \subseteq Thread
    BY <2>1, ElemsType
  <2> QED BY <1>3, <1>6, <2>2, <2>3
<1>8. \A i, j \in 1..MaxPriority : i # j => Elems(f[i]) \cap Elems(f[j]) = {}
  <2> TAKE i, j \in 1..MaxPriority
  <2> HAVE i # j
  <2>1. i - 1 # j - 1
    BY <1>1
  <2> QED BY <2>1, <1>7
<1>9. \A i \in 1..MaxPriority : IsOnce(f[i])
  BY <1>7
<1>10. /\ FlattenSeq(f) \in Seq(Thread) /\ IsOnce(FlattenSeq(f))
       /\ \A e : e \in Elems(FlattenSeq(f)) <=> \E i \in 1..MaxPriority : e \in Elems(f[i])
  <2>1. PICK n, g : n = MaxPriority /\ g = f
    OBVIOUS
  <2>2. n \in Nat \ {0} /\ g \in [1..n -> Seq(Thread)]
    BY <1>1, <1>4, <2>1
  <2>3. /\ \A i \in 1..n : IsOnce(g[i])
        /\ \A i, j \in 1..n : i # j => Elems(g[i]) \cap Elems(g[j]) = {}
    BY <1>8, <1>9, <2>1
  <2>4. /\ FlattenSeq(g) \in Seq(Thread) /\ IsOnce(FlattenSeq(g))
        /\ \A e : e \in Elems(FlattenSeq(g)) <=> \E i \in 1..n : e \in Elems(g[i])
    BY <2>2, <2>3, FlattenFacts
  <2> QED BY <2>1, <2>4
<1>11. ASSUME NEW e \in Thread PROVE (\E i \in 1..MaxPriority : e \in Elems(f[i])) <=> e \in S
  <2>1. ASSUME e \in S PROVE \E i \in 1..MaxPriority : e \in Elems(f[i])
    <3>1. pri[e] \in Prio
      BY <1>6, <2>1
    <3>2. pri[e] + 1 \in 1..MaxPriority /\ (pri[e] + 1) - 1 = pri[e]
      BY <1>2, <3>1
    <3>3. e \in Elems(f[pri[e] + 1])
      BY <1>7, <2>1, <3>2
    <3> QED BY <3>2, <3>3
  <2>2. ASSUME NEW i \in 1..MaxPriority, e \in Elems(f[i]) PROVE e \in S
    BY <1>7, <2>2
  <2> QED BY <2>1, <2>2
<1>12. Elems(FlattenSeq(f)) \subseteq Thread
  BY <1>10, ElemsType
<1> QED BY <1>5, <1>6, <1>10, <1>11, <1>12

-----------------------------------------------------------------------------
(* A walk along a list, one call per node, is a sequence of states.          *)
LEMMA TopIsMax ==
    ASSUME NEW n \in Nat, NEW d \in SUBSET (1..n), n \in d
    PROVE  Max(d) = n
<1>1. \A e \in d : n >= e
  OBVIOUS
<1>2. \A e \in d : (\A y \in d : e >= y) => e = n
  OBVIOUS
<1> QED BY <1>1, <1>2 DEF Max
Counts(x, w) == FoldLeft(CountOne, x, w)

LEMMA CountTurns ==
    ASSUME NEW x, NEW w \in Seq(Thread)
    PROVE  \E z : /\ z[0] = x /\ z[Len(w)] = Counts(x, w)
                  /\ \A i \in 1..Len(w) : z[i] = CountOne(z[i - 1], w[i])
<1> DEFINE P(n) == \E g : g = [d \in SUBSET (1..n) |->
                                 IF d = {} THEN x
                                 ELSE CountOne(g[d \ {Max(d)}], w[Max(d)])]
           n == Len(w)
           T == {m \in Nat : ~P(m)}
<1>1. P(0)
  <2> DEFINE g == [d \in SUBSET (1..0) |-> x]
  <2>1. 1..0 = {} /\ SUBSET (1..0) = {{}}
    OBVIOUS
  <2>2. g = [d \in SUBSET (1..0) |-> IF d = {} THEN x
                                     ELSE CountOne(g[d \ {Max(d)}], w[Max(d)])]
    BY <2>1
  <2> HIDE DEF g
  <2> QED BY <2>2
<1>2. ASSUME NEW m \in Nat, P(m) PROVE P(m + 1)
  <2>1. PICK g : g = [d \in SUBSET (1..m) |-> IF d = {} THEN x
                        ELSE CountOne(g[d \ {Max(d)}], w[Max(d)])]
    BY <1>2
  <2>2. \A d \in SUBSET (1..m) : g[d] = IF d = {} THEN x
                        ELSE CountOne(g[d \ {Max(d)}], w[Max(d)])
    BY <2>1
  <2> DEFINE h == [d \in SUBSET (1..(m + 1)) |->
                     IF m + 1 \in d THEN CountOne(g[d \ {m + 1}], w[m + 1]) ELSE g[d]]
  <2>3. ASSUME NEW d \in SUBSET (1..(m + 1))
        PROVE  h[d] = IF d = {} THEN x ELSE CountOne(h[d \ {Max(d)}], w[Max(d)])
    <3>1. CASE m + 1 \in d
      <4>1. Max(d) = m + 1 /\ d # {} /\ d \ {m + 1} \in SUBSET (1..(m + 1)) /\ m + 1 \notin d \ {m + 1}
        BY <3>1, TopIsMax
      <4>2. h[d] = CountOne(g[d \ {m + 1}], w[m + 1]) /\ h[d \ {m + 1}] = g[d \ {m + 1}]
        BY <3>1, <4>1
      <4> HIDE DEF h
      <4> QED BY <4>1, <4>2
    <3>2. CASE m + 1 \notin d
      <4>1. d \in SUBSET (1..m) /\ d \ {Max(d)} \in SUBSET (1..(m + 1)) /\ m + 1 \notin d \ {Max(d)}
        <5> HIDE DEF h, P, T
        <5>1. \A e \in 1..(m + 1) : e # m + 1 => e \in 1..m
          OBVIOUS
        <5>2. \A e \in d : e \in 1..m
          BY <5>1, <3>2
        <5> QED BY <5>2, <3>2
      <4>2. h[d] = g[d] /\ h[d \ {Max(d)}] = g[d \ {Max(d)}]
        BY <3>2, <4>1
      <4> HIDE DEF h
      <4> QED BY <4>1, <4>2, <2>2
    <3> QED BY <3>1, <3>2
  <2>4. h = [d \in SUBSET (1..(m + 1)) |-> h[d]]
    OBVIOUS
  <2> HIDE DEF h
  <2>5. h = [d \in SUBSET (1..(m + 1)) |->
               IF d = {} THEN x ELSE CountOne(h[d \ {Max(d)}], w[Max(d)])]
    BY <2>3, <2>4
  <2> QED BY <2>5
<1>3. n \in Nat /\ DOMAIN w = 1..n
  OBVIOUS
<1> HIDE DEF P, n
<1>4. T = {}
  <2> SUFFICES ASSUME T # {} PROVE FALSE
    OBVIOUS
  <2>1. PICK m \in T : \A l \in T : m <= l
    <3>1. T \subseteq Nat
      OBVIOUS
    <3> HIDE DEF T
    <3> QED BY <3>1, Least
  <2>2. m \in Nat /\ ~P(m)
    OBVIOUS
  <2>3. m # 0
    BY <2>2, <1>1
  <2>4. m - 1 \in Nat /\ m - 1 \notin T
    <3>1. m - 1 \in Nat /\ ~(m <= m - 1)
      BY <2>2, <2>3
    <3> HIDE DEF T
    <3> QED BY <2>1, <3>1
  <2>5. P(m - 1)
    BY <2>4
  <2>6. P((m - 1) + 1) /\ (m - 1) + 1 = m
    BY <2>4, <2>5, <1>2
  <2> QED BY <2>2, <2>6
<1>5. P(n)
  BY <1>3, <1>4
<1> DEFINE Rec(g) == g = [d \in SUBSET (1..n) |->
                            IF d = {} THEN x ELSE CountOne(g[d \ {Max(d)}], w[Max(d)])]
           g == CHOOSE f : Rec(f)
<1>6. Rec(g)
  BY <1>5 DEF P
<1>7. Counts(x, w) = g[1..n]
  <2>1. FoldLeft(CountOne, x, w) =
             LET iter[d \in SUBSET (DOMAIN w)] ==
                   IF d = {} THEN x ELSE CountOne(iter[d \ {Max(d)}], w[Max(d)])
             IN iter[DOMAIN w]
    <3> HIDE DEF CountOne
    <3> QED BY DEF FoldLeft, MapThenFoldSet
  <2> QED BY <2>1, <1>3 DEF Counts
<1>8. \A d \in SUBSET (1..n) : g[d] = IF d = {} THEN x
                                      ELSE CountOne(g[d \ {Max(d)}], w[Max(d)])
  <2> HIDE DEF g
  <2> QED BY <1>6
<1> HIDE DEF g
<1> DEFINE z == [i \in 0..n |-> g[1..i]]
<1>9. z[0] = x
  <2>1. 0 \in 0..n /\ 1..0 = {} /\ {} \in SUBSET (1..n)
    BY <1>3
  <2> QED BY <2>1, <1>8
<1>10. z[n] = Counts(x, w)
  BY <1>3, <1>7
<1>11. ASSUME NEW i \in 1..n PROVE z[i] = CountOne(z[i - 1], w[i])
  <2>1. i \in Nat /\ i \in 0..n /\ i - 1 \in 0..n
    BY <1>3
  <2>2. (1..i) \in SUBSET (1..n) /\ i \in 1..i /\ 1..i # {} /\ (1..i) \ {i} = 1..(i - 1)
    BY <1>3
  <2>3. Max(1..i) = i
    BY <2>1, <2>2, TopIsMax
  <2>4. g[1..i] = CountOne(g[1..(i - 1)], w[i])
    BY <2>2, <2>3, <1>8
  <2> QED BY <2>1, <2>4
<1> HIDE DEF z
<1> QED BY <1>9, <1>10, <1>11 DEF n

Wakes(x, w) == FoldLeft(WakeOne, x, w)

LEMMA WakeTurns ==
    ASSUME NEW x, NEW w \in Seq(Thread)
    PROVE  \E z : /\ z[0] = x /\ z[Len(w)] = Wakes(x, w)
                  /\ \A i \in 1..Len(w) : z[i] = WakeOne(z[i - 1], w[i])
<1> DEFINE P(n) == \E g : g = [d \in SUBSET (1..n) |->
                                 IF d = {} THEN x
                                 ELSE WakeOne(g[d \ {Max(d)}], w[Max(d)])]
           n == Len(w)
           T == {m \in Nat : ~P(m)}
<1>1. P(0)
  <2> DEFINE g == [d \in SUBSET (1..0) |-> x]
  <2>1. 1..0 = {} /\ SUBSET (1..0) = {{}}
    OBVIOUS
  <2>2. g = [d \in SUBSET (1..0) |-> IF d = {} THEN x
                                     ELSE WakeOne(g[d \ {Max(d)}], w[Max(d)])]
    BY <2>1
  <2> HIDE DEF g
  <2> QED BY <2>2
<1>2. ASSUME NEW m \in Nat, P(m) PROVE P(m + 1)
  <2>1. PICK g : g = [d \in SUBSET (1..m) |-> IF d = {} THEN x
                        ELSE WakeOne(g[d \ {Max(d)}], w[Max(d)])]
    BY <1>2
  <2>2. \A d \in SUBSET (1..m) : g[d] = IF d = {} THEN x
                        ELSE WakeOne(g[d \ {Max(d)}], w[Max(d)])
    BY <2>1
  <2> DEFINE h == [d \in SUBSET (1..(m + 1)) |->
                     IF m + 1 \in d THEN WakeOne(g[d \ {m + 1}], w[m + 1]) ELSE g[d]]
  <2>3. ASSUME NEW d \in SUBSET (1..(m + 1))
        PROVE  h[d] = IF d = {} THEN x ELSE WakeOne(h[d \ {Max(d)}], w[Max(d)])
    <3>1. CASE m + 1 \in d
      <4>1. Max(d) = m + 1 /\ d # {} /\ d \ {m + 1} \in SUBSET (1..(m + 1)) /\ m + 1 \notin d \ {m + 1}
        BY <3>1, TopIsMax
      <4>2. h[d] = WakeOne(g[d \ {m + 1}], w[m + 1]) /\ h[d \ {m + 1}] = g[d \ {m + 1}]
        BY <3>1, <4>1
      <4> HIDE DEF h
      <4> QED BY <4>1, <4>2
    <3>2. CASE m + 1 \notin d
      <4>1. d \in SUBSET (1..m) /\ d \ {Max(d)} \in SUBSET (1..(m + 1)) /\ m + 1 \notin d \ {Max(d)}
        <5> HIDE DEF h, P, T
        <5>1. \A e \in 1..(m + 1) : e # m + 1 => e \in 1..m
          OBVIOUS
        <5>2. \A e \in d : e \in 1..m
          BY <5>1, <3>2
        <5> QED BY <5>2, <3>2
      <4>2. h[d] = g[d] /\ h[d \ {Max(d)}] = g[d \ {Max(d)}]
        BY <3>2, <4>1
      <4> HIDE DEF h
      <4> QED BY <4>1, <4>2, <2>2
    <3> QED BY <3>1, <3>2
  <2>4. h = [d \in SUBSET (1..(m + 1)) |-> h[d]]
    OBVIOUS
  <2> HIDE DEF h
  <2>5. h = [d \in SUBSET (1..(m + 1)) |->
               IF d = {} THEN x ELSE WakeOne(h[d \ {Max(d)}], w[Max(d)])]
    BY <2>3, <2>4
  <2> QED BY <2>5
<1>3. n \in Nat /\ DOMAIN w = 1..n
  OBVIOUS
<1> HIDE DEF P, n
<1>4. T = {}
  <2> SUFFICES ASSUME T # {} PROVE FALSE
    OBVIOUS
  <2>1. PICK m \in T : \A l \in T : m <= l
    <3>1. T \subseteq Nat
      OBVIOUS
    <3> HIDE DEF T
    <3> QED BY <3>1, Least
  <2>2. m \in Nat /\ ~P(m)
    OBVIOUS
  <2>3. m # 0
    BY <2>2, <1>1
  <2>4. m - 1 \in Nat /\ m - 1 \notin T
    <3>1. m - 1 \in Nat /\ ~(m <= m - 1)
      BY <2>2, <2>3
    <3> HIDE DEF T
    <3> QED BY <2>1, <3>1
  <2>5. P(m - 1)
    BY <2>4
  <2>6. P((m - 1) + 1) /\ (m - 1) + 1 = m
    BY <2>4, <2>5, <1>2
  <2> QED BY <2>2, <2>6
<1>5. P(n)
  BY <1>3, <1>4
<1> DEFINE Rec(g) == g = [d \in SUBSET (1..n) |->
                            IF d = {} THEN x ELSE WakeOne(g[d \ {Max(d)}], w[Max(d)])]
           g == CHOOSE f : Rec(f)
<1>6. Rec(g)
  BY <1>5 DEF P
<1>7. Wakes(x, w) = g[1..n]
  <2>1. FoldLeft(WakeOne, x, w) =
             LET iter[d \in SUBSET (DOMAIN w)] ==
                   IF d = {} THEN x ELSE WakeOne(iter[d \ {Max(d)}], w[Max(d)])
             IN iter[DOMAIN w]
    <3> HIDE DEF WakeOne
    <3> QED BY DEF FoldLeft, MapThenFoldSet
  <2> QED BY <2>1, <1>3 DEF Wakes
<1>8. \A d \in SUBSET (1..n) : g[d] = IF d = {} THEN x
                                      ELSE WakeOne(g[d \ {Max(d)}], w[Max(d)])
  <2> HIDE DEF g
  <2> QED BY <1>6
<1> HIDE DEF g
<1> DEFINE z == [i \in 0..n |-> g[1..i]]
<1>9. z[0] = x
  <2>1. 0 \in 0..n /\ 1..0 = {} /\ {} \in SUBSET (1..n)
    BY <1>3
  <2> QED BY <2>1, <1>8
<1>10. z[n] = Wakes(x, w)
  BY <1>3, <1>7
<1>11. ASSUME NEW i \in 1..n PROVE z[i] = WakeOne(z[i - 1], w[i])
  <2>1. i \in Nat /\ i \in 0..n /\ i - 1 \in 0..n
    BY <1>3
  <2>2. (1..i) \in SUBSET (1..n) /\ i \in 1..i /\ 1..i # {} /\ (1..i) \ {i} = 1..(i - 1)
    BY <1>3
  <2>3. Max(1..i) = i
    BY <2>1, <2>2, TopIsMax
  <2>4. g[1..i] = WakeOne(g[1..(i - 1)], w[i])
    BY <2>2, <2>3, <1>8
  <2> QED BY <2>1, <2>4
<1> HIDE DEF z
<1> QED BY <1>9, <1>10, <1>11 DEF n

-----------------------------------------------------------------------------
(* The walk along the sleepers.                                              *)

(* Of the sleepers S of q the walk has met those in U. *)
DueOf(q, U) == {t \in U : q.ticks[t] = 1}

Counted(y, q, U, S, pri) ==
    /\ y \in State
    /\ y.ready = q.ready /\ y.rbm = q.rbm /\ y.defunct = q.defunct /\ y.prio = q.prio
    /\ y.slice = q.slice /\ y.current = q.current /\ y.fault = q.fault
    /\ \A t \in Thread : y.ticks[t] = IF t \in U /\ q.ticks[t] > 0 THEN q.ticks[t] - 1 ELSE q.ticks[t]
    /\ \A t \in Thread : y.status[t] = IF t \in DueOf(q, U) THEN "ready" ELSE q.status[t]
    /\ SleepHolds(y, S \ DueOf(q, U), pri)
    /\ IsOnce(y.timeout) /\ Elems(y.timeout) = DueOf(q, U)

LEMMA CountsOne ==
    ASSUME NEW q \in State, NEW y, NEW U, NEW S, NEW pri, Counted(y, q, U, S, pri),
           SleepHolds(q, S, pri), U \subseteq S, NEW t \in S, t \notin U
    PROVE  Counted(CountOne(y, t), q, U \cup {t}, S, pri)
<1> DEFINE V == U \cup {t}
           l == [p \in Prio |-> Unlink(y.sleep[p], t)]
<1>1. PICK r : r = CountOne(y, t)
  OBVIOUS
<1>2. /\ y \in State
      /\ y.ready = q.ready /\ y.rbm = q.rbm /\ y.defunct = q.defunct /\ y.prio = q.prio
      /\ y.slice = q.slice /\ y.current = q.current /\ y.fault = q.fault
      /\ SleepHolds(y, S \ DueOf(q, U), pri)
      /\ IsOnce(y.timeout) /\ Elems(y.timeout) = DueOf(q, U)
  BY DEF Counted
<1>3. /\ \A u \in Thread : y.ticks[u] = IF u \in U /\ q.ticks[u] > 0 THEN q.ticks[u] - 1 ELSE q.ticks[u]
      /\ \A u \in Thread : y.status[u] = IF u \in DueOf(q, U) THEN "ready" ELSE q.status[u]
  BY DEF Counted
<1>4. S \subseteq Thread /\ t \in Thread /\ (\A u \in S : pri[u] \in Prio)
  BY DEF SleepHolds
<1>5. q.ticks \in [Thread -> Nat] /\ y.ticks \in [Thread -> Nat] /\ y.status \in [Thread -> Status]
      /\ y.sleep \in [Prio -> Seq(Thread)] /\ y.timeout \in Seq(Thread) /\ y.sbm \in SUBSET Prio
  BY <1>2 DEF State
<1>6. y.ticks[t] = q.ticks[t] /\ q.ticks[t] \in Nat
  BY <1>3, <1>4, <1>5
<1>7. CASE q.ticks[t] = 0
  <2>1. r = y /\ DueOf(q, V) = DueOf(q, U)
    BY <1>1, <1>6, <1>7 DEF CountOne, DueOf
  <2>2. \A u \in Thread : y.ticks[u] = IF u \in V /\ q.ticks[u] > 0 THEN q.ticks[u] - 1 ELSE q.ticks[u]
    BY <1>3, <1>6, <1>7
  <2> HIDE DEF V
  <2>3. Counted(r, q, V, S, pri)
    BY <2>1, <2>2, <1>2, <1>3 DEF Counted
  <2> QED BY <2>3, <1>1 DEF V
<1>8. CASE q.ticks[t] > 1
  <2>1. r = [y EXCEPT !.ticks[t] = @ - 1] /\ DueOf(q, V) = DueOf(q, U)
    BY <1>1, <1>6, <1>8 DEF CountOne, DueOf
  <2>2. y.ticks[t] - 1 \in Nat
    BY <1>6, <1>8
  <2>3. /\ r \in State /\ r.ticks = [y.ticks EXCEPT ![t] = y.ticks[t] - 1]
        /\ r.ready = y.ready /\ r.rbm = y.rbm /\ r.defunct = y.defunct /\ r.prio = y.prio
        /\ r.slice = y.slice /\ r.current = y.current /\ r.fault = y.fault
        /\ r.sleep = y.sleep /\ r.sbm = y.sbm /\ r.status = y.status /\ r.timeout = y.timeout
    BY <2>1, <2>2, <1>2, <1>4 DEF State
  <2>4. \A u \in Thread : r.ticks[u] = IF u \in V /\ q.ticks[u] > 0 THEN q.ticks[u] - 1 ELSE q.ticks[u]
    <3>1. \A u \in Thread : r.ticks[u] = IF u = t THEN y.ticks[t] - 1 ELSE y.ticks[u]
      BY <2>3, <1>4, <1>5
    <3> QED BY <3>1, <1>3, <1>6, <1>8
  <2>5. SleepHolds(r, S \ DueOf(q, U), pri)
    BY <2>3, <1>2 DEF SleepHolds
  <2> HIDE DEF V
  <2>6. Counted(r, q, V, S, pri)
    BY <2>1, <2>3, <2>4, <2>5, <1>2, <1>3 DEF Counted
  <2> QED BY <2>6, <1>1 DEF V
<1>9. CASE q.ticks[t] = 1
  <2>1. DueOf(q, V) = DueOf(q, U) \cup {t} /\ t \notin DueOf(q, U) /\ DueOf(q, U) \subseteq U
    BY <1>9 DEF DueOf
  <2>2. r = [[y EXCEPT !.ticks[t] = @ - 1] EXCEPT
                !.status[t] = "ready", !.sleep = l,
                !.sbm = {p \in @ : l[p] # <<>> \/ l[p] = y.sleep[p]},
                !.timeout = PushBack(@, t)]
    BY <1>1, <1>6, <1>9 DEF CountOne
  <2>3. ASSUME NEW p \in Prio
        PROVE  /\ l[p] \in Seq(Thread) /\ IsOnce(l[p]) /\ Elems(l[p]) = Elems(y.sleep[p]) \ {t}
               /\ t \notin Elems(y.sleep[p]) => l[p] = y.sleep[p]
               /\ t \in Elems(y.sleep[p]) => l[p] # y.sleep[p] /\ y.sleep[p] # <<>>
    <3>1. y.sleep[p] \in Seq(Thread) /\ IsOnce(y.sleep[p])
      BY <1>2, <1>5 DEF SleepHolds
    <3>2. l[p] = Unlink(y.sleep[p], t)
      OBVIOUS
    <3> HIDE DEF l
    <3>3. l[p] \in Seq(Thread) /\ IsOnce(l[p]) /\ Elems(l[p]) = Elems(y.sleep[p]) \ {t}
      BY <3>1, <3>2, UnlinkFacts
    <3>4. t \notin Elems(y.sleep[p]) => l[p] = y.sleep[p]
      BY <3>2, UnlinkAbsent
    <3>5. t \in Elems(y.sleep[p]) => y.sleep[p] # <<>>
      BY <3>1, EmptyElems
    <3> QED BY <3>3, <3>4, <3>5
  <2>4. l \in [Prio -> Seq(Thread)]
    <3>1. l = [p \in Prio |-> l[p]]
      OBVIOUS
    <3> HIDE DEF l
    <3> QED BY <3>1, <2>3
  <2> HIDE DEF l
  <2>5. PICK b : b = PushBack(y.timeout, t)
    OBVIOUS
  <2>6. b \in Seq(Thread) /\ IsOnce(b) /\ Elems(b) = DueOf(q, V)
    <3>1. PICK o : o = y.timeout
      OBVIOUS
    <3>2. o \in Seq(Thread) /\ IsOnce(o) /\ t \notin Elems(o)
      BY <3>1, <1>2, <1>5, <2>1
    <3>3. PushBack(o, t) \in Seq(Thread) /\ IsOnce(PushBack(o, t)) /\ Elems(PushBack(o, t)) = Elems(o) \cup {t}
      BY <3>2, <1>4, PushBackFacts
    <3> QED BY <3>1, <3>3, <2>1, <2>5, <1>2
  <2> DEFINE m == {p \in y.sbm : l[p] # <<>> \/ l[p] = y.sleep[p]}
  <2>7. /\ r.ticks = [y.ticks EXCEPT ![t] = y.ticks[t] - 1] /\ r.status = [y.status EXCEPT ![t] = "ready"]
        /\ r.ready = y.ready /\ r.rbm = y.rbm /\ r.defunct = y.defunct /\ r.prio = y.prio
        /\ r.slice = y.slice /\ r.current = y.current /\ r.fault = y.fault
        /\ r.sleep = l /\ r.sbm = m /\ r.timeout = b
    BY <2>2, <2>5, <1>2 DEF State
  <2>8. r \in State
    <3>1. /\ [y.ticks EXCEPT ![t] = y.ticks[t] - 1] \in [Thread -> Nat]
          /\ [y.status EXCEPT ![t] = "ready"] \in [Thread -> Status]
      BY <1>4, <1>5, <1>6, <1>9 DEF Status
    <3>2. m \in SUBSET Prio
      BY <1>5
    <3>3. r = [y EXCEPT !.ticks = [y.ticks EXCEPT ![t] = y.ticks[t] - 1],
                        !.status = [y.status EXCEPT ![t] = "ready"],
                        !.sleep = l, !.sbm = m, !.timeout = b]
      BY <2>2, <2>5, <1>2 DEF State
    <3> HIDE DEF m
    <3> QED BY <1>2, <2>4, <2>6, <3>1, <3>2, <3>3 DEF State
  <2>9. \A u \in Thread : r.ticks[u] = IF u \in V /\ q.ticks[u] > 0 THEN q.ticks[u] - 1 ELSE q.ticks[u]
    <3>1. \A u \in Thread : r.ticks[u] = IF u = t THEN y.ticks[t] - 1 ELSE y.ticks[u]
      BY <2>7, <1>4, <1>5
    <3> QED BY <3>1, <1>3, <1>6, <1>9
  <2>10. \A u \in Thread : r.status[u] = IF u \in DueOf(q, V) THEN "ready" ELSE q.status[u]
    <3>1. \A u \in Thread : r.status[u] = IF u = t THEN "ready" ELSE y.status[u]
      BY <2>7, <1>4, <1>5
    <3> QED BY <3>1, <2>1, <1>3
  <2>11. SleepHolds(r, S \ DueOf(q, V), pri)
    <3>1. \A p \in Prio : /\ IsOnce(y.sleep[p])
                          /\ \A u \in Thread : u \in Elems(y.sleep[p]) <=> u \in S \ DueOf(q, U) /\ pri[u] = p
      BY <1>2 DEF SleepHolds
    <3>2. \A p \in Prio : /\ IsOnce(l[p])
                          /\ \A u \in Thread : u \in Elems(l[p]) <=> u \in S \ DueOf(q, V) /\ pri[u] = p
      <4> TAKE p \in Prio
      <4>1. IsOnce(l[p]) /\ Elems(l[p]) = Elems(y.sleep[p]) \ {t}
        BY <2>3
      <4> HIDE DEF V
      <4>2. ASSUME NEW u \in Thread
            PROVE  u \in Elems(l[p]) <=> u \in S \ DueOf(q, V) /\ pri[u] = p
        BY <4>1, <3>1, <2>1
      <4> QED BY <4>1, <4>2
    <3>3. y.sbm = {p \in Prio : y.sleep[p] # <<>>}
      BY <1>2 DEF SleepHolds
    <3>4. m = {p \in Prio : l[p] # <<>>}
      BY <3>3, <2>3
    <3> HIDE DEF m, V
    <3> QED BY <3>2, <3>4, <1>4, <2>7 DEF SleepHolds
  <2> HIDE DEF V, m
  <2>12. Counted(r, q, V, S, pri)
    BY <2>6, <2>7, <2>8, <2>9, <2>10, <2>11, <1>2 DEF Counted
  <2> QED BY <2>12, <1>1 DEF V
<1> QED BY <1>6, <1>7, <1>8, <1>9

(* SysTick_Handler counts every sleeper, once. *)
LEMMA CountsAll ==
    ASSUME NEW q \in State, NEW S, NEW pri, SleepHolds(q, S, pri), q.timeout = <<>>
    PROVE  Counted(CountDown(q), q, S, S, pri)
<1>1. PICK w : w = SleepersOf(q, q.sbm)
  OBVIOUS
<1>2. w \in Seq(Thread) /\ IsOnce(w) /\ Elems(w) = S
  BY <1>1, SleepersOfFacts
<1>3. PICK z : /\ z[0] = q /\ z[Len(w)] = Counts(q, w)
               /\ \A i \in 1..Len(w) : z[i] = CountOne(z[i - 1], w[i])
  BY <1>2, CountTurns
<1>4. PICK n : n = Len(w)
  OBVIOUS
<1>5. n \in Nat /\ DOMAIN w = 1..n
  BY <1>2, <1>4
<1> DEFINE U(i) == {w[j] : j \in 1..i}
           T == {i \in 0..n : ~Counted(z[i], q, U(i), S, pri)}
<1>6. Counted(z[0], q, U(0), S, pri)
  <2>1. U(0) = {} /\ DueOf(q, {}) = {}
    BY DEF DueOf
  <2>2. PICK e : e = {}
    OBVIOUS
  <2>3. Elems(q.timeout) = e /\ IsOnce(q.timeout)
    <3>1. PICK o : o = q.timeout
      OBVIOUS
    <3>2. o \in Seq(Thread) /\ o = <<>> /\ DOMAIN o = {}
      BY <3>1
    <3>3. Elems(o) = {}
      BY <3>2, EmptyElems
    <3>4. IsOnce(o)
      BY <3>2 DEF IsOnce
    <3> QED BY <2>2, <3>1, <3>3, <3>4
  <2>4. S \ e = S /\ DueOf(q, e) = e
    BY <2>1, <2>2
  <2>5. Counted(q, q, e, S, pri)
    BY <2>2, <2>3, <2>4 DEF Counted
  <2> QED BY <2>1, <2>2, <2>5, <1>3
<1>7. ASSUME NEW i \in 1..n, Counted(z[i - 1], q, U(i - 1), S, pri)
      PROVE  Counted(z[i], q, U(i), S, pri)
  <2>1. i \in DOMAIN w /\ \A j \in 1..(i - 1) : j \in DOMAIN w /\ j # i
    BY <1>5
  <2>2. w[i] \in S /\ U(i - 1) \subseteq S /\ w[i] \notin U(i - 1)
    BY <1>2, <2>1 DEF Elems, IsOnce
  <2>3. U(i) = U(i - 1) \cup {w[i]}
    <3>1. \A j \in 1..i : j = i \/ j \in 1..(i - 1)
      OBVIOUS
    <3>2. i \in 1..i /\ \A j \in 1..(i - 1) : j \in 1..i
      OBVIOUS
    <3> QED BY <3>1, <3>2
  <2>4. z[i] = CountOne(z[i - 1], w[i])
    BY <1>3, <1>4
  <2> HIDE DEF U
  <2>5. PICK y, u, t : y = z[i - 1] /\ u = U(i - 1) /\ t = w[i]
    OBVIOUS
  <2>6. Counted(CountOne(y, t), q, u \cup {t}, S, pri)
    BY <1>7, <2>2, <2>5, CountsOne
  <2> QED BY <2>3, <2>4, <2>5, <2>6
<1> HIDE DEF U
<1>8. T = {}
  <2> SUFFICES ASSUME T # {} PROVE FALSE
    OBVIOUS
  <2>1. PICK i \in T : \A l \in T : i <= l
    <3>1. T \subseteq Nat
      OBVIOUS
    <3> HIDE DEF T
    <3> QED BY <3>1, Least
  <2>2. i \in 0..n /\ ~Counted(z[i], q, U(i), S, pri)
    OBVIOUS
  <2>3. i # 0
    BY <2>2, <1>6
  <2>4. i \in 1..n /\ i - 1 \in 0..n /\ i - 1 \notin T
    <3>1. i \in 1..n /\ i - 1 \in 0..n /\ ~(i <= i - 1)
      <4> HIDE DEF T
      <4> QED BY <2>2, <2>3, <1>5
    <3> HIDE DEF T
    <3> QED BY <2>1, <3>1
  <2>5. Counted(z[i - 1], q, U(i - 1), S, pri)
    BY <2>4
  <2> QED BY <2>2, <2>4, <2>5, <1>7
<1>9. n \in 0..n
  BY <1>5
<1>10. Counted(z[n], q, U(n), S, pri)
  BY <1>8, <1>9
<1>11. U(n) = S
  BY <1>2, <1>5 DEF Elems, U
<1>12. z[n] = CountDown(q)
  BY <1>1, <1>3, <1>4 DEF CountDown, Counts
<1> QED BY <1>10, <1>11, <1>12
-----------------------------------------------------------------------------
(* scheduler: the current thread goes back to its own priority, those that   *)
(* timed out become ready, the best one is picked.                           *)

Boosted(t) == Priority[t] - prog.Boost[t]

(* The current thread is at the head of a list with others only while it has *)
(* a slice left: the case of line 292 does not occur.                        *)
Fresh(q) == \A p \in Prio : Len(q.ready[p]) > 1 /\ Head(q.ready[p]) = q.current
                               => q.slice[q.current] > 0

(* What the state is for Fresh when only its own priority counts. *)
Lead(q, n) == \A p \in Prio : /\ Len(q.ready[p]) > 1 /\ Head(q.ready[p]) = q.current
                              /\ p = Priority[q.current]
                              => q.slice[q.current] > n

LEMMA SliceMaxFacts ==
    ASSUME prog \in Program, NEW t \in Thread
    PROVE  SliceMax(t) \in Nat /\ SliceMax(t) > 0
  BY SchedulerListAssumption DEF SliceMax, Program

LEMMA Restores ==
    ASSUME NEW q \in State, NEW R, ReadyHolds(q, R, q.prio), prog \in Program,
           q.current \in Thread, q.current \in R => Priority[q.current] \in Prio, Lead(q, 0)
    PROVE  LET r == RestorePriority(q)
           IN  /\ r \in State /\ r.prio = [q.prio EXCEPT ![q.current] = Priority[q.current]]
               /\ r.sleep = q.sleep /\ r.sbm = q.sbm /\ r.timeout = q.timeout /\ r.defunct = q.defunct
               /\ r.ticks = q.ticks /\ r.slice = q.slice /\ r.status = q.status
               /\ r.current = q.current /\ r.fault = q.fault
               /\ ReadyHolds(r, R, r.prio) /\ Fresh(r)
<1> DEFINE c == q.current
<1>1. PICK r : r = RestorePriority(q)
  OBVIOUS
<1>2. c \in Thread /\ c # NoThread
  BY SchedulerListAssumption
<1>3. /\ q.prio \in [Thread -> Nat] /\ q.ready \in [Prio -> Seq(Thread)]
      /\ Priority \in [Thread -> Nat]
  BY DEF State, Program, Priority
<1>4. ASSUME NEW p \in Prio, q.ready[p] # <<>>
      PROVE  Head(q.ready[p]) \in R /\ q.prio[Head(q.ready[p])] = p
  <2>1. PICK l : l = q.ready[p]
    OBVIOUS
  <2>2. l \in Seq(Thread) /\ l # <<>>
    BY <1>3, <1>4, <2>1
  <2>3. Head(l) \in Elems(l) /\ Head(l) \in Thread
    BY <2>2, HeadElem
  <2> QED BY <2>1, <2>3 DEF ReadyHolds
<1>5. CASE q.prio[c] = Priority[c]
  <2>1. r = q
    BY <1>1, <1>5 DEF RestorePriority
  <2>2. q.prio = [q.prio EXCEPT ![c] = Priority[c]]
    BY <1>2, <1>3, <1>5
  <2>3. Fresh(q)
    <3> SUFFICES ASSUME NEW p \in Prio, Len(q.ready[p]) > 1, Head(q.ready[p]) = q.current
                 PROVE  q.slice[q.current] > 0
      BY DEF Fresh
    <3>1. q.ready[p] # <<>>
      OBVIOUS
    <3>2. p = Priority[q.current]
      BY <1>4, <1>5, <3>1
    <3> QED BY <3>2 DEF Lead
  <2> QED BY <1>1, <2>1, <2>2, <2>3
<1> DEFINE a == [q EXCEPT !.prio[c] = Priority[c]]
<1>6. /\ a \in State /\ a.prio = [q.prio EXCEPT ![c] = Priority[c]]
      /\ a.ready = q.ready /\ a.rbm = q.rbm
      /\ a.sleep = q.sleep /\ a.sbm = q.sbm /\ a.timeout = q.timeout /\ a.defunct = q.defunct
      /\ a.ticks = q.ticks /\ a.slice = q.slice /\ a.status = q.status
      /\ a.current = q.current /\ a.fault = q.fault
  <2>1. [q.prio EXCEPT ![c] = Priority[c]] \in [Thread -> Nat]
    BY <1>2, <1>3
  <2>2. a = [q EXCEPT !.prio = [q.prio EXCEPT ![c] = Priority[c]]]
    BY DEF State
  <2> QED BY <2>1, <2>2 DEF State
<1> HIDE DEF a
<1>7. ReadyHolds(a, R, q.prio)
  BY <1>6 DEF ReadyHolds
<1>8. CASE q.prio[c] # Priority[c] /\ c \notin R
  <2>1. ~ReadyLinked(q, c)
    BY <1>2, <1>8, ReadyLinkedIs
  <2>2. r = a
    BY <1>1, <1>2, <1>8, <2>1 DEF RestorePriority, a
  <2>3. ReadyHolds(a, R, a.prio)
    <3>1. R \subseteq Thread
      BY DEF ReadyHolds
    <3>2. \A t \in R : a.prio[t] = q.prio[t]
      BY <1>2, <1>3, <1>6, <1>8, <3>1
    <3> QED BY <3>2, <1>7 DEF ReadyHolds
  <2>4. Fresh(a)
    <3> SUFFICES ASSUME NEW p \in Prio, Len(a.ready[p]) > 1, Head(a.ready[p]) = a.current
                 PROVE  FALSE
      BY DEF Fresh
    <3>1. q.ready[p] # <<>> /\ Head(q.ready[p]) = c
      BY <1>6
    <3> QED BY <1>4, <1>8, <3>1
  <2> QED BY <1>1, <1>6, <2>2, <2>3, <2>4
<1>9. CASE q.prio[c] # Priority[c] /\ c \in R
  <2>1. ReadyLinked(q, c)
    BY <1>2, <1>9, ReadyLinkedIs
  <2>2. PICK u : u = UnlinkReady(a, c, q.prio[c])
    OBVIOUS
  <2>3. r = LinkReady(u, c, Priority[c])
    BY <1>1, <1>2, <1>9, <2>1, <2>2 DEF RestorePriority, a
  <2>4. PICK at, d, R2 : at = q.prio /\ d = c /\ R2 = R \ {c}
    OBVIOUS
  <2>5. at \in [Thread -> Nat] /\ d \in R /\ u = UnlinkReady(a, d, at[d]) /\ ReadyHolds(a, R, at)
    BY <1>3, <1>7, <1>9, <2>2, <2>4
  <2>6. u \in State /\ ReadyApart(u, a) /\ ReadyHolds(u, R \ {d}, at)
    BY <1>6, <2>5, UnlinkReadyUnlinks
  <2>7. PICK p : p = Priority[c]
    OBVIOUS
  <2>8. p \in Prio /\ d \in Thread /\ d \notin R2 /\ ReadyHolds(u, R2, at) /\ r = LinkReady(u, d, p)
    BY <1>2, <1>9, <2>3, <2>4, <2>6, <2>7
  <2>15. PICK at2 : at2 = [at EXCEPT ![d] = p]
    OBVIOUS
  <2>14. at2[d] = p /\ \A v \in Thread : v # d => at2[v] = at[v]
    BY <2>5, <2>8, <2>15
  <2>9. /\ r \in State /\ ReadyApart(r, u) /\ ReadyHolds(r, R2 \cup {d}, at2)
        /\ r.ready[p] = PushBack(u.ready[p], d)
    BY <2>5, <2>6, <2>8, <2>14, LinkReadyLinks
  <2>10. R2 \cup {d} = R /\ at2 = r.prio
    BY <1>6, <1>9, <2>4, <2>6, <2>7, <2>9, <2>15 DEF ReadyApart
  <2>11. ReadyHolds(r, R, r.prio)
    BY <2>9, <2>10
  <2>12. Fresh(r)
    <3> SUFFICES ASSUME NEW o \in Prio, Len(r.ready[o]) > 1, Head(r.ready[o]) = r.current
                 PROVE  FALSE
      BY DEF Fresh
    <3>1. r.current = d
      BY <1>6, <2>4, <2>6, <2>9 DEF ReadyApart
    <3>2. r.ready[o] \in Seq(Thread) /\ r.ready[o] # <<>> /\ u.ready[p] \in Seq(Thread)
      BY <2>6, <2>8, <2>9 DEF State
    <3>3. d \in Elems(r.ready[o])
      <4>1. PICK l : l = r.ready[o]
        OBVIOUS
      <4> QED BY <3>1, <3>2, <4>1, HeadElem
    <3>4. o = p
      <4>1. d \in R2 \cup {d} /\ at2[d] = o
        BY <2>8, <2>9, <3>3 DEF ReadyHolds
      <4> QED BY <4>1, <2>5, <2>8, <2>14
    <3>5. PICK l : l = u.ready[p]
      OBVIOUS
    <3>6. l \in Seq(Thread) /\ Len(Append(l, d)) > 1 /\ Head(Append(l, d)) = d
      BY <2>9, <3>1, <3>2, <3>4, <3>5 DEF PushBack
    <3>7. l # <<>> /\ Head(l) = d
      BY <3>6, <2>8
    <3>8. d \in Elems(l)
      BY <3>6, <3>7, HeadElem
    <3>9. d \in R2
      BY <2>8, <3>5, <3>8 DEF ReadyHolds
    <3> QED BY <2>8, <3>9
  <2>13. /\ r.sleep = q.sleep /\ r.sbm = q.sbm /\ r.timeout = q.timeout /\ r.defunct = q.defunct
         /\ r.ticks = q.ticks /\ r.slice = q.slice /\ r.status = q.status
         /\ r.current = q.current /\ r.fault = q.fault
         /\ r.prio = [q.prio EXCEPT ![q.current] = Priority[q.current]]
    BY <1>6, <2>6, <2>9 DEF ReadyApart
  <2> QED BY <1>1, <2>9, <2>11, <2>12, <2>13
<1> QED BY <1>5, <1>8, <1>9

(* The scheduler has woken those in U, from state q on. *)
Woken(y, q, R, U) ==
    /\ y \in State
    /\ y.sleep = q.sleep /\ y.sbm = q.sbm /\ y.timeout = q.timeout /\ y.defunct = q.defunct
    /\ y.ticks = q.ticks /\ y.status = q.status /\ y.current = q.current /\ y.fault = q.fault
    /\ \A t \in Thread : y.prio[t] = IF t \in U THEN Boosted(t) ELSE q.prio[t]
    /\ \A t \in Thread : y.slice[t] = IF t \in U THEN SliceMax(t) ELSE q.slice[t]
    /\ ReadyHolds(y, R \cup U, y.prio) /\ Fresh(y)

(* Who may be woken: a sleeper, at its own priority. *)
MayWake(q, t) ==
    /\ t \in Thread /\ t \in prog.MaySleep /\ q.prio[t] = Priority[t]
    /\ Priority[t] \in Prio /\ prog.Boost[t] <= Priority[t]

LEMMA WakesOne ==
    ASSUME NEW q \in State, NEW y, NEW R, NEW U, Woken(y, q, R, U), prog \in Program, OwnPlaces(prog),
           U \subseteq Thread, NEW t, MayWake(q, t), t \notin R, t \notin U,
           q.current \in Thread, q.current \in R => q.prio[q.current] = Priority[q.current]
    PROVE  Woken(WakeOne(y, t), q, R, U \cup {t})
<1> DEFINE new == Boosted(t)
           a == [y EXCEPT !.slice[t] = SliceMax(t), !.prio[t] = new]
<1>1. /\ t \in Thread /\ t \in prog.MaySleep /\ q.prio[t] = Priority[t]
      /\ Priority[t] \in Prio /\ prog.Boost[t] <= Priority[t]
      /\ Priority \in [Thread -> Nat] /\ prog.Boost \in [Thread -> Nat]
  BY DEF MayWake, Program, Priority
<1>2. new \in Prio
  BY <1>1, SchedulerListAssumption DEF Prio, Boosted
<1>3. /\ y \in State
      /\ y.sleep = q.sleep /\ y.sbm = q.sbm /\ y.timeout = q.timeout /\ y.defunct = q.defunct
      /\ y.ticks = q.ticks /\ y.status = q.status /\ y.current = q.current /\ y.fault = q.fault
      /\ ReadyHolds(y, R \cup U, y.prio) /\ Fresh(y)
  BY DEF Woken
<1>4. /\ \A u \in Thread : y.prio[u] = IF u \in U THEN Boosted(u) ELSE q.prio[u]
      /\ \A u \in Thread : y.slice[u] = IF u \in U THEN SliceMax(u) ELSE q.slice[u]
  BY DEF Woken
<1>5. SliceMax(t) \in Nat /\ SliceMax(t) > 0
  BY <1>1, SliceMaxFacts
<1>6. /\ y.prio \in [Thread -> Nat] /\ y.slice \in [Thread -> Nat] /\ y.ready \in [Prio -> Seq(Thread)]
  BY <1>3 DEF State
<1> HIDE DEF new
<1>7. /\ a \in State
      /\ a.prio = [y.prio EXCEPT ![t] = new] /\ a.slice = [y.slice EXCEPT ![t] = SliceMax(t)]
      /\ a.ready = y.ready /\ a.rbm = y.rbm
      /\ a.sleep = y.sleep /\ a.sbm = y.sbm /\ a.timeout = y.timeout /\ a.defunct = y.defunct
      /\ a.ticks = y.ticks /\ a.status = y.status /\ a.current = y.current /\ a.fault = y.fault
  <2>1. new \in Nat
    BY <1>2, PrioFacts
  <2>2. [y.prio EXCEPT ![t] = new] \in [Thread -> Nat] /\ [y.slice EXCEPT ![t] = SliceMax(t)] \in [Thread -> Nat]
    BY <1>1, <1>5, <1>6, <2>1
  <2>3. a = [y EXCEPT !.slice = [y.slice EXCEPT ![t] = SliceMax(t)], !.prio = [y.prio EXCEPT ![t] = new]]
    BY <1>3 DEF State
  <2> QED BY <2>2, <2>3, <1>3 DEF State
<1> HIDE DEF a
<1>8. PICK at, V, p : at = y.prio /\ V = R \cup U /\ p = new
  OBVIOUS
<1>9. at \in [Thread -> Nat] /\ t \notin V /\ p \in Prio /\ ReadyHolds(a, V, at)
  <2>1. ReadyHolds(a, R \cup U, y.prio)
    BY <1>3, <1>7 DEF ReadyHolds
  <2> QED BY <2>1, <1>2, <1>6, <1>8
<1>10. PICK r, at2, x : r = LinkReady(a, t, p) /\ at2 = [at EXCEPT ![t] = p] /\ x = a
  OBVIOUS
<1>11. /\ r \in State /\ ReadyApart(r, a)
       /\ ReadyHolds(r, V \cup {t}, at2)
       /\ r.ready[p] = PushBack(a.ready[p], t)
       /\ \A o \in Prio : o # p => r.ready[o] = a.ready[o]
  <2>1. x \in State /\ ReadyHolds(x, V, at) /\ r = LinkReady(x, t, p)
    BY <1>7, <1>9, <1>10
  <2>2. /\ r \in State /\ ReadyApart(r, x)
        /\ ReadyHolds(r, V \cup {t}, at2)
        /\ r.ready[p] = PushBack(x.ready[p], t)
        /\ \A o \in Prio : o # p => r.ready[o] = x.ready[o]
    <3>1. at2[t] = p /\ \A v \in Thread : v # t => at2[v] = at[v]
      BY <1>1, <1>9, <1>10
    <3>2. t \in Thread /\ t \notin V /\ p \in Prio
      BY <1>1, <1>9
    <3> QED BY <2>1, <3>1, <3>2, LinkReadyLinks
  <2> QED BY <2>2, <1>10
<1>12. WakeOne(y, t) = r
  <2>1. (IF prog.Boost[t] <= Priority[t] THEN Priority[t] - prog.Boost[t] ELSE 0) = p
    BY <1>1, <1>8 DEF new, Boosted
  <2>2. y.prio[t] \in Prio
    BY <1>1, <1>4
  <2>3. PICK old : old = y.prio[t]
    OBVIOUS
  <2>4. r = LinkReady([y EXCEPT !.slice[t] = SliceMax(t), !.prio[t] = p], t, p)
    BY <1>8, <1>10 DEF a
  <2>5. WakeOne(y, t) = IF old # p /\ r.ready[old] = <<>>
                        THEN [r EXCEPT !.rbm = r.rbm \ {old}] ELSE r
    <3> DEFINE nn == IF prog.Boost[t] <= Priority[t] THEN Priority[t] - prog.Boost[t] ELSE 0
               L(n) == LinkReady([y EXCEPT !.slice[t] = SliceMax(t), !.prio[t] = n], t, n)
               W(v) == IF y.prio[t] # nn /\ v.ready[y.prio[t]] = <<>>
                       THEN [v EXCEPT !.rbm = v.rbm \ {y.prio[t]}] ELSE v
    <3>1. WakeOne(y, t) = W(L(nn))
      BY Zenon DEF WakeOne
    <3>2. L(nn) = r
      <4> HIDE DEF nn
      <4>1. nn = p
        BY <2>1 DEF nn
      <4> QED BY <4>1, <2>4, Zenon
    <3>3. W(r) = IF old # p /\ r.ready[old] = <<>>
                 THEN [r EXCEPT !.rbm = r.rbm \ {old}] ELSE r
      <4> HIDE DEF nn
      <4>1. nn = p
        BY <2>1 DEF nn
      <4> QED BY <4>1, <2>3, Zenon
    <3> HIDE DEF W, L, nn
    <3> QED BY <3>1, <3>2, <3>3
  <2>6. r.ready[old] = <<>> => r.rbm \ {old} = r.rbm
    <3>1. r.rbm = {o \in Prio : r.ready[o] # <<>>}
      BY <1>11 DEF ReadyHolds
    <3> QED BY <3>1
  <2>7. [r EXCEPT !.rbm = r.rbm] = r
    BY <1>11 DEF State
  <2> QED BY <2>5, <2>6, <2>7
<1>13. /\ r.sleep = q.sleep /\ r.sbm = q.sbm /\ r.timeout = q.timeout /\ r.defunct = q.defunct
       /\ r.ticks = q.ticks /\ r.status = q.status /\ r.current = q.current /\ r.fault = q.fault
       /\ r.prio = [y.prio EXCEPT ![t] = new] /\ r.slice = [y.slice EXCEPT ![t] = SliceMax(t)]
  BY <1>3, <1>7, <1>11 DEF ReadyApart
<1>14. \A u \in Thread : r.prio[u] = IF u \in U \cup {t} THEN Boosted(u) ELSE q.prio[u]
  BY <1>1, <1>4, <1>6, <1>13 DEF new
<1>15. \A u \in Thread : r.slice[u] = IF u \in U \cup {t} THEN SliceMax(u) ELSE q.slice[u]
  BY <1>1, <1>4, <1>6, <1>13
<1>16. ReadyHolds(r, R \cup (U \cup {t}), r.prio)
  <2>1. V \cup {t} = R \cup (U \cup {t}) /\ at2 = r.prio
    BY <1>8, <1>10, <1>13
  <2> QED BY <2>1, <1>11
<1>17. Fresh(r)
  <2> SUFFICES ASSUME NEW o \in Prio, Len(r.ready[o]) > 1, Head(r.ready[o]) = r.current
               PROVE  r.slice[r.current] > 0
    BY DEF Fresh
  <2> DEFINE c == r.current
  <2>1. c \in Thread /\ c = q.current /\ c = y.current
    BY <1>3, <1>13
  <2>2. CASE c = t
    BY <1>5, <1>15, <2>1, <2>2
  <2>3. CASE c # t /\ c \in U
    BY <1>15, <2>1, <2>3, SliceMaxFacts
  <2>4. CASE c # t /\ c \notin U
    <3>1. r.slice[c] = y.slice[c]
      BY <1>4, <1>15, <2>1, <2>4
    <3>2. CASE o # p
      <4>1. r.ready[o] = y.ready[o]
        BY <1>7, <1>11, <3>2
      <4> QED BY <4>1, <3>1, <2>1, <1>3 DEF Fresh
    <3>3. CASE o = p
      <4>1. PICK l : l = y.ready[p]
        OBVIOUS
      <4>2. l \in Seq(Thread) /\ Len(Append(l, t)) > 1 /\ Head(Append(l, t)) = c
        BY <1>6, <1>7, <1>9, <1>11, <3>3, <4>1 DEF PushBack
      <4>3. l # <<>> /\ Head(l) = c
        BY <4>2, <1>1, <2>4
      <4>4. c \in Elems(l)
        BY <4>2, <4>3, HeadElem
      <4>5. c \in R \cup U /\ y.prio[c] = p
        BY <1>3, <1>9, <2>1, <4>1, <4>4 DEF ReadyHolds
      <4>6. Priority[c] = Boosted(t)
        BY <1>4, <1>8, <2>1, <2>4, <4>5 DEF new
      <4>7. Priority[t] # Priority[c] + prog.Boost[t]
        BY <1>1, <2>1, <2>4 DEF OwnPlaces, Priority
      <4>8. Priority[c] \in Nat /\ Priority[t] \in Nat /\ prog.Boost[t] \in Nat
        BY <1>1, <2>1
      <4> HIDE DEF c
      <4> QED BY <4>6, <4>7, <4>8 DEF Boosted
    <3> QED BY <3>2, <3>3
  <2> QED BY <2>2, <2>3, <2>4
<1>18. Woken(r, q, R, U \cup {t})
  BY <1>11, <1>13, <1>14, <1>15, <1>16, <1>17 DEF Woken
<1> QED BY <1>12, <1>18

(* scheduler wakes every thread of timeout_list. *)
LEMMA WakesAll ==
    ASSUME NEW q \in State, NEW R, NEW U, ReadyHolds(q, R, q.prio), Fresh(q),
           prog \in Program, OwnPlaces(prog),
           IsOnce(q.timeout), Elems(q.timeout) = U, U \cap R = {},
           \A t \in U : MayWake(q, t),
           q.current \in Thread, q.current \in R => q.prio[q.current] = Priority[q.current],
           NEW x, x = [q EXCEPT !.timeout = <<>>]
    PROVE  Woken(WakeTimedOut(q), x, R, U)
<1>1. PICK w : w = q.timeout
  OBVIOUS
<1>2. w \in Seq(Thread) /\ IsOnce(w) /\ Elems(w) = U
  BY <1>1 DEF State
<1>3. /\ x \in State /\ x.ready = q.ready /\ x.rbm = q.rbm /\ x.sleep = q.sleep /\ x.sbm = q.sbm
      /\ x.timeout = <<>> /\ x.defunct = q.defunct /\ x.prio = q.prio /\ x.ticks = q.ticks
      /\ x.slice = q.slice /\ x.status = q.status /\ x.current = q.current /\ x.fault = q.fault
  <2>1. <<>> \in Seq(Thread)
    OBVIOUS
  <2> QED BY <2>1 DEF State
<1>4. PICK z : /\ z[0] = x /\ z[Len(w)] = Wakes(x, w)
               /\ \A i \in 1..Len(w) : z[i] = WakeOne(z[i - 1], w[i])
  BY <1>2, WakeTurns
<1>5. PICK n : n = Len(w)
  OBVIOUS
<1>6. n \in Nat /\ DOMAIN w = 1..n
  BY <1>2, <1>5
<1> DEFINE V(i) == {w[j] : j \in 1..i}
           T == {i \in 0..n : ~Woken(z[i], x, R, V(i))}
<1>7. Woken(z[0], x, R, V(0))
  <2>1. V(0) = {}
    OBVIOUS
  <2>2. PICK e : e = {}
    OBVIOUS
  <2>3. R \cup e = R
    BY <2>2
  <2>4. ReadyHolds(x, R, x.prio) /\ Fresh(x)
    BY <1>3 DEF ReadyHolds, Fresh
  <2>5. Woken(x, x, R, e)
    BY <1>3, <2>2, <2>3, <2>4 DEF Woken
  <2> QED BY <2>1, <2>2, <2>5, <1>4
<1>8. ASSUME NEW i \in 1..n, Woken(z[i - 1], x, R, V(i - 1))
      PROVE  Woken(z[i], x, R, V(i))
  <2>1. i \in DOMAIN w /\ \A j \in 1..(i - 1) : j \in DOMAIN w /\ j # i
    BY <1>6
  <2>2. w[i] \in U /\ V(i - 1) \subseteq U /\ w[i] \notin V(i - 1)
    BY <1>2, <2>1 DEF Elems, IsOnce
  <2>3. V(i) = V(i - 1) \cup {w[i]}
    <3>1. \A j \in 1..i : j = i \/ j \in 1..(i - 1)
      OBVIOUS
    <3>2. i \in 1..i /\ \A j \in 1..(i - 1) : j \in 1..i
      OBVIOUS
    <3> QED BY <3>1, <3>2
  <2>4. z[i] = WakeOne(z[i - 1], w[i])
    BY <1>4, <1>5
  <2> HIDE DEF V
  <2>5. PICK y, u, t : y = z[i - 1] /\ u = V(i - 1) /\ t = w[i]
    OBVIOUS
  <2>6. Woken(y, x, R, u) /\ t \notin u /\ t \notin R
    BY <1>8, <2>2, <2>5
  <2>7. MayWake(x, t)
    BY <2>2, <2>5, <1>3 DEF MayWake
  <2>8. u \subseteq Thread
    <3>1. U \subseteq Thread
      BY DEF MayWake
    <3> QED BY <3>1, <2>2, <2>5
  <2>9. x.current \in Thread /\ (x.current \in R => x.prio[x.current] = Priority[x.current])
    BY <1>3
  <2>10. Woken(WakeOne(y, t), x, R, u \cup {t})
    BY <1>3, <2>6, <2>7, <2>8, <2>9, WakesOne
  <2> QED BY <2>3, <2>4, <2>5, <2>10
<1> HIDE DEF V
<1>9. T = {}
  <2> SUFFICES ASSUME T # {} PROVE FALSE
    OBVIOUS
  <2>1. PICK i \in T : \A l \in T : i <= l
    <3>1. T \subseteq Nat
      OBVIOUS
    <3> HIDE DEF T
    <3> QED BY <3>1, Least
  <2>2. i \in 0..n /\ ~Woken(z[i], x, R, V(i))
    OBVIOUS
  <2>3. i # 0
    BY <2>2, <1>7
  <2>4. i \in 1..n /\ i - 1 \in 0..n /\ i - 1 \notin T
    <3>1. i \in 1..n /\ i - 1 \in 0..n /\ ~(i <= i - 1)
      <4> HIDE DEF T
      <4> QED BY <2>2, <2>3, <1>6
    <3> HIDE DEF T
    <3> QED BY <2>1, <3>1
  <2>5. Woken(z[i - 1], x, R, V(i - 1))
    BY <2>4
  <2> QED BY <2>2, <2>4, <2>5, <1>8
<1>10. n \in 0..n
  BY <1>6
<1>11. Woken(z[n], x, R, V(n))
  BY <1>9, <1>10
<1>12. V(n) = U
  BY <1>2, <1>6 DEF Elems, V
<1>13. z[n] = WakeTimedOut(q)
  BY <1>1, <1>4, <1>5 DEF WakeTimedOut, Wakes
<1> QED BY <1>11, <1>12, <1>13

(* ready_bitmap is empty exactly when no thread is ready. *)
LEMMA CanPickIs ==
    ASSUME NEW q \in State, NEW R, NEW at, ReadyHolds(q, R, at)
    PROVE  /\ CanPick(q) <=> R # {}
           /\ R # {} => /\ Min(q.rbm) \in Prio /\ q.ready[Min(q.rbm)] # <<>>
                        /\ Head(q.ready[Min(q.rbm)]) \in R
                        /\ at[Head(q.ready[Min(q.rbm)])] = Min(q.rbm)
                        /\ \A t \in R : Min(q.rbm) <= at[t]
<1>1. /\ q.ready \in [Prio -> Seq(Thread)] /\ q.rbm = {p \in Prio : q.ready[p] # <<>>}
      /\ R \subseteq Thread /\ \A t \in R : at[t] \in Prio
  BY DEF State, ReadyHolds
<1>2. ASSUME NEW t \in R PROVE at[t] \in q.rbm
  <2>1. at[t] \in Prio /\ q.ready[at[t]] \in Seq(Thread) /\ t \in Elems(q.ready[at[t]])
    BY <1>1 DEF ReadyHolds
  <2>2. q.ready[at[t]] # <<>>
    BY <2>1, EmptyElems
  <2> QED BY <1>1, <2>1, <2>2
<1>3. ASSUME NEW p \in q.rbm
      PROVE  p \in Prio /\ q.ready[p] # <<>> /\ Head(q.ready[p]) \in R /\ at[Head(q.ready[p])] = p
  <2>1. p \in Prio /\ q.ready[p] # <<>> /\ q.ready[p] \in Seq(Thread)
    BY <1>1
  <2>2. PICK l : l = q.ready[p]
    OBVIOUS
  <2>3. Head(l) \in Elems(l) /\ Head(l) \in Thread
    BY <2>1, <2>2, HeadElem
  <2> QED BY <2>1, <2>2, <2>3 DEF ReadyHolds
<1>4. ASSUME q.rbm # {} PROVE Min(q.rbm) \in q.rbm /\ \A p \in q.rbm : Min(q.rbm) <= p
  <2>1. q.rbm \subseteq Nat
    BY <1>1, PrioFacts
  <2>2. \E m \in q.rbm : \A p \in q.rbm : m <= p
    BY <1>4, <2>1, Least
  <2> QED BY <2>2 DEF Min
<1>5. q.rbm # {} <=> R # {}
  BY <1>2, <1>3
<1>6. ASSUME R # {} PROVE CanPick(q)
  BY <1>3, <1>4, <1>5, <1>6 DEF CanPick
<1>7. ASSUME CanPick(q) PROVE R # {}
  BY <1>5, <1>7 DEF CanPick
<1>8. ASSUME R # {}
      PROVE  /\ Min(q.rbm) \in Prio /\ q.ready[Min(q.rbm)] # <<>>
             /\ Head(q.ready[Min(q.rbm)]) \in R
             /\ at[Head(q.ready[Min(q.rbm)])] = Min(q.rbm)
             /\ \A t \in R : Min(q.rbm) <= at[t]
  BY <1>2, <1>3, <1>4, <1>5, <1>8
<1> QED BY <1>6, <1>7, <1>8

(* The head of a list goes to its tail. *)
LEMMA RotateFacts ==
    ASSUME NEW S, NEW l \in Seq(S), l # <<>>, IsOnce(l), NEW r, r = Append(Tail(l), Head(l))
    PROVE  /\ r \in Seq(S) /\ r # <<>> /\ IsOnce(r) /\ Elems(r) = Elems(l)
           /\ Len(r) > 1 => Head(r) # Head(l)
<1>1. /\ Tail(l) \in Seq(S) /\ Len(Tail(l)) = Len(l) - 1 /\ Head(l) \in S
      /\ Elems(l) = {Head(l)} \cup Elems(Tail(l))
      /\ IsOnce(Tail(l)) /\ Head(l) \notin Elems(Tail(l))
  BY TailFacts
<1>2. PICK a, h : a = Tail(l) /\ h = Head(l)
  OBVIOUS
<1>3. a \in Seq(S) /\ h \in S /\ IsOnce(a) /\ h \notin Elems(a) /\ Elems(l) = {h} \cup Elems(a)
  BY <1>1, <1>2
<1>4. r = PushBack(a, h)
  BY <1>2 DEF PushBack
<1>5. r \in Seq(S) /\ r # <<>> /\ Elems(r) = Elems(a) \cup {h} /\ IsOnce(r)
  <2>1. /\ PushBack(a, h) \in Seq(S) /\ PushBack(a, h) # <<>>
        /\ Elems(PushBack(a, h)) = Elems(a) \cup {h}
        /\ IsOnce(a) /\ h \notin Elems(a) => IsOnce(PushBack(a, h))
    BY <1>3, PushBackFacts
  <2> QED BY <2>1, <1>3, <1>4
<1>6. ASSUME Len(r) > 1 PROVE Head(r) # h
  <2>1. r = Append(a, h)
    BY <1>4 DEF PushBack
  <2>2. a # <<>> /\ Head(r) = Head(a)
    BY <1>3, <1>6, <2>1
  <2>3. Head(a) \in Elems(a)
    BY <1>3, <2>2, HeadElem
  <2> QED BY <1>3, <2>2, <2>3
<1> QED BY <1>2, <1>3, <1>5, <1>6

(* The current thread is not in front of others. *)
Settled(q) == \A p \in Prio : Len(q.ready[p]) > 1 => Head(q.ready[p]) # q.current

(* The best of the ready threads R has become the current one. *)
Picked(r, q, R) ==
    /\ r \in State /\ r.current \in R
    /\ r.sleep = q.sleep /\ r.sbm = q.sbm /\ r.timeout = q.timeout /\ r.defunct = q.defunct
    /\ r.prio = q.prio /\ r.ticks = q.ticks /\ r.status = q.status /\ r.fault = q.fault
    /\ ReadyHolds(r, R, r.prio) /\ Settled(r)
    /\ \A t \in R : r.prio[r.current] <= r.prio[t]

LEMMA Picks ==
    ASSUME NEW q \in State, NEW R, ReadyHolds(q, R, q.prio), R # {}, Fresh(q), prog \in Program,
           NEW r, r = Pick(q)
    PROVE  Picked(r, q, R)
<1>1. PICK hp : hp = Min(q.rbm)
  OBVIOUS
<1>2. /\ hp \in Prio /\ q.ready[hp] # <<>> /\ Head(q.ready[hp]) \in R
      /\ q.prio[Head(q.ready[hp])] = hp
      /\ \A t \in R : hp <= q.prio[t]
  <2>1. PICK at : at = q.prio
    OBVIOUS
  <2>2. ReadyHolds(q, R, at)
    BY <2>1
  <2> QED BY <1>1, <2>1, <2>2, CanPickIs
<1>3. PICK l, best : l = q.ready[hp] /\ best = Head(l)
  OBVIOUS
<1>4. /\ l \in Seq(Thread) /\ l # <<>> /\ IsOnce(l) /\ best \in R /\ R \subseteq Thread
      /\ q.prio[best] = hp /\ \A t \in R : q.prio[t] \in Prio
  BY <1>2, <1>3 DEF State, ReadyHolds
<1>5. PICK m : m = Append(Tail(l), best)
  OBVIOUS
<1>6. m \in Seq(Thread) /\ m # <<>> /\ IsOnce(m) /\ Elems(m) = Elems(l) /\ (Len(m) > 1 => Head(m) # best)
  BY <1>3, <1>4, <1>5, RotateFacts
<1>7. ~(best = q.current /\ q.slice[best] = 0 /\ Len(l) > 1)
  <2> SUFFICES ASSUME best = q.current, q.slice[best] = 0, Len(l) > 1 PROVE FALSE
    OBVIOUS
  <2>1. q.slice[q.current] > 0
    BY <1>2, <1>3 DEF Fresh
  <2> QED BY <2>1
<1>8. PICK sl : sl = IF best = q.current /\ q.slice[best] = 0 THEN SliceMax(best) ELSE q.slice[best]
  OBVIOUS
<1>9. sl \in Nat
  BY <1>4, <1>8, SliceMaxFacts DEF State
<1>10. r = [q EXCEPT !.slice[best] = sl, !.current = best, !.ready[hp] = m]
  <2> DEFINE e == best = q.current /\ q.slice[best] = 0
  <2>1. r = IF e /\ Len(l) > 1 THEN [q EXCEPT !.fault = "wild"]
            ELSE [q EXCEPT !.slice[best] = IF e THEN SliceMax(best) ELSE @,
                           !.current     = best,
                           !.ready[hp]   = Append(Tail(l), best)]
    BY <1>1, <1>3, Zenon DEF Pick
  <2>2. r = [q EXCEPT !.slice[best] = IF e THEN SliceMax(best) ELSE @,
                           !.current     = best,
                           !.ready[hp]   = Append(Tail(l), best)]
    BY <2>1, <1>7
  <2> QED BY <2>2, <1>5, <1>8
<1>11. q.slice \in [Thread -> Nat] /\ q.ready \in [Prio -> Seq(Thread)] /\ best \in Thread
  BY <1>4 DEF State
<1>12. /\ r.slice = [q.slice EXCEPT ![best] = sl] /\ r.ready = [q.ready EXCEPT ![hp] = m]
       /\ r.current = best /\ r.rbm = q.rbm
       /\ r.sleep = q.sleep /\ r.sbm = q.sbm /\ r.timeout = q.timeout /\ r.defunct = q.defunct
       /\ r.prio = q.prio /\ r.ticks = q.ticks /\ r.status = q.status /\ r.fault = q.fault
  BY <1>10 DEF State
<1>13. r \in State
  <2>1. [q.slice EXCEPT ![best] = sl] \in [Thread -> Nat] /\ [q.ready EXCEPT ![hp] = m] \in [Prio -> Seq(Thread)]
    BY <1>2, <1>6, <1>9, <1>11
  <2>2. r = [q EXCEPT !.slice = [q.slice EXCEPT ![best] = sl], !.current = best,
                      !.ready = [q.ready EXCEPT ![hp] = m]]
    BY <1>10 DEF State
  <2> QED BY <1>11, <2>1, <2>2 DEF State
<1>14. r.ready[hp] = m /\ \A p \in Prio : p # hp => r.ready[p] = q.ready[p]
  BY <1>2, <1>11, <1>12
<1>15. ReadyHolds(r, R, r.prio)
  <2>1. \A p \in Prio : /\ IsOnce(r.ready[p])
                        /\ \A t \in Thread : t \in Elems(r.ready[p]) <=> t \in R /\ q.prio[t] = p
    <3> TAKE p \in Prio
    <3>1. IsOnce(q.ready[p]) /\ \A t \in Thread : t \in Elems(q.ready[p]) <=> t \in R /\ q.prio[t] = p
      BY DEF ReadyHolds
    <3> QED BY <3>1, <1>3, <1>6, <1>14
  <2>2. q.rbm = {p \in Prio : q.ready[p] # <<>>}
    BY DEF ReadyHolds
  <2>3. r.rbm = {p \in Prio : r.ready[p] # <<>>}
    BY <2>2, <1>2, <1>6, <1>12, <1>14
  <2> QED BY <2>1, <2>3, <1>4, <1>12 DEF ReadyHolds
<1>16. Settled(r)
  <2> SUFFICES ASSUME NEW p \in Prio, Len(r.ready[p]) > 1, Head(r.ready[p]) = r.current
               PROVE  FALSE
    BY DEF Settled
  <2>1. p # hp
    BY <1>6, <1>12, <1>14
  <2>2. PICK k : k = q.ready[p]
    OBVIOUS
  <2>3. k \in Seq(Thread) /\ Len(k) > 1 /\ Head(k) = best
    BY <1>11, <1>12, <1>14, <2>1, <2>2
  <2>4. k # <<>>
    BY <2>3
  <2>5. best \in Elems(k)
    BY <2>3, <2>4, HeadElem
  <2>6. q.prio[best] = p
    BY <1>11, <2>2, <2>5 DEF ReadyHolds
  <2> QED BY <1>4, <2>1, <2>6
<1>17. r.current \in R /\ \A t \in R : r.prio[r.current] <= r.prio[t]
  BY <1>2, <1>4, <1>12
<1> QED BY <1>12, <1>13, <1>15, <1>16, <1>17 DEF Picked

(* One tick less of the slice of the current thread. *)
LEMMA CountsSlice ==
    ASSUME NEW q \in State, q.current \in Thread, Lead(q, 1), NEW r, r = CountSlice(q)
    PROVE  /\ r \in State /\ Lead(r, 0)
           /\ r.ready = q.ready /\ r.rbm = q.rbm /\ r.sleep = q.sleep /\ r.sbm = q.sbm
           /\ r.timeout = q.timeout /\ r.defunct = q.defunct
           /\ r.prio = q.prio /\ r.ticks = q.ticks /\ r.status = q.status /\ r.fault = q.fault
           /\ r.current = q.current
<1>1. PICK c, n : c = q.current /\ n = q.slice[c]
  OBVIOUS
<1>2. c \in Thread /\ n \in Nat /\ c # NoThread /\ q.slice \in [Thread -> Nat]
  BY <1>1, SchedulerListAssumption DEF State
<1>3. CASE n > 0
  <2>1. r = [q EXCEPT !.slice[c] = @ - 1]
    BY <1>1, <1>2, <1>3 DEF CountSlice
  <2>2. n - 1 \in Nat
    BY <1>2, <1>3
  <2>3. [q.slice EXCEPT ![c] = n - 1] \in [Thread -> Nat]
    BY <1>2, <2>2
  <2>4. r = [q EXCEPT !.slice = [q.slice EXCEPT ![c] = n - 1]]
    BY <1>1, <2>1 DEF State
  <2>5. /\ r \in State /\ r.slice = [q.slice EXCEPT ![c] = n - 1]
        /\ r.ready = q.ready /\ r.rbm = q.rbm /\ r.sleep = q.sleep /\ r.sbm = q.sbm
        /\ r.timeout = q.timeout /\ r.defunct = q.defunct
        /\ r.prio = q.prio /\ r.ticks = q.ticks /\ r.status = q.status /\ r.fault = q.fault
        /\ r.current = q.current
    BY <2>3, <2>4 DEF State
  <2>6. r.slice[c] = n - 1
    BY <1>2, <2>5
  <2>7. Lead(r, 0)
    <3> SUFFICES ASSUME NEW p \in Prio, Len(r.ready[p]) > 1, Head(r.ready[p]) = r.current,
                        p = Priority[r.current]
                 PROVE  r.slice[r.current] > 0
      BY DEF Lead
    <3>1. n > 1
      BY <1>1, <2>5 DEF Lead
    <3> QED BY <1>1, <1>2, <2>5, <2>6, <3>1
  <2> QED BY <2>5, <2>7
<1>4. CASE n = 0
  <2>1. r = q
    BY <1>1, <1>4 DEF CountSlice
  <2>2. Lead(q, 0)
    BY <1>1, <1>4 DEF Lead
  <2> QED BY <2>1, <2>2
<1> QED BY <1>2, <1>3, <1>4

-----------------------------------------------------------------------------
(* SysTick_Handler up to the choice: R are the ready threads, S the sleepers, *)
(* those with one tick left change sides.                                     *)
Ticked(x, q, R, S, D) ==
    /\ x \in State /\ x.timeout = <<>> /\ x.defunct = q.defunct
    /\ x.current = q.current /\ x.fault = q.fault
    /\ \A t \in Thread : x.ticks[t] = IF t \in S /\ q.ticks[t] > 0 THEN q.ticks[t] - 1 ELSE q.ticks[t]
    /\ \A t \in Thread : x.status[t] = IF t \in D THEN "ready" ELSE q.status[t]
    /\ \A t \in Thread : x.prio[t] = IF t \in D THEN Boosted(t)
                                     ELSE IF t = q.current THEN Priority[t] ELSE q.prio[t]
    /\ ReadyHolds(x, R \cup D, x.prio) /\ SleepHolds(x, S \ D, Priority) /\ Fresh(x)

LEMMA Ticks ==
    ASSUME NEW q \in State, NEW R, NEW S, ReadyHolds(q, R, q.prio), SleepHolds(q, S, Priority),
           q.timeout = <<>>, prog \in Program, OwnPlaces(prog), R \cap S = {},
           \A t \in S : MayWake(q, t),
           q.current \in Thread, q.current \in R => Priority[q.current] \in Prio, Lead(q, 1),
           NEW a, a = CountSlice(CountDown(q)), NEW b, b = RestorePriority(a),
           NEW x, x = WakeTimedOut(b), NEW D, D = DueOf(q, S)
    PROVE  Ticked(x, q, R, S, D)
<1>1. PICK d, pri : d = CountDown(q) /\ pri = Priority
  OBVIOUS
<1>2. Counted(d, q, S, S, pri)
  <2>1. SleepHolds(q, S, pri)
    BY <1>1
  <2> QED BY <1>1, <2>1, CountsAll
<1>3. /\ d \in State
      /\ d.ready = q.ready /\ d.rbm = q.rbm /\ d.defunct = q.defunct /\ d.prio = q.prio
      /\ d.slice = q.slice /\ d.current = q.current /\ d.fault = q.fault
      /\ \A t \in Thread : d.ticks[t] = IF t \in S /\ q.ticks[t] > 0 THEN q.ticks[t] - 1 ELSE q.ticks[t]
      /\ \A t \in Thread : d.status[t] = IF t \in D THEN "ready" ELSE q.status[t]
      /\ SleepHolds(d, S \ D, pri)
      /\ IsOnce(d.timeout) /\ Elems(d.timeout) = D
  BY <1>2 DEF Counted
<1>4. Lead(d, 1)
  BY <1>3 DEF Lead
<1>5. /\ a \in State /\ Lead(a, 0)
      /\ a.ready = d.ready /\ a.rbm = d.rbm /\ a.sleep = d.sleep /\ a.sbm = d.sbm
      /\ a.timeout = d.timeout /\ a.defunct = d.defunct
      /\ a.prio = d.prio /\ a.ticks = d.ticks /\ a.status = d.status /\ a.fault = d.fault
      /\ a.current = d.current
  <2>1. a = CountSlice(d) /\ d.current \in Thread
    BY <1>1, <1>3
  <2> QED BY <1>3, <1>4, <2>1, CountsSlice
<1>6. ReadyHolds(a, R, a.prio) /\ SleepHolds(a, S \ D, pri)
  BY <1>3, <1>5 DEF ReadyHolds, SleepHolds
<1>7. /\ b \in State /\ b.prio = [a.prio EXCEPT ![a.current] = Priority[a.current]]
      /\ b.sleep = a.sleep /\ b.sbm = a.sbm /\ b.timeout = a.timeout /\ b.defunct = a.defunct
      /\ b.ticks = a.ticks /\ b.slice = a.slice /\ b.status = a.status
      /\ b.current = a.current /\ b.fault = a.fault
      /\ ReadyHolds(b, R, b.prio) /\ Fresh(b)
  <2>1. a.current \in Thread /\ (a.current \in R => Priority[a.current] \in Prio)
    BY <1>3, <1>5
  <2> QED BY <1>5, <1>6, <2>1, Restores
<1>8. a.prio \in [Thread -> Nat] /\ a.prio = q.prio /\ a.current = q.current
  BY <1>3, <1>5 DEF State
<1>9. \A t \in Thread : b.prio[t] = IF t = q.current THEN Priority[t] ELSE q.prio[t]
  BY <1>7, <1>8
<1>10. D \subseteq S /\ S \subseteq Thread
  BY DEF DueOf, SleepHolds
<1>11. \A t \in D : MayWake(b, t)
  BY <1>9, <1>10 DEF MayWake
<1>12. PICK y : y = [b EXCEPT !.timeout = <<>>]
  OBVIOUS
<1>13. Woken(x, y, R, D)
  <2>1. IsOnce(b.timeout) /\ Elems(b.timeout) = D /\ D \cap R = {}
    BY <1>3, <1>5, <1>7, <1>10
  <2>2. b.current \in Thread /\ b.prio[b.current] = Priority[b.current]
    BY <1>7, <1>8, <1>9
  <2>3. \A t \in D : MayWake(b, t)
    BY <1>11
  <2> QED BY <1>7, <1>12, <2>1, <2>2, <2>3, WakesAll
<1>14. /\ y.sleep = b.sleep /\ y.sbm = b.sbm /\ y.timeout = <<>> /\ y.defunct = b.defunct
       /\ y.ticks = b.ticks /\ y.status = b.status /\ y.current = b.current /\ y.fault = b.fault
       /\ y.prio = b.prio
  BY <1>7, <1>12 DEF State
<1>15. /\ x \in State
       /\ x.sleep = y.sleep /\ x.sbm = y.sbm /\ x.timeout = y.timeout /\ x.defunct = y.defunct
       /\ x.ticks = y.ticks /\ x.status = y.status /\ x.current = y.current /\ x.fault = y.fault
       /\ \A t \in Thread : x.prio[t] = IF t \in D THEN Boosted(t) ELSE y.prio[t]
       /\ ReadyHolds(x, R \cup D, x.prio) /\ Fresh(x)
  BY <1>13 DEF Woken
<1>16. SleepHolds(x, S \ D, Priority)
  <2>1. SleepHolds(x, S \ D, pri)
    BY <1>6, <1>7, <1>14, <1>15 DEF SleepHolds
  <2> QED BY <2>1, <1>1
<1>17. /\ \A t \in Thread : x.ticks[t] = IF t \in S /\ q.ticks[t] > 0 THEN q.ticks[t] - 1 ELSE q.ticks[t]
       /\ \A t \in Thread : x.status[t] = IF t \in D THEN "ready" ELSE q.status[t]
       /\ \A t \in Thread : x.prio[t] = IF t \in D THEN Boosted(t)
                                        ELSE IF t = q.current THEN Priority[t] ELSE q.prio[t]
  <2>1. x.ticks = d.ticks /\ x.status = d.status /\ \A t \in Thread : y.prio[t] = b.prio[t]
    BY <1>5, <1>7, <1>14, <1>15
  <2>2. \A t \in Thread : x.prio[t] = IF t \in D THEN Boosted(t)
                                        ELSE IF t = q.current THEN Priority[t] ELSE q.prio[t]
    BY <2>1, <1>9, <1>15
  <2> QED BY <2>1, <2>2, <1>3
<1> QED BY <1>3, <1>5, <1>7, <1>14, <1>15, <1>16, <1>17 DEF Ticked

-----------------------------------------------------------------------------
(* The invariant.                                                            *)
Pcs == {"body", "sleep_mark", "sleep_unlink", "sleep_link",
        "exit_mark", "exit_unlink", "exit_link", "func"}
FrameT == [owner : Thread, pc : Pcs, arg : Nat, old : Nat, calls : Nat, root : BOOLEAN]

(* Where in the kernel the interrupt is; only there threads call it. *)
Pc == IF isr THEN Top.pc ELSE "body"
Mid == {"sleep_unlink", "sleep_link", "exit_unlink", "exit_link"}

(* In thread_sleep and thread_exit the lists follow the status of the        *)
(* current thread one operation at a time: these are the threads each kind   *)
(* of list holds, and the ready list each is in.                             *)
At(pcs) == {t \in Thread : t = s.current /\ Pc \in pcs}
Rdy == {t \in Thread : s.status[t] = "ready"} \cup At({"sleep_unlink", "exit_unlink"})
Slp == {t \in Thread : s.status[t] = "sleep"} \ At({"sleep_unlink", "sleep_link"})
Ext == {t \in Thread : s.status[t] = "exit"} \ At({"exit_unlink", "exit_link"})
Lvl == [t \in Thread |-> IF t \in At({"sleep_unlink"}) THEN Top.old ELSE s.prio[t]]

Types == /\ s \in State /\ stack \in Seq(FrameT) /\ isr \in BOOLEAN
         /\ phase \in {"boot", "on", "halted"} /\ prog \in Programs

Held(q, R, S, E, at, pri) ==
    /\ q.fault = "none" /\ q.timeout = <<>>
    /\ ReadyHolds(q, R, at) /\ SleepHolds(q, S, pri) /\ DefunctHolds(q, E)

(* The frames of the interrupt are above that of the first thread. *)
Rooted(k) == /\ k \in 1..Len(stack) /\ k <= 2
             /\ \A i \in 1..Len(stack) : /\ stack[i].root <=> i = k
                                         /\ i >= k => stack[i].owner = s.current
                                         /\ i # Len(stack) => stack[i].pc = "body"

Frames ==
    /\ ~isr => /\ Len(stack) <= 1
               /\ \A i \in 1..Len(stack) : stack[i].pc = "body" /\ ~stack[i].root
    /\ isr => \E k \in 1..2 : Rooted(k)
    /\ phase # "on" => stack = <<>> /\ ~isr /\ s.current = NoThread
    /\ phase = "on" => s.current \in Thread /\ s.status[s.current] # "none"

StatusOk(t) ==
    /\ s.status[t] = "sleep" => t \in prog.MaySleep
    /\ s.status[t] = "exit" => t \in prog.MayExit
    /\ s.status[t] # "none" => Priority[t] < MaxPriority /\ prog.Boost[t] <= Priority[t]
    /\ s.prio[t] # Priority[t] => s.status[t] = "ready" /\ t \in prog.MaySleep
    /\ phase = "boot" => \/ s.status[t] = "none"
                         \/ /\ s.status[t] = "ready" /\ s.slice[t] = SliceMax(t)
                            /\ s.prio[t] = Priority[t]

PcOk ==
    /\ Pc \in {"sleep_mark", "sleep_unlink", "sleep_link"} => s.current \in prog.MaySleep
    /\ Pc \in {"sleep_unlink", "sleep_link"} => s.status[s.current] = "sleep"
    /\ Pc \in {"exit_mark", "exit_unlink", "exit_link"} => s.current \in prog.MayExit
    /\ Pc \in {"exit_unlink", "exit_link"} => s.status[s.current] = "exit"

IInv == /\ Types /\ Held(s, Rdy, Slp, Ext, Lvl, Priority) /\ Lead(s, 1)
        /\ Frames /\ (\A t \in Thread : StatusOk(t)) /\ PcOk

(* What the programs are assumed to keep to. *)
Sound == \A p \in Programs : OwnPlaces(p)

LEMMA FrameFacts ==
    ASSUME NEW t \in Thread
    PROVE  /\ Frame(t) \in FrameT /\ Frame(t).owner = t /\ Frame(t).pc = "body" /\ ~Frame(t).root
           /\ [Frame(t) EXCEPT !.root = TRUE] \in FrameT
           /\ [Frame(t) EXCEPT !.root = TRUE].owner = t
           /\ [Frame(t) EXCEPT !.root = TRUE].pc = "body"
           /\ [Frame(t) EXCEPT !.root = TRUE].root
  BY DEF Frame, FrameT, Pcs

LEMMA SetTopFacts ==
    ASSUME stack \in Seq(FrameT), stack # <<>>, NEW f \in FrameT, NEW x, x = SetTop(f)
    PROVE  /\ x \in Seq(FrameT) /\ Len(x) = Len(stack) /\ Len(stack) \in Nat \ {0}
           /\ x[Len(x)] = f /\ \A i \in 1..Len(stack) : i # Len(stack) => x[i] = stack[i]
  BY DEF SetTop

LEMMA PushFrameFacts ==
    ASSUME NEW w \in Seq(FrameT), NEW f \in FrameT, NEW x, x = Append(w, f)
    PROVE  /\ x \in Seq(FrameT) /\ Len(x) = Len(w) + 1 /\ Len(w) \in Nat
           /\ x[Len(x)] = f /\ \A i \in 1..Len(w) : x[i] = w[i]
  OBVIOUS

LEMMA PopFrameFacts ==
    ASSUME stack \in Seq(FrameT), stack # <<>>, NEW x, x = Front(stack)
    PROVE  /\ x \in Seq(FrameT) /\ Len(x) = Len(stack) - 1 /\ Len(x) \in Nat
           /\ \A i \in 1..Len(x) : x[i] = stack[i]
<1>1. PICK n : n = Len(stack)
  OBVIOUS
<1>2. n \in Nat \ {0} /\ x = SubSeq(stack, 1, n - 1)
  BY <1>1 DEF Front
<1> QED BY <1>1, <1>2

LEMMA TopFacts ==
    ASSUME stack \in Seq(FrameT), stack # <<>>
    PROVE  /\ Top \in FrameT /\ Len(stack) \in Nat \ {0} /\ Len(stack) \in 1..Len(stack)
           /\ Top = stack[Len(stack)]
  BY DEF Top

(* Outside of the list operations status alone says it all. *)
LEMMA QuietSets ==
    ASSUME Pc \notin Mid
    PROVE  /\ Rdy = {t \in Thread : s.status[t] = "ready"}
           /\ Slp = {t \in Thread : s.status[t] = "sleep"}
           /\ Ext = {t \in Thread : s.status[t] = "exit"}
           /\ Lvl = [t \in Thread |-> s.prio[t]]
  BY DEF Rdy, Slp, Ext, Lvl, At, Mid

LEMMA QuietSetsNext ==
    ASSUME Pc' \notin Mid
    PROVE  /\ Rdy' = {t \in Thread : s'.status[t] = "ready"}
           /\ Slp' = {t \in Thread : s'.status[t] = "sleep"}
           /\ Ext' = {t \in Thread : s'.status[t] = "exit"}
           /\ Lvl' = [t \in Thread |-> s'.prio[t]]
  BY DEF Rdy, Slp, Ext, Lvl, At, Mid

(* Only the levels of the threads in R count. *)
LEMMA ReadySame ==
    ASSUME NEW q, NEW r, NEW R, NEW at, NEW at2, ReadyHolds(q, R, at),
           r.ready = q.ready, r.rbm = q.rbm, \A t \in R : at2[t] = at[t]
    PROVE  ReadyHolds(r, R, at2)
  BY DEF ReadyHolds

LEMMA SleepSame ==
    ASSUME NEW q, NEW r, NEW S, NEW pri, SleepHolds(q, S, pri), r.sleep = q.sleep, r.sbm = q.sbm
    PROVE  SleepHolds(r, S, pri)
  BY DEF SleepHolds

LEMMA InvFacts ==
    ASSUME IInv, Sound
    PROVE  /\ prog \in Program /\ OwnPlaces(prog) /\ s \in State
           /\ Priority \in [Thread -> Nat] /\ prog.Boost \in [Thread -> Nat]
           /\ s.prio \in [Thread -> Nat] /\ s.status \in [Thread -> Status]
           /\ s.ticks \in [Thread -> Nat] /\ s.slice \in [Thread -> Nat]
           /\ s.ready \in [Prio -> Seq(Thread)] /\ s.sleep \in [Prio -> Seq(Thread)]
<1>1. prog \in Programs /\ s \in State
  BY DEF IInv, Types
<1>2. prog \in Program /\ OwnPlaces(prog)
  BY <1>1, SchedulerListAssumption DEF Sound
<1>3. Priority \in [Thread -> Nat] /\ prog.Boost \in [Thread -> Nat]
  BY <1>2 DEF Program, Priority
<1> QED BY <1>1, <1>2, <1>3 DEF State

(* A frame in the kernel is on top of the interrupt's, and the thread it      *)
(* belongs to is the current one.                                            *)
LEMMA InKernel ==
    ASSUME IInv, NEW c, Running(c), c # "body" \/ isr
    PROVE  /\ isr /\ Pc = c /\ phase = "on" /\ stack # <<>> /\ stack \in Seq(FrameT)
           /\ Top \in FrameT /\ Top.owner = s.current /\ Top.pc = c
           /\ s.current \in Thread /\ s.current # NoThread /\ s.status[s.current] # "none"
<1>1. stack # <<>> /\ Top.pc = c /\ stack \in Seq(FrameT) /\ Frames
  BY DEF Running, IInv, Types
<1>2. Top \in FrameT /\ Len(stack) \in 1..Len(stack) /\ Top = stack[Len(stack)]
  BY <1>1, TopFacts
<1>3. isr
  BY <1>1, <1>2 DEF Frames
<1>4. phase = "on" /\ s.current \in Thread /\ s.status[s.current] # "none"
  BY <1>1, <1>3 DEF Frames
<1>5. PICK k \in 1..2 : Rooted(k)
  BY <1>1, <1>3 DEF Frames
<1>6. k \in 1..Len(stack) /\ Len(stack) >= k
  BY <1>5 DEF Rooted
<1>7. Top.owner = s.current
  BY <1>2, <1>5, <1>6 DEF Rooted
<1> QED BY <1>1, <1>2, <1>3, <1>4, <1>7, SchedulerListAssumption DEF Pc

LEMMA TopMoves ==
    ASSUME IInv, isr, stack # <<>>, NEW f \in FrameT, f.owner = Top.owner, f.root <=> Top.root,
           stack' = SetTop(f), s'.current = s.current, isr' = isr, phase' = phase,
           s'.status[s.current] # "none"
    PROVE  Frames' /\ stack' \in Seq(FrameT) /\ Pc' = f.pc /\ Top' = f /\ Pc = Top.pc
<1>1. stack \in Seq(FrameT) /\ Frames
  BY DEF IInv, Types
<1>2. Top \in FrameT /\ Len(stack) \in 1..Len(stack) /\ Top = stack[Len(stack)]
  BY <1>1, TopFacts
<1>3. /\ stack' \in Seq(FrameT) /\ Len(stack') = Len(stack) /\ Len(stack) \in Nat \ {0}
      /\ stack'[Len(stack')] = f /\ \A i \in 1..Len(stack) : i # Len(stack) => stack'[i] = stack[i]
  BY <1>1, SetTopFacts
<1>4. PICK k \in 1..2 : Rooted(k)
  BY <1>1 DEF Frames
<1>5. Rooted(k)'
  BY <1>2, <1>3, <1>4 DEF Rooted
<1>6. phase = "on" /\ s.current \in Thread
  BY <1>1 DEF Frames
<1>7. Frames'
  BY <1>5, <1>6 DEF Frames
<1>8. Top' = f
  BY <1>3 DEF Top
<1> QED BY <1>3, <1>7, <1>8 DEF Pc

(* Steps of the bodies, which leave the lists alone. *)
LEMMA QuietSteps ==
    ASSUME IInv, s' = s, prog' = prog, phase' = phase, Pc \notin Mid, Pc' \notin Mid,
           stack' \in Seq(FrameT), isr' \in BOOLEAN, Frames',
           Pc' = "sleep_mark" => s.current \in prog.MaySleep,
           Pc' = "exit_mark" => s.current \in prog.MayExit
    PROVE  IInv'
<1>1. Types'
  BY DEF IInv, Types
<1>2. Rdy' = Rdy /\ Slp' = Slp /\ Ext' = Ext /\ Lvl' = Lvl
  BY QuietSets, QuietSetsNext
<1>3. Held(s, Rdy, Slp, Ext, Lvl, Priority)'
  <2>1. Priority' = Priority
    BY DEF Priority
  <2>2. PICK R, S, E, at, pri : R = Rdy /\ S = Slp /\ E = Ext /\ at = Lvl /\ pri = Priority
    OBVIOUS
  <2>3. Held(s, R, S, E, at, pri)
    BY <2>2 DEF IInv
  <2>4. Held(s', R, S, E, at, pri)
    BY <2>3
  <2>5. Rdy' = R /\ Slp' = S /\ Ext' = E /\ Lvl' = at /\ Priority' = pri
    BY <1>2, <2>1, <2>2
  <2>6. Held(s', Rdy', Slp', Ext', Lvl', Priority')
    BY <2>4, <2>5
  <2> QED BY <2>6 DEF Held, ReadyHolds, SleepHolds, DefunctHolds
<1>4. Lead(s, 1)'
  BY DEF IInv, Lead, Priority
<1>5. \A t \in Thread : StatusOk(t)'
  BY DEF IInv, StatusOk, Priority, SliceMax
<1>6. PcOk'
  BY DEF PcOk, Mid
<1> QED BY <1>1, <1>3, <1>4, <1>5, <1>6 DEF IInv

LEMMA CallSleepKeeps ==
    ASSUME IInv, Sound, NEW n \in SleepArg, CallSleep(n)
    PROVE  IInv'
<1>1. OwnPlaces(prog)
  BY InvFacts
<1>2. isr /\ Running("body") /\ Top.owner \in prog.MaySleep
  BY <1>1 DEF CallSleep, MayCall, OwnPlaces
<1>3. /\ Pc = "body" /\ phase = "on" /\ stack # <<>> /\ Top \in FrameT
      /\ Top.owner = s.current /\ s.status[s.current] # "none"
  BY <1>2, InKernel
<1> DEFINE f == [Top EXCEPT !.pc = "sleep_mark", !.arg = n, !.calls = @ + 1]
<1>4. n \in Nat
  BY SchedulerListAssumption
<1>5. f \in FrameT /\ f.owner = Top.owner /\ f.root = Top.root /\ f.pc = "sleep_mark"
  <2>1. Top.calls + 1 \in Nat /\ "sleep_mark" \in Pcs
    BY <1>3 DEF FrameT, Pcs
  <2>2. PICK m : m = Top.calls + 1
    OBVIOUS
  <2>3. f = [Top EXCEPT !.pc = "sleep_mark", !.arg = n, !.calls = m]
    BY <2>2
  <2> QED BY <1>3, <1>4, <2>1, <2>2, <2>3 DEF FrameT
<1>6. stack' = SetTop(f) /\ s' = s /\ isr' = isr /\ phase' = phase /\ prog' = prog
  BY DEF CallSleep
<1> HIDE DEF f
<1>7. Frames' /\ stack' \in Seq(FrameT) /\ Pc' = f.pc
  BY <1>2, <1>3, <1>5, <1>6, TopMoves
<1>8. isr' \in BOOLEAN /\ Pc \notin Mid /\ Pc' \notin Mid
  BY <1>2, <1>3, <1>5, <1>6, <1>7 DEF Mid
<1>9. s.current \in prog.MaySleep /\ Pc' # "exit_mark"
  BY <1>2, <1>3, <1>5, <1>7
<1> QED BY <1>6, <1>7, <1>8, <1>9, QuietSteps

LEMMA CallExitKeeps ==
    ASSUME IInv, Sound, CallExit
    PROVE  IInv'
<1>1. OwnPlaces(prog)
  BY InvFacts
<1>2. isr /\ Running("body") /\ Top.owner \in prog.MayExit
  BY <1>1 DEF CallExit, MayCall, OwnPlaces
<1>3. /\ Pc = "body" /\ phase = "on" /\ stack # <<>> /\ Top \in FrameT
      /\ Top.owner = s.current /\ s.status[s.current] # "none"
  BY <1>2, InKernel
<1> DEFINE f == [Top EXCEPT !.pc = "exit_mark", !.calls = @ + 1]
<1>5. f \in FrameT /\ f.owner = Top.owner /\ f.root = Top.root /\ f.pc = "exit_mark"
  <2>1. Top.calls + 1 \in Nat /\ "exit_mark" \in Pcs
    BY <1>3 DEF FrameT, Pcs
  <2>2. PICK m : m = Top.calls + 1
    OBVIOUS
  <2>3. f = [Top EXCEPT !.pc = "exit_mark", !.calls = m]
    BY <2>2
  <2> QED BY <1>3, <2>1, <2>2, <2>3 DEF FrameT
<1>6. stack' = SetTop(f) /\ s' = s /\ isr' = isr /\ phase' = phase /\ prog' = prog
  BY DEF CallExit
<1> HIDE DEF f
<1>7. Frames' /\ stack' \in Seq(FrameT) /\ Pc' = f.pc
  BY <1>2, <1>3, <1>5, <1>6, TopMoves
<1>8. isr' \in BOOLEAN /\ Pc \notin Mid /\ Pc' \notin Mid
  BY <1>2, <1>3, <1>5, <1>6, <1>7 DEF Mid
<1>9. s.current \in prog.MayExit /\ Pc' # "sleep_mark"
  BY <1>2, <1>3, <1>5, <1>7
<1> QED BY <1>6, <1>7, <1>8, <1>9, QuietSteps

LEMMA ReturnKeeps ==
    ASSUME IInv, Sound, Return
    PROVE  IInv'
<1>1. /\ stack # <<>> /\ Top.pc = "body" /\ stack' = Front(stack) /\ isr' = (isr /\ ~Top.root)
      /\ s' = s /\ phase' = phase /\ prog' = prog
  BY DEF Return, Running
<1>2. stack \in Seq(FrameT) /\ isr \in BOOLEAN /\ Frames
  BY DEF IInv, Types
<1>3. Top \in FrameT /\ Len(stack) \in 1..Len(stack) /\ Top = stack[Len(stack)] /\ Len(stack) \in Nat \ {0}
  BY <1>1, <1>2, TopFacts
<1>4. /\ stack' \in Seq(FrameT) /\ Len(stack') = Len(stack) - 1 /\ Len(stack') \in Nat
      /\ \A i \in 1..Len(stack') : stack'[i] = stack[i]
  BY <1>1, <1>2, PopFrameFacts
<1>5. isr' \in BOOLEAN
  BY <1>1, <1>2, <1>3 DEF FrameT
<1>6. phase = "on" /\ s.current \in Thread /\ s.status[s.current] # "none"
  BY <1>1, <1>2 DEF Frames
<1>7. CASE ~isr
  <2>1. ~isr'
    BY <1>1, <1>7
  <2>2. /\ Len(stack) <= 1
        /\ \A i \in 1..Len(stack) : stack[i].pc = "body" /\ ~stack[i].root
    BY <1>2, <1>7 DEF Frames
  <2>3. Len(stack') <= 1 /\ \A i \in 1..Len(stack') : stack'[i].pc = "body" /\ ~stack'[i].root
    BY <2>2, <1>3, <1>4
  <2>4. Frames'
    BY <2>1, <2>3, <1>1, <1>6 DEF Frames
  <2>5. Pc = "body" /\ Pc' = "body"
    BY <2>1, <1>7 DEF Pc
  <2> QED BY <2>4, <2>5, <1>1, <1>4, <1>5, QuietSteps DEF Mid
<1>8. CASE isr
  <2>1. PICK k \in 1..2 : Rooted(k)
    BY <1>2, <1>8 DEF Frames
  <2>2. /\ k \in 1..Len(stack)
        /\ \A i \in 1..Len(stack) : /\ stack[i].root <=> i = k
                                    /\ i >= k => stack[i].owner = s.current
                                    /\ i # Len(stack) => stack[i].pc = "body"
    BY <2>1 DEF Rooted
  <2>3. CASE Top.root
    <3>1. k = Len(stack) /\ ~isr'
      BY <2>2, <2>3, <1>1, <1>3
    <3>2. Len(stack') <= 1
      BY <2>1, <3>1, <1>3, <1>4
    <3>3. \A i \in 1..Len(stack') : stack'[i].pc = "body" /\ ~stack'[i].root
      BY <2>2, <3>1, <1>3, <1>4
    <3>4. Frames'
      BY <3>1, <3>2, <3>3, <1>1, <1>6 DEF Frames
    <3>5. Pc = "body" /\ Pc' = "body"
      BY <3>1, <1>1, <1>8 DEF Pc
    <3> QED BY <3>4, <3>5, <1>1, <1>4, <1>5, QuietSteps DEF Mid
  <2>4. CASE ~Top.root
    <3>1. k # Len(stack) /\ isr'
      BY <2>2, <2>4, <1>1, <1>3, <1>8
    <3>2. k \in 1..Len(stack') /\ Len(stack') \in 1..Len(stack) /\ Len(stack') # Len(stack)
      BY <2>2, <3>1, <1>3, <1>4
    <3>3. Rooted(k)'
      <4>1. \A i \in 1..Len(stack') : i \in 1..Len(stack) /\ i # Len(stack)
        BY <1>3, <1>4
      <4>2. s'.current = s.current /\ k <= 2
        BY <1>1, <2>1
      <4>3. \A i \in 1..Len(stack') : /\ stack'[i].root <=> i = k
                                      /\ i >= k => stack'[i].owner = s'.current
                                      /\ stack'[i].pc = "body"
        BY <4>1, <4>2, <2>2, <1>4
      <4> QED BY <4>2, <4>3, <3>2 DEF Rooted
    <3>4. Frames'
      BY <3>1, <3>3, <1>1, <1>6 DEF Frames
    <3>5. Pc = "body" /\ Pc' = "body"
      <4>1. stack[Len(stack')].pc = "body"
        BY <2>2, <3>2
      <4>2. stack'[Len(stack')] = stack[Len(stack')]
        BY <3>2, <1>4
      <4> QED BY <4>1, <4>2, <3>1, <1>1, <1>8 DEF Pc, Top
    <3> QED BY <3>4, <3>5, <1>1, <1>4, <1>5, QuietSteps DEF Mid
  <2> QED BY <2>3, <2>4
<1> QED BY <1>7, <1>8

LEMMA CallFuncKeeps ==
    ASSUME IInv, Sound, CallFunc
    PROVE  IInv'
<1>1. /\ Running("func") /\ s' = s /\ isr' = isr /\ phase' = phase /\ prog' = prog
      /\ stack' = Append(SetTop([Top EXCEPT !.pc = "body"]), Frame(s.current))
  BY DEF CallFunc
<1>2. /\ isr /\ Pc = "func" /\ phase = "on" /\ stack # <<>> /\ stack \in Seq(FrameT)
      /\ Top \in FrameT /\ Top.owner = s.current
      /\ s.current \in Thread /\ s.status[s.current] # "none"
  BY <1>1, InKernel
<1> DEFINE f == [Top EXCEPT !.pc = "body"]
<1>3. f \in FrameT /\ f.owner = Top.owner /\ f.root = Top.root /\ f.pc = "body"
  BY <1>2 DEF FrameT, Pcs
<1>4. PICK x : x = SetTop(f)
  OBVIOUS
<1>5. stack' = Append(x, Frame(s.current))
  BY <1>1, <1>4
<1> HIDE DEF f
<1>6. /\ x \in Seq(FrameT) /\ Len(x) = Len(stack) /\ Len(stack) \in Nat \ {0}
      /\ x[Len(x)] = f /\ \A i \in 1..Len(stack) : i # Len(stack) => x[i] = stack[i]
  BY <1>2, <1>3, <1>4, SetTopFacts
<1>7. PICK g : g = Frame(s.current)
  OBVIOUS
<1>8. g \in FrameT /\ g.owner = s.current /\ g.pc = "body" /\ ~g.root
  BY <1>2, <1>7, FrameFacts
<1>9. /\ stack' \in Seq(FrameT) /\ Len(stack') = Len(x) + 1
      /\ stack'[Len(stack')] = g /\ \A i \in 1..Len(x) : stack'[i] = x[i]
  BY <1>5, <1>6, <1>7, <1>8, PushFrameFacts
<1>10. PICK k \in 1..2 : Rooted(k)
  BY <1>2 DEF IInv, Frames
<1>11. Top = stack[Len(stack)] /\ Len(stack) \in 1..Len(stack)
  BY <1>2, TopFacts
<1>12. Rooted(k)'
  <2>1. /\ k \in 1..Len(stack)
        /\ \A i \in 1..Len(stack) : /\ stack[i].root <=> i = k
                                    /\ i >= k => stack[i].owner = s.current
                                    /\ i # Len(stack) => stack[i].pc = "body"
    BY <1>10 DEF Rooted
  <2>2. \A i \in 1..Len(stack) : /\ stack'[i].root <=> i = k
                                 /\ i >= k => stack'[i].owner = s.current
                                 /\ stack'[i].pc = "body"
    <3> TAKE i \in 1..Len(stack)
    <3>1. CASE i = Len(stack)
      <4>1. stack'[i] = f /\ stack[i] = Top
        BY <3>1, <1>6, <1>9, <1>11
      <4> QED BY <4>1, <2>1, <1>2, <1>3
    <3>2. CASE i # Len(stack)
      BY <3>2, <2>1, <1>6, <1>9
    <3> QED BY <3>1, <3>2
  <2>3. /\ \A i \in 1..Len(stack') : i \in 1..Len(stack) \/ i = Len(stack')
        /\ Len(stack') # k /\ k \in 1..Len(stack') /\ k <= 2
    BY <2>1, <1>6, <1>9
  <2>4. s'.current = s.current
    BY <1>1
  <2>5. \A i \in 1..Len(stack') : /\ stack'[i].root <=> i = k
                                  /\ i >= k => stack'[i].owner = s'.current
                                  /\ stack'[i].pc = "body"
    BY <2>2, <2>3, <2>4, <1>8, <1>9
  <2> QED BY <2>3, <2>5 DEF Rooted
<1>13. Frames'
  BY <1>1, <1>2, <1>12 DEF Frames
<1>14. Pc' = "body" /\ isr' \in BOOLEAN
  BY <1>1, <1>2, <1>8, <1>9 DEF Pc, Top
<1> QED BY <1>1, <1>2, <1>9, <1>13, <1>14, QuietSteps DEF Mid

(* What the lists hold after a step. *)
LEMMA HeldNext ==
    ASSUME NEW R, NEW S, NEW E, NEW at, Held(s', R, S, E, at, Priority), prog' = prog,
           Rdy' = R, Slp' = S, Ext' = E, \A t \in R : Lvl'[t] = at[t]
    PROVE  Held(s, Rdy, Slp, Ext, Lvl, Priority)'
<1>1. Priority' = Priority
  BY DEF Priority
<1>2. PICK pri, at2, q : pri = Priority /\ at2 = Lvl' /\ q = s'
  OBVIOUS
<1>3. /\ q.fault = "none" /\ q.timeout = <<>>
      /\ ReadyHolds(q, R, at) /\ SleepHolds(q, S, pri) /\ DefunctHolds(q, E)
  BY <1>2 DEF Held
<1>4. ReadyHolds(q, R, at2)
  <2>1. \A t \in R : at2[t] = at[t]
    BY <1>2
  <2> QED BY <1>3, <2>1, ReadySame
<1>5. Held(q, R, S, E, at2, pri)
  BY <1>3, <1>4 DEF Held
<1>6. Held(s', Rdy', Slp', Ext', Lvl', Priority')
  BY <1>1, <1>2, <1>5
<1> QED BY <1>6 DEF Held, ReadyHolds, SleepHolds, DefunctHolds

LEMMA GotoMoves ==
    ASSUME IInv, isr, stack # <<>>, NEW c \in Pcs, Goto(c), s'.current = s.current,
           isr' = isr, phase' = phase, s'.status[s.current] # "none"
    PROVE  Frames' /\ stack' \in Seq(FrameT) /\ Pc' = c /\ Pc = Top.pc /\ Top'.old = Top.old
<1>1. stack \in Seq(FrameT)
  BY DEF IInv, Types
<1>2. Top \in FrameT
  BY <1>1, TopFacts
<1>3. PICK f : f = [Top EXCEPT !.pc = c]
  OBVIOUS
<1>4. f \in FrameT /\ f.owner = Top.owner /\ f.root = Top.root /\ f.pc = c /\ f.old = Top.old
  BY <1>2, <1>3 DEF FrameT
<1>5. stack' = SetTop(f)
  BY <1>3 DEF Goto
<1> QED BY <1>4, <1>5, TopMoves

(* A sleep_node is linked exactly when its thread sleeps or has exited. *)
LEMMA SleepLinkedIs ==
    ASSUME NEW q \in State, NEW S, NEW E, NEW pri, SleepHolds(q, S, pri), DefunctHolds(q, E),
           q.timeout = <<>>, NEW t \in Thread
    PROVE  SleepLinked(q, t) <=> t \in S \/ t \in E
<1>1. Elems(q.timeout) = {}
  BY DEF Elems
<1>2. (\E p \in Prio : t \in Elems(q.sleep[p])) <=> t \in S
  BY DEF SleepHolds
<1> QED BY <1>1, <1>2 DEF SleepLinked, DefunctHolds

(* list_insert_tail of a sleep_node that is not linked, and the bitmap. *)
LinkSleep(q, t, p) == [q EXCEPT !.sleep[p] = PushBack(@, t), !.sbm = @ \cup {p}]

LEMMA LinkSleepLinks ==
    ASSUME NEW q \in State, NEW S, NEW pri, SleepHolds(q, S, pri), NEW t \in Thread, t \notin S,
           NEW p \in Prio, pri[t] = p,
           NEW r, r = LinkSleep(q, t, p)
    PROVE  /\ r \in State /\ SleepHolds(r, S \cup {t}, pri)
           /\ r.ready = q.ready /\ r.rbm = q.rbm /\ r.timeout = q.timeout /\ r.defunct = q.defunct
           /\ r.prio = q.prio /\ r.ticks = q.ticks /\ r.slice = q.slice /\ r.status = q.status
           /\ r.current = q.current /\ r.fault = q.fault
<1>1. /\ q.sleep \in [Prio -> Seq(Thread)] /\ q.sbm \in SUBSET Prio /\ q.sleep[p] \in Seq(Thread)
      /\ S \subseteq Thread /\ (\A u \in S : pri[u] \in Prio) /\ q.sbm = {o \in Prio : q.sleep[o] # <<>>}
  BY DEF State, SleepHolds
<1>2. PICK l, b : l = q.sleep[p] /\ b = PushBack(l, t)
  OBVIOUS
<1>3. l \in Seq(Thread)
  BY <1>1, <1>2
<1>4. /\ b \in Seq(Thread) /\ b # <<>> /\ Elems(b) = Elems(l) \cup {t}
      /\ IsOnce(l) /\ t \notin Elems(l) => IsOnce(b)
  <2>1. /\ PushBack(l, t) \in Seq(Thread) /\ PushBack(l, t) # <<>>
        /\ Elems(PushBack(l, t)) = Elems(l) \cup {t}
        /\ IsOnce(l) /\ t \notin Elems(l) => IsOnce(PushBack(l, t))
    BY <1>3, PushBackFacts
  <2> QED BY <2>1, <1>2
<1>5. [q.sleep EXCEPT ![p] = b] \in [Prio -> Seq(Thread)] /\ q.sbm \cup {p} \in SUBSET Prio
  BY <1>1, <1>4
<1>6. r = [q EXCEPT !.sleep = [q.sleep EXCEPT ![p] = b], !.sbm = q.sbm \cup {p}]
  BY <1>2 DEF State, LinkSleep
<1>7. /\ r \in State /\ r.sleep = [q.sleep EXCEPT ![p] = b] /\ r.sbm = q.sbm \cup {p}
      /\ r.ready = q.ready /\ r.rbm = q.rbm /\ r.timeout = q.timeout /\ r.defunct = q.defunct
      /\ r.prio = q.prio /\ r.ticks = q.ticks /\ r.slice = q.slice /\ r.status = q.status
      /\ r.current = q.current /\ r.fault = q.fault
  BY <1>5, <1>6 DEF State
<1>8. r.sleep[p] = b /\ \A o \in Prio : o # p => r.sleep[o] = q.sleep[o]
  BY <1>1, <1>7
<1>9. PICK S2 : S2 = S \cup {t}
  OBVIOUS
<1>10. \A o \in Prio : /\ IsOnce(r.sleep[o])
                       /\ \A u \in Thread : u \in Elems(r.sleep[o]) <=> u \in S2 /\ pri[u] = o
  <2> TAKE o \in Prio
  <2>1. IsOnce(q.sleep[o]) /\ \A u \in Thread : u \in Elems(q.sleep[o]) <=> u \in S /\ pri[u] = o
    BY DEF SleepHolds
  <2>2. CASE o = p
    <3>1. t \notin Elems(l) /\ IsOnce(l)
      BY <2>1, <2>2, <1>2
    <3> QED BY <3>1, <2>1, <2>2, <1>2, <1>4, <1>8, <1>9
  <2>3. CASE o # p
    BY <2>1, <2>3, <1>8, <1>9
  <2> QED BY <2>2, <2>3
<1>11. r.sbm = {o \in Prio : r.sleep[o] # <<>>}
  BY <1>1, <1>4, <1>7, <1>8
<1>12. SleepHolds(r, S2, pri)
  BY <1>1, <1>9, <1>10, <1>11 DEF SleepHolds
<1> QED BY <1>7, <1>9, <1>12

(* The current thread leads no list it is not in. *)
LEMMA NoLead ==
    ASSUME NEW q \in State, NEW R, NEW at, ReadyHolds(q, R, at), q.current \notin R, NEW n
    PROVE  Lead(q, n)
<1> SUFFICES ASSUME NEW p \in Prio, Len(q.ready[p]) > 1, Head(q.ready[p]) = q.current PROVE FALSE
  BY DEF Lead
<1>1. PICK l : l = q.ready[p]
  OBVIOUS
<1>2. l \in Seq(Thread) /\ l # <<>>
  BY <1>1 DEF State
<1>3. Head(l) \in Elems(l) /\ Head(l) \in Thread
  BY <1>2, HeadElem
<1> QED BY <1>1, <1>3 DEF ReadyHolds

LEMMA SleepMarkKeeps ==
    ASSUME IInv, Sound, SleepMark
    PROVE  IInv'
<1> DEFINE c == s.current
<1>1. Running("sleep_mark") /\ isr' = isr /\ phase' = phase /\ prog' = prog
  BY DEF SleepMark
<1>2. /\ isr /\ Pc = "sleep_mark" /\ phase = "on" /\ stack # <<>> /\ stack \in Seq(FrameT)
      /\ Top \in FrameT /\ Top.owner = c /\ c \in Thread /\ s.status[c] # "none"
  BY <1>1, InKernel
<1>3. /\ prog \in Program /\ OwnPlaces(prog) /\ s \in State /\ Priority \in [Thread -> Nat]
      /\ s.prio \in [Thread -> Nat] /\ s.status \in [Thread -> Status] /\ s.ticks \in [Thread -> Nat]
  BY InvFacts
<1>4. Pc \notin Mid
  BY <1>2 DEF Mid
<1>5. c \in prog.MaySleep
  BY <1>2 DEF IInv, PcOk
<1>6. CASE s.status[c] = "sleep"
  <2>1. Goto("body") /\ s' = s
    BY <1>6 DEF SleepMark
  <2>2. Frames' /\ stack' \in Seq(FrameT) /\ Pc' = "body"
    <3>1. "body" \in Pcs
      BY DEF Pcs
    <3> QED BY <1>1, <1>2, <2>1, <3>1, GotoMoves
  <2> QED BY <1>1, <1>2, <1>4, <2>1, <2>2, QuietSteps DEF Mid
<1>7. CASE s.status[c] # "sleep"
  <2>1. s.status[c] = "ready"
    <3>1. s.status[c] = "exit" => c \in prog.MayExit
      BY <1>2 DEF IInv, StatusOk
    <3>2. c \notin prog.MayExit
      BY <1>3, <1>5 DEF OwnPlaces
    <3> QED BY <3>1, <3>2, <1>2, <1>3, <1>7 DEF Status
  <2> DEFINE f == [Top EXCEPT !.pc = "sleep_unlink", !.old = s.prio[c]]
  <2>2. /\ s' = [s EXCEPT !.ticks[c] = Top.arg, !.status[c] = "sleep", !.prio[c] = Priority[c]]
        /\ stack' = SetTop(f)
    BY <1>7 DEF SleepMark
  <2>3. f \in FrameT /\ f.owner = Top.owner /\ f.root = Top.root /\ f.pc = "sleep_unlink" /\ f.old = s.prio[c]
    BY <1>2, <1>3 DEF FrameT, Pcs
  <2> HIDE DEF f
  <2>4. Top.arg \in Nat
    BY <1>2 DEF FrameT
  <2>5. /\ s' \in State
        /\ s'.ticks = [s.ticks EXCEPT ![c] = Top.arg] /\ s'.status = [s.status EXCEPT ![c] = "sleep"]
        /\ s'.prio = [s.prio EXCEPT ![c] = Priority[c]]
        /\ s'.ready = s.ready /\ s'.rbm = s.rbm /\ s'.sleep = s.sleep /\ s'.sbm = s.sbm
        /\ s'.timeout = s.timeout /\ s'.defunct = s.defunct /\ s'.slice = s.slice
        /\ s'.current = s.current /\ s'.fault = s.fault
    <3>1. /\ [s.ticks EXCEPT ![c] = Top.arg] \in [Thread -> Nat]
          /\ [s.status EXCEPT ![c] = "sleep"] \in [Thread -> Status]
          /\ [s.prio EXCEPT ![c] = Priority[c]] \in [Thread -> Nat]
      BY <1>2, <1>3, <2>4 DEF Status
    <3>2. s' = [s EXCEPT !.ticks = [s.ticks EXCEPT ![c] = Top.arg],
                         !.status = [s.status EXCEPT ![c] = "sleep"],
                         !.prio = [s.prio EXCEPT ![c] = Priority[c]]]
      BY <2>2, <1>3 DEF State
    <3> QED BY <1>3, <3>1, <3>2 DEF State
  <2>6. s'.status[s.current] # "none"
    BY <1>2, <1>3, <2>5
  <2>7. Frames' /\ stack' \in Seq(FrameT) /\ Pc' = "sleep_unlink" /\ Top' = f
    BY <1>1, <1>2, <2>2, <2>3, <2>5, <2>6, TopMoves
  <2>8. /\ Rdy' = Rdy /\ Slp' = Slp /\ Ext' = Ext
        /\ \A t \in Thread : Lvl'[t] = Lvl[t]
    <3>1. /\ Rdy = {t \in Thread : s.status[t] = "ready"}
          /\ Slp = {t \in Thread : s.status[t] = "sleep"}
          /\ Ext = {t \in Thread : s.status[t] = "exit"}
          /\ Lvl = [t \in Thread |-> s.prio[t]]
      BY <1>4, QuietSets
    <3>2. /\ \A t \in Thread : s'.status[t] = IF t = c THEN "sleep" ELSE s.status[t]
          /\ \A t \in Thread : t # c => s'.prio[t] = s.prio[t]
      BY <1>2, <1>3, <2>5
    <3>3. Rdy' = {t \in Thread : s'.status[t] = "ready"} \cup {c}
      BY <1>2, <2>5, <2>7 DEF Rdy, At
    <3>4. Slp' = {t \in Thread : s'.status[t] = "sleep"} \ {c}
      BY <1>2, <2>5, <2>7 DEF Slp, At
    <3>5. Ext' = {t \in Thread : s'.status[t] = "exit"}
      BY <2>7 DEF Ext, At
    <3>6. \A t \in Thread : Lvl'[t] = IF t = c THEN s.prio[c] ELSE s'.prio[t]
      BY <1>2, <2>3, <2>5, <2>7 DEF Lvl, At
    <3> QED BY <1>2, <2>1, <3>1, <3>2, <3>3, <3>4, <3>5, <3>6
  <2>9. Held(s, Rdy, Slp, Ext, Lvl, Priority)'
    <3>1. PICK R, S, E, at, pri : R = Rdy /\ S = Slp /\ E = Ext /\ at = Lvl /\ pri = Priority
      OBVIOUS
    <3>2. Held(s, R, S, E, at, pri)
      BY <3>1 DEF IInv
    <3>3. Held(s', R, S, E, at, pri)
      BY <3>2, <2>5 DEF Held, ReadyHolds, SleepHolds, DefunctHolds
    <3>4. R \subseteq Thread
      BY <3>2 DEF Held, ReadyHolds
    <3>5. Held(s', R, S, E, at, Priority)
      BY <3>1, <3>3
    <3>6. Rdy' = R /\ Slp' = S /\ Ext' = E /\ \A t \in R : Lvl'[t] = at[t]
      BY <2>8, <3>1, <3>4
    <3> QED BY <1>1, <3>5, <3>6, HeldNext
  <2>10. Lead(s, 1)'
    BY <1>1, <2>5 DEF IInv, Lead, Priority
  <2>11. ASSUME NEW t \in Thread PROVE StatusOk(t)'
    <3>1. /\ s'.status[t] = IF t = c THEN "sleep" ELSE s.status[t]
          /\ s'.prio[t] = IF t = c THEN Priority[t] ELSE s.prio[t]
      BY <1>2, <1>3, <2>5
    <3>2. StatusOk(t)
      BY DEF IInv
    <3>3. phase' # "boot"
      BY <1>1, <1>2
    <3> QED BY <3>1, <3>2, <3>3, <1>1, <1>2, <1>5 DEF StatusOk, Priority
  <2>12. PcOk'
    BY <1>1, <1>2, <1>3, <1>5, <2>5, <2>7 DEF PcOk
  <2>13. Types'
    BY <1>1, <1>2, <2>5, <2>7 DEF IInv, Types
  <2> QED BY <2>7, <2>9, <2>10, <2>11, <2>12, <2>13 DEF IInv
<1> QED BY <1>6, <1>7

(* The steps of thread_sleep and thread_exit that only move nodes. *)
LEMMA MovesKeep ==
    ASSUME IInv, Sound, NEW d, NEW c, Running(d), d \in Mid, Goto(c),
           c \in {"sleep_link", "exit_link", "func"},
           c = "sleep_link" => d = "sleep_unlink", c = "exit_link" => d = "exit_unlink",
           isr' = isr, phase' = phase, prog' = prog,
           s' \in State, s'.status = s.status, s'.prio = s.prio, s'.slice = s.slice,
           s'.current = s.current,
           Held(s, Rdy, Slp, Ext, Lvl, Priority)', Lead(s', 1)
    PROVE  IInv'
<1>1. /\ isr /\ Pc = d /\ phase = "on" /\ stack # <<>> /\ s.status[s.current] # "none"
  BY InKernel DEF Mid
<1>2. c \in Pcs /\ s'.status[s.current] # "none"
  BY <1>1 DEF Pcs
<1>3. Frames' /\ stack' \in Seq(FrameT) /\ Pc' = c
  BY <1>1, <1>2, GotoMoves
<1>4. PcOk'
  BY <1>1, <1>3 DEF IInv, PcOk
<1>5. \A t \in Thread : StatusOk(t)'
  BY <1>1 DEF IInv, StatusOk, Priority
<1>6. Lead(s, 1)'
  BY DEF Lead, Priority
<1>7. Types'
  BY <1>3 DEF IInv, Types
<1> QED BY <1>3, <1>4, <1>5, <1>6, <1>7 DEF IInv

LEMMA SleepUnlinkKeeps ==
    ASSUME IInv, Sound, SleepUnlink
    PROVE  IInv'
<1> DEFINE c == s.current
<1>1. /\ Running("sleep_unlink") /\ Goto("sleep_link") /\ isr' = isr /\ phase' = phase /\ prog' = prog
      /\ s' = IF ReadyLinked(s, c) THEN UnlinkReady(s, c, Top.old) ELSE s
  BY DEF SleepUnlink
<1>2. /\ isr /\ Pc = "sleep_unlink" /\ phase = "on" /\ stack # <<>> /\ stack \in Seq(FrameT)
      /\ Top \in FrameT /\ c \in Thread /\ s.status[c] # "none"
  BY <1>1, InKernel
<1>3. PICK R, S, E, at, pri : R = Rdy /\ S = Slp /\ E = Ext /\ at = Lvl /\ pri = Priority
  OBVIOUS
<1>4. Held(s, R, S, E, at, pri) /\ s \in State /\ s.status[c] = "sleep"
  BY <1>2, <1>3 DEF IInv, PcOk, Types
<1>5. c \in R /\ at[c] = Top.old /\ \A t \in Thread : t # c => at[t] = s.prio[t]
  BY <1>2, <1>3 DEF Rdy, Lvl, At
<1>6. ReadyLinked(s, c)
  BY <1>2, <1>4, <1>5, ReadyLinkedIs DEF Held
<1>7. s' = UnlinkReady(s, c, at[c])
  BY <1>1, <1>5, <1>6
<1>8. s' \in State /\ ReadyApart(s', s) /\ ReadyHolds(s', R \ {c}, at)
  <2>1. PICK t, q : t = c /\ q = s
    OBVIOUS
  <2>2. t \in R /\ q \in State /\ ReadyHolds(q, R, at) /\ s' = UnlinkReady(q, t, at[t])
    BY <2>1, <1>4, <1>5, <1>7 DEF Held
  <2>3. s' \in State /\ ReadyApart(s', q) /\ ReadyHolds(s', R \ {t}, at)
    BY <2>2, UnlinkReadyUnlinks
  <2> QED BY <2>1, <2>3
<1>9. /\ s'.sleep = s.sleep /\ s'.sbm = s.sbm /\ s'.timeout = s.timeout /\ s'.defunct = s.defunct
      /\ s'.prio = s.prio /\ s'.slice = s.slice /\ s'.status = s.status
      /\ s'.current = s.current /\ s'.fault = s.fault
  BY <1>8 DEF ReadyApart
<1>10. Pc' = "sleep_link"
  <2>1. "sleep_link" \in Pcs /\ s'.status[s.current] # "none"
    BY <1>2, <1>9 DEF Pcs
  <2> QED BY <1>1, <1>2, <1>9, <2>1, GotoMoves
<1>11. PICK R2 : R2 = R \ {c}
  OBVIOUS
<1>12. Rdy' = R2 /\ Slp' = S /\ Ext' = E /\ \A t \in R2 : Lvl'[t] = at[t]
  <2>1. At({"sleep_unlink", "exit_unlink"}) = {c} /\ At({"sleep_unlink", "sleep_link"}) = {c}
        /\ At({"exit_unlink", "exit_link"}) = {}
    BY <1>2 DEF At
  <2>2. /\ At({"sleep_unlink", "exit_unlink"})' = {} /\ At({"sleep_unlink", "sleep_link"})' = {c}
        /\ At({"exit_unlink", "exit_link"})' = {} /\ At({"sleep_unlink"})' = {}
    BY <1>2, <1>9, <1>10 DEF At
  <2>3. Rdy' = R2
    BY <2>1, <2>2, <1>3, <1>4, <1>9, <1>11 DEF Rdy
  <2>4. Slp' = S /\ Ext' = E
    BY <2>1, <2>2, <1>3, <1>9 DEF Slp, Ext
  <2>5. R2 \subseteq Thread /\ c \notin R2
    BY <1>8, <1>11 DEF ReadyHolds
  <2>6. \A t \in Thread : Lvl'[t] = s'.prio[t]
    BY <2>2 DEF Lvl
  <2> QED BY <2>3, <2>4, <2>5, <2>6, <1>5, <1>9
<1>13. Held(s, Rdy, Slp, Ext, Lvl, Priority)'
  <2>1. SleepHolds(s', S, pri) /\ DefunctHolds(s', E) /\ s'.fault = "none" /\ s'.timeout = <<>>
    BY <1>4, <1>9 DEF Held, SleepHolds, DefunctHolds
  <2>2. Held(s', R2, S, E, at, pri)
    BY <2>1, <1>8, <1>11 DEF Held
  <2>3. Held(s', R2, S, E, at, Priority)
    BY <2>2, <1>3
  <2> QED BY <2>3, <1>1, <1>12, HeldNext
<1>14. Lead(s', 1)
  <2>1. ReadyHolds(s', R2, at) /\ s'.current \notin R2
    BY <1>8, <1>9, <1>11
  <2> QED BY <2>1, <1>8, NoLead
<1> QED BY <1>1, <1>8, <1>9, <1>13, <1>14, MovesKeep DEF Mid

LEMMA SleepLinkKeeps ==
    ASSUME IInv, Sound, SleepLink
    PROVE  IInv'
<1> DEFINE c == s.current
           p == s.prio[c]
<1>1. /\ Running("sleep_link") /\ Goto("func") /\ isr' = isr /\ phase' = phase /\ prog' = prog
      /\ s' = IF SleepLinked(s, c) THEN [s EXCEPT !.fault = "relinked"]
              ELSE [s EXCEPT !.sleep[p] = PushBack(@, c), !.sbm = @ \cup {p}]
  BY DEF SleepLink
<1>2. /\ isr /\ Pc = "sleep_link" /\ phase = "on" /\ stack # <<>> /\ stack \in Seq(FrameT)
      /\ Top \in FrameT /\ c \in Thread /\ s.status[c] # "none"
  BY <1>1, InKernel
<1>3. PICK R, S, E, at, pri : R = Rdy /\ S = Slp /\ E = Ext /\ at = Lvl /\ pri = Priority
  OBVIOUS
<1>4. Held(s, R, S, E, at, pri) /\ s \in State /\ s.status[c] = "sleep"
  BY <1>2, <1>3 DEF IInv, PcOk, Types
<1>5. c \notin S /\ c \notin E /\ c \notin R /\ \A t \in Thread : at[t] = s.prio[t]
  BY <1>2, <1>3, <1>4 DEF Rdy, Slp, Ext, Lvl, At
<1>6. ~SleepLinked(s, c)
  BY <1>2, <1>4, <1>5, SleepLinkedIs DEF Held
<1>7. p = pri[c] /\ p \in Prio
  <2>1. p = Priority[c] /\ Priority[c] < MaxPriority
    BY <1>2, <1>4 DEF IInv, StatusOk
  <2>2. Priority[c] \in Nat
    BY <1>2, InvFacts
  <2> QED BY <2>1, <2>2, <1>3, PrioFacts
<1>8. PICK S2 : S2 = S \cup {c}
  OBVIOUS
<1>9. /\ s' \in State /\ SleepHolds(s', S2, pri)
      /\ s'.ready = s.ready /\ s'.rbm = s.rbm /\ s'.timeout = s.timeout /\ s'.defunct = s.defunct
      /\ s'.prio = s.prio /\ s'.slice = s.slice /\ s'.status = s.status
      /\ s'.current = s.current /\ s'.fault = s.fault
  <2>1. PICK t, q, o, r : t = c /\ q = s /\ o = p /\ r = s'
    OBVIOUS
  <2>2. /\ q \in State /\ SleepHolds(q, S, pri) /\ t \in Thread /\ t \notin S /\ o \in Prio /\ pri[t] = o
        /\ r = LinkSleep(q, t, o)
    BY <2>1, <1>1, <1>2, <1>4, <1>5, <1>6, <1>7 DEF Held, LinkSleep
  <2>3. /\ r \in State /\ SleepHolds(r, S \cup {t}, pri)
        /\ r.ready = q.ready /\ r.rbm = q.rbm /\ r.timeout = q.timeout /\ r.defunct = q.defunct
        /\ r.prio = q.prio /\ r.ticks = q.ticks /\ r.slice = q.slice /\ r.status = q.status
        /\ r.current = q.current /\ r.fault = q.fault
    BY <2>2, LinkSleepLinks
  <2> QED BY <2>1, <2>3, <1>8
<1>10. Pc' = "func"
  <2>1. "func" \in Pcs /\ s'.status[s.current] # "none"
    BY <1>2, <1>9 DEF Pcs
  <2> QED BY <1>1, <1>2, <1>9, <2>1, GotoMoves
<1>11. Rdy' = R /\ Slp' = S2 /\ Ext' = E /\ \A t \in R : Lvl'[t] = at[t]
  <2>1. At({"sleep_unlink", "exit_unlink"}) = {} /\ At({"sleep_unlink", "sleep_link"}) = {c}
        /\ At({"exit_unlink", "exit_link"}) = {}
    BY <1>2 DEF At
  <2>2. /\ At({"sleep_unlink", "exit_unlink"})' = {} /\ At({"sleep_unlink", "sleep_link"})' = {}
        /\ At({"exit_unlink", "exit_link"})' = {} /\ At({"sleep_unlink"})' = {}
    BY <1>10 DEF At
  <2>3. Rdy' = R /\ Ext' = E
    BY <2>1, <2>2, <1>3, <1>9 DEF Rdy, Ext
  <2>4. Slp' = S2
    BY <2>1, <2>2, <1>2, <1>3, <1>4, <1>8, <1>9 DEF Slp
  <2>5. R \subseteq Thread
    BY <1>3 DEF Rdy, At
  <2>6. \A t \in Thread : Lvl'[t] = s'.prio[t]
    BY <2>2 DEF Lvl
  <2> QED BY <2>3, <2>4, <2>5, <2>6, <1>5, <1>9
<1>12. Held(s, Rdy, Slp, Ext, Lvl, Priority)'
  <2>1. ReadyHolds(s', R, at) /\ DefunctHolds(s', E) /\ s'.fault = "none" /\ s'.timeout = <<>>
    BY <1>4, <1>9 DEF Held, ReadyHolds, DefunctHolds
  <2>2. Held(s', R, S2, E, at, pri)
    BY <2>1, <1>9 DEF Held
  <2>3. Held(s', R, S2, E, at, Priority)
    BY <2>2, <1>3
  <2> QED BY <2>3, <1>1, <1>11, HeldNext
<1>13. Lead(s', 1)
  BY <1>9 DEF IInv, Lead
<1> QED BY <1>1, <1>9, <1>12, <1>13, MovesKeep DEF Mid

LEMMA ExitMarkKeeps ==
    ASSUME IInv, Sound, ExitMark
    PROVE  IInv'
<1> DEFINE c == s.current
<1>1. Running("exit_mark") /\ isr' = isr /\ phase' = phase /\ prog' = prog
  BY DEF ExitMark
<1>2. /\ isr /\ Pc = "exit_mark" /\ phase = "on" /\ stack # <<>> /\ stack \in Seq(FrameT)
      /\ Top \in FrameT /\ Top.owner = c /\ c \in Thread /\ s.status[c] # "none"
  BY <1>1, InKernel
<1>3. /\ prog \in Program /\ OwnPlaces(prog) /\ s \in State /\ s.status \in [Thread -> Status]
  BY InvFacts
<1>4. Pc \notin Mid
  BY <1>2 DEF Mid
<1>5. c \in prog.MayExit
  BY <1>2 DEF IInv, PcOk
<1>6. CASE s.status[c] = "exit"
  <2>1. Goto("body") /\ s' = s
    BY <1>6 DEF ExitMark
  <2>2. Frames' /\ stack' \in Seq(FrameT) /\ Pc' = "body"
    <3>1. "body" \in Pcs
      BY DEF Pcs
    <3> QED BY <1>1, <1>2, <2>1, <3>1, GotoMoves
  <2> QED BY <1>1, <1>2, <1>4, <2>1, <2>2, QuietSteps DEF Mid
<1>7. CASE s.status[c] # "exit"
  <2>1. s.status[c] = "ready"
    <3>1. s.status[c] = "sleep" => c \in prog.MaySleep
      BY <1>2 DEF IInv, StatusOk
    <3>2. c \notin prog.MaySleep
      BY <1>3, <1>5 DEF OwnPlaces
    <3> QED BY <3>1, <3>2, <1>2, <1>3, <1>7 DEF Status
  <2>2. s' = [s EXCEPT !.status[c] = "exit"] /\ Goto("exit_unlink")
    BY <1>7 DEF ExitMark
  <2>3. /\ s' \in State /\ s'.status = [s.status EXCEPT ![c] = "exit"]
        /\ s'.prio = s.prio
        /\ s'.ready = s.ready /\ s'.rbm = s.rbm /\ s'.sleep = s.sleep /\ s'.sbm = s.sbm
        /\ s'.timeout = s.timeout /\ s'.defunct = s.defunct /\ s'.slice = s.slice
        /\ s'.current = s.current /\ s'.fault = s.fault
    <3>1. [s.status EXCEPT ![c] = "exit"] \in [Thread -> Status]
      BY <1>2, <1>3 DEF Status
    <3>2. s' = [s EXCEPT !.status = [s.status EXCEPT ![c] = "exit"]]
      BY <2>2, <1>3 DEF State
    <3> QED BY <1>3, <3>1, <3>2 DEF State
  <2>4. s'.status[s.current] # "none"
    BY <1>2, <1>3, <2>3
  <2>5. Frames' /\ stack' \in Seq(FrameT) /\ Pc' = "exit_unlink"
    <3>1. "exit_unlink" \in Pcs
      BY DEF Pcs
    <3> QED BY <1>1, <1>2, <2>2, <2>3, <2>4, <3>1, GotoMoves
  <2>6. /\ Rdy' = Rdy /\ Slp' = Slp /\ Ext' = Ext
        /\ \A t \in Thread : Lvl'[t] = Lvl[t]
    <3>1. /\ Rdy = {t \in Thread : s.status[t] = "ready"}
          /\ Slp = {t \in Thread : s.status[t] = "sleep"}
          /\ Ext = {t \in Thread : s.status[t] = "exit"}
          /\ Lvl = [t \in Thread |-> s.prio[t]]
      BY <1>4, QuietSets
    <3>2. \A t \in Thread : s'.status[t] = IF t = c THEN "exit" ELSE s.status[t]
      BY <1>2, <1>3, <2>3
    <3>3. Rdy' = {t \in Thread : s'.status[t] = "ready"} \cup {c}
      BY <1>2, <2>3, <2>5 DEF Rdy, At
    <3>4. Slp' = {t \in Thread : s'.status[t] = "sleep"}
      BY <2>5 DEF Slp, At
    <3>5. Ext' = {t \in Thread : s'.status[t] = "exit"} \ {c}
      BY <1>2, <2>3, <2>5 DEF Ext, At
    <3>6. \A t \in Thread : Lvl'[t] = s'.prio[t]
      BY <2>5 DEF Lvl, At
    <3> QED BY <1>2, <2>1, <2>3, <3>1, <3>2, <3>3, <3>4, <3>5, <3>6
  <2>7. Held(s, Rdy, Slp, Ext, Lvl, Priority)'
    <3>1. PICK R, S, E, at, pri : R = Rdy /\ S = Slp /\ E = Ext /\ at = Lvl /\ pri = Priority
      OBVIOUS
    <3>2. Held(s, R, S, E, at, pri)
      BY <3>1 DEF IInv
    <3>3. Held(s', R, S, E, at, pri)
      BY <3>2, <2>3 DEF Held, ReadyHolds, SleepHolds, DefunctHolds
    <3>4. R \subseteq Thread
      BY <3>2 DEF Held, ReadyHolds
    <3>5. Held(s', R, S, E, at, Priority)
      BY <3>1, <3>3
    <3>6. Rdy' = R /\ Slp' = S /\ Ext' = E /\ \A t \in R : Lvl'[t] = at[t]
      BY <2>6, <3>1, <3>4
    <3> QED BY <1>1, <3>5, <3>6, HeldNext
  <2>8. Lead(s, 1)'
    BY <1>1, <2>3 DEF IInv, Lead, Priority
  <2>9. ASSUME NEW t \in Thread PROVE StatusOk(t)'
    <3>1. /\ s'.status[t] = IF t = c THEN "exit" ELSE s.status[t]
          /\ s'.prio[t] = s.prio[t]
      BY <1>2, <1>3, <2>3
    <3>2. StatusOk(t) /\ (s.prio[c] = Priority[c])
      <4>1. StatusOk(t) /\ StatusOk(c)
        BY <1>2 DEF IInv
      <4>2. c \notin prog.MaySleep
        BY <1>3, <1>5 DEF OwnPlaces
      <4> QED BY <4>1, <4>2 DEF StatusOk
    <3>3. phase' # "boot"
      BY <1>1, <1>2
    <3> QED BY <3>1, <3>2, <3>3, <1>1, <1>2, <1>5 DEF StatusOk, Priority
  <2>10. PcOk'
    BY <1>1, <1>2, <1>3, <1>5, <2>3, <2>5 DEF PcOk
  <2>11. Types'
    BY <1>1, <1>2, <2>3, <2>5 DEF IInv, Types
  <2> QED BY <2>5, <2>7, <2>8, <2>9, <2>10, <2>11 DEF IInv
<1> QED BY <1>6, <1>7

LEMMA ExitUnlinkKeeps ==
    ASSUME IInv, Sound, ExitUnlink
    PROVE  IInv'
<1> DEFINE c == s.current
<1>1. /\ Running("exit_unlink") /\ Goto("exit_link") /\ isr' = isr /\ phase' = phase /\ prog' = prog
      /\ s' = UnlinkSleep(IF ReadyLinked(s, c) THEN UnlinkReady(s, c, s.prio[c]) ELSE s, c)
  BY DEF ExitUnlink
<1>2. /\ isr /\ Pc = "exit_unlink" /\ phase = "on" /\ stack # <<>> /\ stack \in Seq(FrameT)
      /\ Top \in FrameT /\ c \in Thread /\ s.status[c] # "none"
  BY <1>1, InKernel
<1>3. PICK R, S, E, at, pri : R = Rdy /\ S = Slp /\ E = Ext /\ at = Lvl /\ pri = Priority
  OBVIOUS
<1>4. Held(s, R, S, E, at, pri) /\ s \in State /\ s.status[c] = "exit"
  BY <1>2, <1>3 DEF IInv, PcOk, Types
<1>5. c \in R /\ c \notin S /\ c \notin E /\ \A t \in Thread : at[t] = s.prio[t]
  BY <1>2, <1>3, <1>4 DEF Rdy, Slp, Ext, Lvl, At
<1>6. ReadyLinked(s, c)
  BY <1>2, <1>4, <1>5, ReadyLinkedIs DEF Held
<1>7. PICK r : r = UnlinkReady(s, c, at[c])
  OBVIOUS
<1>8. r \in State /\ ReadyApart(r, s) /\ ReadyHolds(r, R \ {c}, at)
  <2>1. PICK t, q : t = c /\ q = s
    OBVIOUS
  <2>2. t \in R /\ q \in State /\ ReadyHolds(q, R, at) /\ r = UnlinkReady(q, t, at[t])
    BY <2>1, <1>4, <1>5, <1>7 DEF Held
  <2>3. r \in State /\ ReadyApart(r, q) /\ ReadyHolds(r, R \ {t}, at)
    BY <2>2, UnlinkReadyUnlinks
  <2> QED BY <2>1, <2>3
<1>9. s' = r
  <2>1. SleepHolds(r, S, pri) /\ DefunctHolds(r, E) /\ r.timeout = <<>>
    BY <1>4, <1>8 DEF Held, SleepHolds, DefunctHolds, ReadyApart
  <2>2. ~SleepLinked(r, c)
    BY <2>1, <1>2, <1>5, <1>8, SleepLinkedIs
  <2>3. s' = UnlinkSleep(r, c)
    BY <1>1, <1>2, <1>5, <1>6, <1>7
  <2> QED BY <2>2, <2>3 DEF UnlinkSleep
<1>10. /\ s' \in State /\ ReadyHolds(s', R \ {c}, at)
       /\ s'.sleep = s.sleep /\ s'.sbm = s.sbm /\ s'.timeout = s.timeout /\ s'.defunct = s.defunct
       /\ s'.prio = s.prio /\ s'.slice = s.slice /\ s'.status = s.status
       /\ s'.current = s.current /\ s'.fault = s.fault
  BY <1>8, <1>9 DEF ReadyApart
<1>11. Pc' = "exit_link"
  <2>1. "exit_link" \in Pcs /\ s'.status[s.current] # "none"
    BY <1>2, <1>10 DEF Pcs
  <2> QED BY <1>1, <1>2, <1>10, <2>1, GotoMoves
<1>12. PICK R2 : R2 = R \ {c}
  OBVIOUS
<1>13. Rdy' = R2 /\ Slp' = S /\ Ext' = E /\ \A t \in R2 : Lvl'[t] = at[t]
  <2>1. At({"sleep_unlink", "exit_unlink"}) = {c} /\ At({"sleep_unlink", "sleep_link"}) = {}
        /\ At({"exit_unlink", "exit_link"}) = {c}
    BY <1>2 DEF At
  <2>2. /\ At({"sleep_unlink", "exit_unlink"})' = {} /\ At({"sleep_unlink", "sleep_link"})' = {}
        /\ At({"exit_unlink", "exit_link"})' = {c} /\ At({"sleep_unlink"})' = {}
    BY <1>2, <1>10, <1>11 DEF At
  <2>3. Rdy' = R2
    BY <2>1, <2>2, <1>3, <1>4, <1>10, <1>12 DEF Rdy
  <2>4. Slp' = S /\ Ext' = E
    BY <2>1, <2>2, <1>3, <1>10 DEF Slp, Ext
  <2>5. R2 \subseteq Thread
    BY <1>10, <1>12 DEF ReadyHolds
  <2>6. \A t \in Thread : Lvl'[t] = s'.prio[t]
    BY <2>2 DEF Lvl
  <2> QED BY <2>3, <2>4, <2>5, <2>6, <1>5, <1>10
<1>14. Held(s, Rdy, Slp, Ext, Lvl, Priority)'
  <2>1. SleepHolds(s', S, pri) /\ DefunctHolds(s', E) /\ s'.fault = "none" /\ s'.timeout = <<>>
    BY <1>4, <1>10 DEF Held, SleepHolds, DefunctHolds
  <2>2. Held(s', R2, S, E, at, pri)
    BY <2>1, <1>10, <1>12 DEF Held
  <2>3. Held(s', R2, S, E, at, Priority)
    BY <2>2, <1>3
  <2> QED BY <2>3, <1>1, <1>13, HeldNext
<1>15. Lead(s', 1)
  <2>1. ReadyHolds(s', R2, at) /\ s'.current \notin R2
    BY <1>10, <1>12
  <2> QED BY <2>1, <1>10, NoLead
<1> QED BY <1>1, <1>10, <1>14, <1>15, MovesKeep DEF Mid

LEMMA ExitLinkKeeps ==
    ASSUME IInv, Sound, ExitLink
    PROVE  IInv'
<1> DEFINE c == s.current
<1>1. /\ Running("exit_link") /\ Goto("func") /\ isr' = isr /\ phase' = phase /\ prog' = prog
      /\ s' = IF SleepLinked(s, c) THEN [s EXCEPT !.fault = "relinked"]
              ELSE [s EXCEPT !.defunct = PushBack(@, c)]
  BY DEF ExitLink
<1>2. /\ isr /\ Pc = "exit_link" /\ phase = "on" /\ stack # <<>> /\ stack \in Seq(FrameT)
      /\ Top \in FrameT /\ c \in Thread /\ s.status[c] # "none"
  BY <1>1, InKernel
<1>3. PICK R, S, E, at, pri : R = Rdy /\ S = Slp /\ E = Ext /\ at = Lvl /\ pri = Priority
  OBVIOUS
<1>4. Held(s, R, S, E, at, pri) /\ s \in State /\ s.status[c] = "exit"
  BY <1>2, <1>3 DEF IInv, PcOk, Types
<1>5. c \notin S /\ c \notin E /\ c \notin R /\ \A t \in Thread : at[t] = s.prio[t]
  BY <1>2, <1>3, <1>4 DEF Rdy, Slp, Ext, Lvl, At
<1>6. ~SleepLinked(s, c)
  BY <1>2, <1>4, <1>5, SleepLinkedIs DEF Held
<1>7. PICK l, b : l = s.defunct /\ b = PushBack(l, c)
  OBVIOUS
<1>8. PICK E2 : E2 = E \cup {c}
  OBVIOUS
<1>9. b \in Seq(Thread) /\ IsOnce(b) /\ Elems(b) = E2
  <2>1. l \in Seq(Thread) /\ IsOnce(l) /\ Elems(l) = E
    BY <1>4, <1>7 DEF Held, DefunctHolds, State
  <2>2. PICK t : t = c
    OBVIOUS
  <2>3. /\ PushBack(l, t) \in Seq(Thread) /\ Elems(PushBack(l, t)) = Elems(l) \cup {t}
        /\ IsOnce(l) /\ t \notin Elems(l) => IsOnce(PushBack(l, t))
    BY <2>1, <2>2, <1>2, PushBackFacts
  <2> QED BY <2>1, <2>2, <2>3, <1>5, <1>7, <1>8
<1>10. s' = [s EXCEPT !.defunct = b]
  BY <1>1, <1>6, <1>7
<1>11. /\ s' \in State /\ s'.defunct = b
       /\ s'.ready = s.ready /\ s'.rbm = s.rbm /\ s'.timeout = s.timeout
       /\ s'.sleep = s.sleep /\ s'.sbm = s.sbm
       /\ s'.prio = s.prio /\ s'.slice = s.slice /\ s'.status = s.status
       /\ s'.current = s.current /\ s'.fault = s.fault
  BY <1>4, <1>9, <1>10 DEF State
<1>12. Pc' = "func"
  <2>1. "func" \in Pcs /\ s'.status[s.current] # "none"
    BY <1>2, <1>11 DEF Pcs
  <2> QED BY <1>1, <1>2, <1>11, <2>1, GotoMoves
<1>13. Rdy' = R /\ Slp' = S /\ Ext' = E2 /\ \A t \in R : Lvl'[t] = at[t]
  <2>1. At({"sleep_unlink", "exit_unlink"}) = {} /\ At({"sleep_unlink", "sleep_link"}) = {}
        /\ At({"exit_unlink", "exit_link"}) = {c}
    BY <1>2 DEF At
  <2>2. /\ At({"sleep_unlink", "exit_unlink"})' = {} /\ At({"sleep_unlink", "sleep_link"})' = {}
        /\ At({"exit_unlink", "exit_link"})' = {} /\ At({"sleep_unlink"})' = {}
    BY <1>12 DEF At
  <2>3. Rdy' = R /\ Slp' = S
    BY <2>1, <2>2, <1>3, <1>11 DEF Rdy, Slp
  <2>4. Ext' = E2
    BY <2>1, <2>2, <1>2, <1>3, <1>4, <1>8, <1>11 DEF Ext
  <2>5. R \subseteq Thread
    BY <1>3 DEF Rdy, At
  <2>6. \A t \in Thread : Lvl'[t] = s'.prio[t]
    BY <2>2 DEF Lvl
  <2> QED BY <2>3, <2>4, <2>5, <2>6, <1>5, <1>11
<1>14. Held(s, Rdy, Slp, Ext, Lvl, Priority)'
  <2>1. ReadyHolds(s', R, at) /\ SleepHolds(s', S, pri) /\ s'.fault = "none" /\ s'.timeout = <<>>
    BY <1>4, <1>11 DEF Held, ReadyHolds, SleepHolds
  <2>2. Held(s', R, S, E2, at, pri)
    BY <2>1, <1>9, <1>11 DEF Held, DefunctHolds
  <2>3. Held(s', R, S, E2, at, Priority)
    BY <2>2, <1>3
  <2> QED BY <2>3, <1>1, <1>13, HeldNext
<1>15. Lead(s', 1)
  BY <1>11 DEF IInv, Lead
<1> QED BY <1>1, <1>11, <1>14, <1>15, MovesKeep DEF Mid

LEMMA StandFast ==
    ASSUME IInv, stack' = stack, isr' = isr, phase' = phase, s'.current = s.current,
           s.current \in Thread /\ s.status[s.current] # "none" => s'.status[s.current] # "none"
    PROVE  Frames' /\ stack' \in Seq(FrameT) /\ isr' \in BOOLEAN
<1>1. stack \in Seq(FrameT) /\ isr \in BOOLEAN /\ Frames
  BY DEF IInv, Types
<1>2. \A k \in 1..2 : Rooted(k) => Rooted(k)'
  BY DEF Rooted
<1>3. Frames'
  BY <1>1, <1>2 DEF Frames
<1> QED BY <1>1, <1>3

(* thread_create; a thread created late has a priority of its own. *)
LEMMA ThreadCreateKeeps ==
    ASSUME IInv, Sound, NEW t \in Thread, ThreadCreate(t)
    PROVE  IInv'
<1>1. /\ IF t \in prog.LateThread THEN isr /\ Running("body") ELSE phase = "boot"
      /\ s.status[t] = "none" /\ s' = Create(s, t)
      /\ stack' = stack /\ isr' = isr /\ phase' = phase /\ prog' = prog
  BY DEF ThreadCreate
<1>2. /\ prog \in Program /\ OwnPlaces(prog) /\ s \in State /\ Priority \in [Thread -> Nat]
      /\ prog.Boost \in [Thread -> Nat]
      /\ s.prio \in [Thread -> Nat] /\ s.status \in [Thread -> Status] /\ s.ticks \in [Thread -> Nat]
      /\ s.slice \in [Thread -> Nat] /\ s.ready \in [Prio -> Seq(Thread)]
  BY InvFacts
<1>3. Pc = "body" /\ Pc' = "body"
  <2>1. CASE isr
    <3>1. phase = "on"
      BY <2>1 DEF IInv, Frames
    <3>2. Running("body")
      BY <1>1, <3>1
    <3> QED BY <3>2, <1>1 DEF Pc, Top, Running
  <2>2. CASE ~isr
    BY <2>2, <1>1 DEF Pc
  <2>3. isr \in BOOLEAN
    BY DEF IInv, Types
  <2> QED BY <2>1, <2>2, <2>3
<1>4. CASE Priority[t] >= MaxPriority \/ prog.Boost[t] > Priority[t]
  <2>1. s' = s
    BY <1>1, <1>4 DEF Create
  <2>2. Frames' /\ stack' \in Seq(FrameT) /\ isr' \in BOOLEAN
    BY <2>1, <1>1, StandFast
  <2> QED BY <2>1, <2>2, <1>1, <1>3, QuietSteps DEF Mid
<1>5. CASE ~(Priority[t] >= MaxPriority \/ prog.Boost[t] > Priority[t])
  <2>1. PICK a, p : /\ a = [s EXCEPT !.prio[t] = Priority[t], !.ticks[t] = 0,
                             !.slice[t] = SliceMax(t), !.status[t] = "ready"]
                    /\ p = Priority[t]
    OBVIOUS
  <2>2. s' = LinkReady(a, t, p)
    BY <1>1, <1>5, <2>1 DEF Create
  <2>3. p \in Prio /\ prog.Boost[t] <= Priority[t] /\ Priority[t] < MaxPriority
    <3>1. Priority[t] \in Nat /\ prog.Boost[t] \in Nat /\ MaxPriority \in Nat
      BY <1>2, SchedulerListAssumption
    <3>2. Priority[t] < MaxPriority /\ prog.Boost[t] <= Priority[t]
      BY <3>1, <1>5
    <3> QED BY <3>1, <3>2, <2>1, PrioFacts
  <2>4. /\ a \in State
        /\ a.status = [s.status EXCEPT ![t] = "ready"] /\ a.prio = [s.prio EXCEPT ![t] = p]
        /\ a.slice = [s.slice EXCEPT ![t] = SliceMax(t)]
        /\ a.ready = s.ready /\ a.rbm = s.rbm /\ a.timeout = s.timeout /\ a.defunct = s.defunct
        /\ a.sleep = s.sleep /\ a.sbm = s.sbm /\ a.current = s.current /\ a.fault = s.fault
    <3>1. /\ [s.status EXCEPT ![t] = "ready"] \in [Thread -> Status]
          /\ [s.prio EXCEPT ![t] = p] \in [Thread -> Nat]
          /\ [s.ticks EXCEPT ![t] = 0] \in [Thread -> Nat]
          /\ [s.slice EXCEPT ![t] = SliceMax(t)] \in [Thread -> Nat]
      BY <1>2, <2>1, SliceMaxFacts DEF Status
    <3>2. a = [s EXCEPT !.prio = [s.prio EXCEPT ![t] = p], !.ticks = [s.ticks EXCEPT ![t] = 0],
                        !.slice = [s.slice EXCEPT ![t] = SliceMax(t)],
                        !.status = [s.status EXCEPT ![t] = "ready"]]
      BY <2>1, <1>2 DEF State
    <3> QED BY <1>2, <3>1, <3>2 DEF State
  <2>5. PICK R, S, E, at, pri : R = Rdy /\ S = Slp /\ E = Ext /\ at = Lvl /\ pri = Priority
    OBVIOUS
  <2>6. Held(s, R, S, E, at, pri)
    BY <2>5 DEF IInv
  <2>7. /\ R = {u \in Thread : s.status[u] = "ready"} /\ S = {u \in Thread : s.status[u] = "sleep"}
        /\ E = {u \in Thread : s.status[u] = "exit"} /\ at = [u \in Thread |-> s.prio[u]]
    BY <1>3, <2>5, QuietSets DEF Mid
  <2>8. ReadyHolds(a, R, at) /\ t \notin R
    BY <1>1, <2>4, <2>6, <2>7 DEF Held, ReadyHolds
  <2>9. PICK at2, R2, r : at2 = [at EXCEPT ![t] = p] /\ R2 = R \cup {t} /\ r = s'
    OBVIOUS
  <2>10. at2[t] = p /\ \A u \in Thread : u # t => at2[u] = at[u]
    BY <2>7, <2>9
  <2>11. /\ r \in State /\ ReadyApart(r, a) /\ ReadyHolds(r, R2, at2)
         /\ r.ready[p] = PushBack(a.ready[p], t)
         /\ \A o \in Prio : o # p => r.ready[o] = a.ready[o]
    <3>1. r = LinkReady(a, t, p)
      BY <2>2, <2>9
    <3>2. /\ r \in State /\ ReadyApart(r, a) /\ ReadyHolds(r, R \cup {t}, at2)
          /\ r.ready[p] = PushBack(a.ready[p], t)
          /\ \A o \in Prio : o # p => r.ready[o] = a.ready[o]
      <4>1. /\ a \in State /\ ReadyHolds(a, R, at) /\ t \in Thread /\ t \notin R /\ p \in Prio
            /\ r = LinkReady(a, t, p)
            /\ at2[t] = p /\ \A u \in Thread : u # t => at2[u] = at[u]
        BY <3>1, <2>3, <2>4, <2>8, <2>10
      <4> QED BY <4>1, LinkReadyLinks
    <3> QED BY <3>2, <2>9
  <2>12. /\ s' \in State
         /\ s'.status = [s.status EXCEPT ![t] = "ready"] /\ s'.prio = [s.prio EXCEPT ![t] = p]
         /\ s'.slice = [s.slice EXCEPT ![t] = SliceMax(t)]
         /\ s'.timeout = s.timeout /\ s'.defunct = s.defunct
         /\ s'.sleep = s.sleep /\ s'.sbm = s.sbm /\ s'.current = s.current /\ s'.fault = s.fault
    BY <2>4, <2>9, <2>11 DEF ReadyApart
  <2>13. /\ \A u \in Thread : s'.status[u] = IF u = t THEN "ready" ELSE s.status[u]
         /\ \A u \in Thread : s'.prio[u] = IF u = t THEN p ELSE s.prio[u]
         /\ \A u \in Thread : s'.slice[u] = IF u = t THEN SliceMax(t) ELSE s.slice[u]
    BY <1>2, <2>12
  <2>14. /\ Rdy' = R2 /\ Slp' = S /\ Ext' = E /\ \A u \in R2 : Lvl'[u] = at2[u]
    <3>1. /\ Rdy' = {u \in Thread : s'.status[u] = "ready"}
          /\ Slp' = {u \in Thread : s'.status[u] = "sleep"}
          /\ Ext' = {u \in Thread : s'.status[u] = "exit"}
          /\ Lvl' = [u \in Thread |-> s'.prio[u]]
      BY <1>3, QuietSetsNext DEF Mid
    <3>2. R2 \subseteq Thread
      BY <2>7, <2>9
    <3>3. Rdy' = R2 /\ Slp' = S /\ Ext' = E
      BY <3>1, <2>7, <2>9, <2>13, <1>1
    <3>4. \A u \in Thread : Lvl'[u] = at2[u]
      BY <3>1, <2>7, <2>10, <2>13
    <3> QED BY <3>2, <3>3, <3>4
  <2>15. Held(s, Rdy, Slp, Ext, Lvl, Priority)'
    <3>1. SleepHolds(s', S, pri) /\ DefunctHolds(s', E) /\ s'.fault = "none" /\ s'.timeout = <<>>
      BY <2>6, <2>12 DEF Held, SleepHolds, DefunctHolds
    <3>2. ReadyHolds(s', R2, at2)
      BY <2>9, <2>11
    <3>3. Held(s', R2, S, E, at2, Priority)
      BY <3>1, <3>2, <2>5 DEF Held
    <3> QED BY <3>3, <1>1, <2>14, HeldNext
  <2>16. s.current # t
    BY <1>1, SchedulerListAssumption DEF IInv, Frames
  <2>17. Lead(s, 1)'
    <3> SUFFICES ASSUME NEW o \in Prio, Len(s'.ready[o]) > 1, Head(s'.ready[o]) = s'.current,
                        o = Priority[s'.current]
                 PROVE  s'.slice[s'.current] > 1
      BY <1>1 DEF Lead, Priority
    <3>1. CASE o # p
      <4>1. s'.ready[o] = s.ready[o] /\ s'.current = s.current
        BY <3>1, <2>4, <2>9, <2>11, <2>12
      <4>2. s.slice[s.current] > 1
        BY <4>1 DEF IInv, Lead
      <4>3. s.current \in Thread
        <5>1. PICK l : l = s.ready[o]
          OBVIOUS
        <5>2. l \in Seq(Thread) /\ Len(l) > 1 /\ Head(l) = s.current
          BY <5>1, <4>1, <1>2
        <5> QED BY <5>2
      <4> QED BY <4>1, <4>2, <4>3, <2>13, <2>16
    <3>2. CASE o = p
      <4>1. PICK l : l = s.ready[p]
        OBVIOUS
      <4>2. l \in Seq(Thread) /\ Len(Append(l, t)) > 1 /\ Head(Append(l, t)) = s.current
        BY <3>2, <4>1, <1>2, <2>3, <2>4, <2>9, <2>11, <2>12 DEF PushBack
      <4>3. s.current \in Thread /\ s.current # NoThread
        BY <4>2, SchedulerListAssumption
      <4>4. phase = "on"
        BY <4>3 DEF IInv, Frames
      <4>5. t \in prog.LateThread
        BY <4>4, <1>1
      <4>6. Priority[t] # Priority[s.current]
        BY <4>3, <4>5, <1>2, <2>16 DEF OwnPlaces, Priority
      <4> QED BY <4>6, <3>2, <2>1, <2>12
    <3> QED BY <3>1, <3>2
  <2>18. Frames' /\ stack' \in Seq(FrameT)
    <3>1. s.current \in Thread /\ s.status[s.current] # "none" => s'.status[s.current] # "none"
      BY <2>13, <2>16
    <3> QED BY <3>1, <1>1, <2>12, StandFast
  <2>19. ASSUME NEW u \in Thread PROVE StatusOk(u)'
    <3>1. StatusOk(u)
      BY DEF IInv
    <3>2. CASE u = t
      <4>1. s'.status[t] = "ready" /\ s'.prio[t] = Priority[t] /\ s'.slice[t] = SliceMax(t)
        BY <2>1, <2>13
      <4> QED BY <4>1, <3>2, <2>3, <1>1 DEF StatusOk, Priority, SliceMax
    <3>3. CASE u # t
      BY <3>1, <3>3, <2>13, <1>1 DEF StatusOk, Priority, SliceMax
    <3> QED BY <3>2, <3>3
  <2>20. PcOk'
    BY <1>3 DEF PcOk
  <2>21. Types'
    BY <1>1, <2>12, <2>18 DEF IInv, Types
  <2> QED BY <2>15, <2>17, <2>18, <2>19, <2>20, <2>21 DEF IInv
<1> QED BY <1>4, <1>5

(* The interrupt's own frame goes on top of that of the first thread. *)
LEMMA InterruptEnters ==
    ASSUME IInv, ~isr, phase = "on", isr', phase' = phase, NEW t \in Thread, s'.current = t,
           s'.status[t] # "none", stack' = Append(stack, [Frame(t) EXCEPT !.root = TRUE])
    PROVE  Frames' /\ stack' \in Seq(FrameT) /\ Pc' = "body"
<1>1. stack \in Seq(FrameT) /\ Frames
  BY DEF IInv, Types
<1>2. PICK f : f = [Frame(t) EXCEPT !.root = TRUE]
  OBVIOUS
<1>3. f \in FrameT /\ f.owner = t /\ f.pc = "body" /\ f.root
  BY <1>2, FrameFacts
<1>4. /\ stack' \in Seq(FrameT) /\ Len(stack') = Len(stack) + 1 /\ Len(stack) \in Nat
      /\ stack'[Len(stack')] = f /\ \A i \in 1..Len(stack) : stack'[i] = stack[i]
  BY <1>1, <1>2, <1>3, PushFrameFacts
<1>5. Len(stack) <= 1 /\ \A i \in 1..Len(stack) : stack[i].pc = "body" /\ ~stack[i].root
  BY <1>1 DEF Frames
<1>6. PICK k : k = Len(stack')
  OBVIOUS
<1>7. k \in 1..2 /\ k \in 1..Len(stack') /\ \A i \in 1..Len(stack') : i = k \/ (i \in 1..Len(stack) /\ i < k)
  BY <1>4, <1>5, <1>6
<1>8. Rooted(k)'
  <2>1. \A i \in 1..Len(stack') : /\ stack'[i].root <=> i = k
                                  /\ i >= k => stack'[i].owner = s'.current
                                  /\ i # Len(stack') => stack'[i].pc = "body"
    <3> TAKE i \in 1..Len(stack')
    <3>1. CASE i = k
      <4>1. stack'[i] = f /\ i = Len(stack')
        BY <3>1, <1>4, <1>6
      <4> QED BY <4>1, <3>1, <1>3
    <3>2. CASE i \in 1..Len(stack) /\ i < k
      <4>1. stack'[i].pc = "body" /\ ~stack'[i].root
        BY <3>2, <1>4, <1>5
      <4>2. ~(i >= k) /\ i # k
        BY <3>2, <1>7
      <4> QED BY <4>1, <4>2
    <3> QED BY <3>1, <3>2, <1>7
  <2> QED BY <2>1, <1>7 DEF Rooted
<1>9. Frames'
  BY <1>7, <1>8 DEF Frames
<1> QED BY <1>3, <1>4, <1>9 DEF Pc, Top

(* SysTick_Handler. *)
LEMMA SysTickKeeps ==
    ASSUME IInv, Sound, SysTick
    PROVE  /\ IInv'
           /\ isr' => \A t \in Thread : s'.status[t] = "ready" => s'.prio[s'.current] <= s'.prio[t]
           /\ \A t \in Thread : s.status[t] = "sleep" /\ s.ticks[t] > 0 =>
                 /\ s'.ticks[t] = s.ticks[t] - 1
                 /\ s'.status[t] = IF s.ticks[t] = 1 THEN "ready" ELSE "sleep"
<1>1. PICK a, b, x : /\ a = CountSlice(CountDown(s)) /\ b = RestorePriority(a) /\ x = WakeTimedOut(b)
                     /\ IF x.fault = "none" /\ CanPick(x)
                        THEN \E r \in {Pick(x)} :
                               /\ s' = r
                               /\ IF r.fault = "none"
                                  THEN isr' = TRUE /\ stack' = Append(stack, [Frame(r.current) EXCEPT !.root = TRUE])
                                  ELSE UNCHANGED <<isr, stack>>
                        ELSE s' = x /\ UNCHANGED <<isr, stack>>
  BY DEF SysTick
<1>2. phase = "on" /\ ~isr /\ phase' = phase /\ prog' = prog
  BY DEF SysTick
<1>3. /\ prog \in Program /\ OwnPlaces(prog) /\ s \in State /\ Priority \in [Thread -> Nat]
      /\ prog.Boost \in [Thread -> Nat]
      /\ s.prio \in [Thread -> Nat] /\ s.status \in [Thread -> Status] /\ s.ticks \in [Thread -> Nat]
  BY InvFacts
<1>4. Pc = "body" /\ s.current \in Thread /\ s.status[s.current] # "none"
  BY <1>2 DEF Pc, IInv, Frames
<1>5. PICK R, S, E, at, pri : R = Rdy /\ S = Slp /\ E = Ext /\ at = Lvl /\ pri = Priority
  OBVIOUS
<1>6. Held(s, R, S, E, at, pri) /\ Lead(s, 1)
  BY <1>5 DEF IInv
<1>7. /\ R = {u \in Thread : s.status[u] = "ready"} /\ S = {u \in Thread : s.status[u] = "sleep"}
      /\ E = {u \in Thread : s.status[u] = "exit"} /\ at = [u \in Thread |-> s.prio[u]]
  BY <1>4, <1>5, QuietSets DEF Mid
<1>8. PICK D : D = DueOf(s, S)
  OBVIOUS
<1>9. D = {t \in S : s.ticks[t] = 1} /\ D \subseteq S /\ D \subseteq Thread /\ R \subseteq Thread
  BY <1>7, <1>8 DEF DueOf
<1>10. /\ x \in State /\ x.timeout = <<>> /\ x.defunct = s.defunct
       /\ x.current = s.current /\ x.fault = s.fault
       /\ \A t \in Thread : x.ticks[t] = IF t \in S /\ s.ticks[t] > 0 THEN s.ticks[t] - 1 ELSE s.ticks[t]
       /\ \A t \in Thread : x.status[t] = IF t \in D THEN "ready" ELSE s.status[t]
       /\ \A t \in Thread : x.prio[t] = IF t \in D THEN Boosted(t)
                                        ELSE IF t = s.current THEN Priority[t] ELSE s.prio[t]
       /\ ReadyHolds(x, R \cup D, x.prio) /\ SleepHolds(x, S \ D, Priority) /\ Fresh(x)
  <2>1. ASSUME NEW t \in S PROVE MayWake(s, t)
    <3>1. StatusOk(t) /\ s.status[t] = "sleep" /\ t \in Thread
      BY <1>7 DEF IInv
    <3>2. Priority[t] \in Prio
      BY <3>1, <1>3, PrioFacts DEF StatusOk
    <3> QED BY <3>1, <3>2 DEF StatusOk, MayWake
  <2>2. s.current \in R => Priority[s.current] \in Prio
    <3>1. StatusOk(s.current)
      BY <1>4 DEF IInv
    <3>2. Priority[s.current] \in Nat
      BY <1>3, <1>4
    <3> QED BY <3>1, <3>2, <1>4, PrioFacts DEF StatusOk
  <2>3. ReadyHolds(s, R, s.prio)
    <3>1. ReadyHolds(s, R, at)
      BY <1>6 DEF Held
    <3>2. PICK at2 : at2 = s.prio
      OBVIOUS
    <3>3. \A t \in R : at2[t] = at[t]
      BY <3>2, <1>7, <1>9
    <3>4. ReadyHolds(s, R, at2)
      BY <3>1, <3>3, ReadySame
    <3> QED BY <3>2, <3>4
  <2>4. SleepHolds(s, S, Priority) /\ s.timeout = <<>>
    BY <1>5, <1>6 DEF Held
  <2>5. R \cap S = {}
    BY <1>7
  <2>6. \A t \in S : MayWake(s, t)
    BY <2>1
  <2>7. PICK q : q = s
    OBVIOUS
  <2>8. /\ q \in State /\ ReadyHolds(q, R, q.prio) /\ SleepHolds(q, S, Priority) /\ q.timeout = <<>>
        /\ \A t \in S : MayWake(q, t)
        /\ q.current \in Thread /\ (q.current \in R => Priority[q.current] \in Prio) /\ Lead(q, 1)
        /\ a = CountSlice(CountDown(q)) /\ D = DueOf(q, S)
    BY <2>2, <2>3, <2>4, <2>6, <2>7, <1>1, <1>3, <1>4, <1>6, <1>8
  <2>9. /\ b = RestorePriority(a) /\ x = WakeTimedOut(b) /\ prog \in Program /\ OwnPlaces(prog)
        /\ R \cap S = {}
    BY <2>5, <1>1, <1>3
  <2>10. Ticked(x, q, R, S, D)
    BY <2>8, <2>9, Ticks
  <2> QED BY <2>7, <2>10 DEF Ticked
<1>11. x.fault = "none"
  BY <1>6, <1>10 DEF Held
<1>12. PICK R2, S2 : R2 = R \cup D /\ S2 = S \ D
  OBVIOUS
<1>13. ReadyHolds(x, R2, x.prio) /\ SleepHolds(x, S2, Priority)
  BY <1>10, <1>12
<1>14. CanPick(x) <=> R2 # {}
  <2>1. PICK l : l = x.prio
    OBVIOUS
  <2>2. ReadyHolds(x, R2, l)
    BY <2>1, <1>13
  <2> QED BY <2>2, <1>10, CanPickIs
<1>15. /\ s' \in State
       /\ s'.timeout = <<>> /\ s'.defunct = s.defunct /\ s'.fault = "none"
       /\ s'.ticks = x.ticks /\ s'.status = x.status /\ s'.prio = x.prio
       /\ ReadyHolds(s', R2, s'.prio) /\ SleepHolds(s', S2, Priority) /\ Lead(s', 1)
       /\ Frames' /\ stack' \in Seq(FrameT) /\ isr' \in BOOLEAN /\ Pc' = "body"
       /\ isr' => \A t \in R2 : s'.prio[s'.current] <= s'.prio[t]
  <2>1. CASE R2 # {}
    <3>1. PICK r : r = Pick(x)
      OBVIOUS
    <3>2. Picked(r, x, R2)
      <4>1. x \in State /\ ReadyHolds(x, R2, x.prio) /\ Fresh(x)
        BY <1>10, <1>13
      <4> QED BY <4>1, <2>1, <3>1, <1>3, Picks
    <3>8. /\ r \in State /\ r.current \in R2
          /\ r.sleep = x.sleep /\ r.sbm = x.sbm /\ r.timeout = x.timeout /\ r.defunct = x.defunct
          /\ r.prio = x.prio /\ r.ticks = x.ticks /\ r.status = x.status /\ r.fault = x.fault
          /\ ReadyHolds(r, R2, r.prio) /\ Settled(r)
          /\ \A t \in R2 : r.prio[r.current] <= r.prio[t]
      BY <3>2 DEF Picked
    <3>3. s' = r /\ isr' = TRUE /\ stack' = Append(stack, [Frame(r.current) EXCEPT !.root = TRUE])
      BY <2>1, <3>1, <3>8, <1>1, <1>11, <1>14
    <3>4. r.current \in Thread /\ s'.status[r.current] # "none"
      <4>1. r.current \in Thread
        BY <3>8, <1>9, <1>12
      <4>2. x.status[r.current] = "ready"
        BY <4>1, <3>8, <1>7, <1>10, <1>12
      <4> QED BY <4>1, <4>2, <3>8, <3>3
    <3>5. Frames' /\ stack' \in Seq(FrameT) /\ Pc' = "body"
      <4>1. PICK t : t = r.current
        OBVIOUS
      <4> QED BY <4>1, <3>3, <3>4, <1>2, InterruptEnters
    <3>6. SleepHolds(r, S2, Priority)
      <4>1. SleepHolds(r, S2, pri)
        BY <3>8, <1>5, <1>13, SleepSame
      <4> QED BY <4>1, <1>5
    <3>7. Lead(r, 1)
      BY <3>8 DEF Settled, Lead
    <3> QED BY <3>8, <3>3, <3>5, <3>6, <3>7, <1>10, <1>11
  <2>2. CASE R2 = {}
    <3>1. s' = x /\ isr' = isr /\ stack' = stack
      BY <2>2, <1>1, <1>14
    <3>2. s.current \in Thread /\ s.status[s.current] # "none" => s'.status[s.current] # "none"
      BY <3>1, <1>10
    <3>3. Frames' /\ stack' \in Seq(FrameT) /\ isr' \in BOOLEAN
      BY <3>1, <3>2, <1>2, <1>10, StandFast
    <3>4. Lead(x, 1)
      <4>1. PICK l : l = x.prio
        OBVIOUS
      <4>2. ReadyHolds(x, R2, l) /\ x.current \notin R2
        BY <4>1, <2>2, <1>13
      <4> QED BY <4>2, <1>10, NoLead
    <3>5. ~isr' /\ Pc' = "body"
      BY <3>1, <1>2 DEF Pc
    <3> QED BY <3>1, <3>3, <3>4, <3>5, <1>10, <1>11, <1>13
  <2> QED BY <2>1, <2>2
<1>16. /\ \A t \in Thread : s'.status[t] = IF t \in D THEN "ready" ELSE s.status[t]
       /\ \A t \in Thread : s'.prio[t] = IF t \in D THEN Boosted(t)
                                         ELSE IF t = s.current THEN Priority[t] ELSE s.prio[t]
       /\ \A t \in Thread : s'.ticks[t] = IF t \in S /\ s.ticks[t] > 0 THEN s.ticks[t] - 1 ELSE s.ticks[t]
  BY <1>10, <1>15
<1>17. /\ R2 = {u \in Thread : s'.status[u] = "ready"} /\ S2 = {u \in Thread : s'.status[u] = "sleep"}
       /\ E = {u \in Thread : s'.status[u] = "exit"}
  BY <1>7, <1>9, <1>12, <1>16
<1>18. /\ Rdy' = R2 /\ Slp' = S2 /\ Ext' = E /\ \A t \in R2 : Lvl'[t] = s'.prio[t]
  <2>1. /\ Rdy' = {t \in Thread : s'.status[t] = "ready"}
        /\ Slp' = {t \in Thread : s'.status[t] = "sleep"}
        /\ Ext' = {t \in Thread : s'.status[t] = "exit"}
        /\ Lvl' = [t \in Thread |-> s'.prio[t]]
    BY <1>15, QuietSetsNext DEF Mid
  <2>2. \A t \in Thread : Lvl'[t] = s'.prio[t]
    BY <2>1
  <2> QED BY <2>1, <2>2, <1>17
<1>19. Held(s, Rdy, Slp, Ext, Lvl, Priority)'
  <2>1. PICK l : l = s'.prio
    OBVIOUS
  <2>2. DefunctHolds(s', E)
    BY <1>6, <1>15 DEF Held, DefunctHolds
  <2>3. Held(s', R2, S2, E, l, Priority)
    BY <2>1, <2>2, <1>15 DEF Held
  <2>4. \A t \in R2 : Lvl'[t] = l[t]
    BY <2>1, <1>18
  <2> QED BY <2>3, <2>4, <1>2, <1>18, HeldNext
<1>20. Lead(s, 1)'
  BY <1>2, <1>15 DEF Lead, Priority
<1>21. ASSUME NEW t \in Thread PROVE StatusOk(t)'
  <2>1. StatusOk(t)
    BY DEF IInv
  <2>2. phase' # "boot"
    BY <1>2
  <2>3. CASE t \in D
    <3>1. s.status[t] = "sleep"
      BY <2>3, <1>7, <1>9
    <3> QED BY <2>1, <2>2, <2>3, <3>1, <1>2, <1>16 DEF StatusOk, Priority
  <2>4. CASE t \notin D
    BY <2>1, <2>2, <2>4, <1>2, <1>16 DEF StatusOk, Priority
  <2> QED BY <2>3, <2>4
<1>22. PcOk'
  BY <1>15 DEF PcOk
<1>23. Types'
  BY <1>2, <1>15 DEF IInv, Types
<1>24. IInv'
  BY <1>15, <1>19, <1>20, <1>21, <1>22, <1>23 DEF IInv
<1>25. isr' => \A t \in Thread : s'.status[t] = "ready" => s'.prio[s'.current] <= s'.prio[t]
  BY <1>15, <1>17
<1>26. ASSUME NEW t \in Thread, s.status[t] = "sleep", s.ticks[t] > 0
       PROVE  /\ s'.ticks[t] = s.ticks[t] - 1
              /\ s'.status[t] = IF s.ticks[t] = 1 THEN "ready" ELSE "sleep"
  BY <1>7, <1>9, <1>16, <1>26
<1> QED BY <1>24, <1>25, <1>26

LEMMA SchedulerStartKeeps ==
    ASSUME IInv, Sound, SchedulerStart
    PROVE  IInv'
<1>1. phase = "boot" /\ isr' = isr /\ prog' = prog
  BY DEF SchedulerStart
<1>2. /\ prog \in Program /\ OwnPlaces(prog) /\ s \in State /\ Priority \in [Thread -> Nat]
      /\ s.status \in [Thread -> Status] /\ s.slice \in [Thread -> Nat] /\ s.ready \in [Prio -> Seq(Thread)]
  BY InvFacts
<1>3. ~isr /\ stack = <<>> /\ s.current = NoThread /\ Pc = "body" /\ Pc' = "body" /\ ~isr'
  BY <1>1 DEF IInv, Frames, Pc
<1>4. CASE CanPick(s)
  <2>1. PICK f : f = Head(s.ready[Min(s.rbm)])
    OBVIOUS
  <2>2. s' = [s EXCEPT !.current = f] /\ stack' = <<Frame(f)>> /\ phase' = "on"
    BY <2>1, <1>4 DEF SchedulerStart
  <2>3. PICK R, S, E, at, pri : R = Rdy /\ S = Slp /\ E = Ext /\ at = Lvl /\ pri = Priority
    OBVIOUS
  <2>4. Held(s, R, S, E, at, pri)
    BY <2>3 DEF IInv
  <2>5. R = {u \in Thread : s.status[u] = "ready"} /\ at = [u \in Thread |-> s.prio[u]]
    BY <1>3, <2>3, QuietSets DEF Mid
  <2>6. f \in R
    <3>1. ReadyHolds(s, R, at)
      BY <2>4 DEF Held
    <3> QED BY <3>1, <2>1, <1>2, <1>4, CanPickIs
  <2>7. f \in Thread /\ s.status[f] = "ready"
    BY <2>5, <2>6
  <2>8. /\ s' \in State /\ s'.current = f
        /\ s'.ready = s.ready /\ s'.rbm = s.rbm /\ s'.timeout = s.timeout /\ s'.defunct = s.defunct
        /\ s'.sleep = s.sleep /\ s'.sbm = s.sbm /\ s'.prio = s.prio /\ s'.slice = s.slice
        /\ s'.status = s.status /\ s'.fault = s.fault
    BY <1>2, <2>2, <2>7 DEF State
  <2>9. Rdy' = R /\ Slp' = S /\ Ext' = E /\ \A t \in R : Lvl'[t] = at[t]
    <3>1. /\ Rdy = {t \in Thread : s.status[t] = "ready"}
          /\ Slp = {t \in Thread : s.status[t] = "sleep"}
          /\ Ext = {t \in Thread : s.status[t] = "exit"}
          /\ Lvl = [t \in Thread |-> s.prio[t]]
      BY <1>3, QuietSets DEF Mid
    <3>2. /\ Rdy' = {t \in Thread : s'.status[t] = "ready"}
          /\ Slp' = {t \in Thread : s'.status[t] = "sleep"}
          /\ Ext' = {t \in Thread : s'.status[t] = "exit"}
          /\ Lvl' = [t \in Thread |-> s'.prio[t]]
      BY <1>3, QuietSetsNext DEF Mid
    <3> QED BY <3>1, <3>2, <2>3, <2>8
  <2>10. Held(s, Rdy, Slp, Ext, Lvl, Priority)'
    <3>1. Held(s', R, S, E, at, pri)
      BY <2>4, <2>8 DEF Held, ReadyHolds, SleepHolds, DefunctHolds
    <3>2. Held(s', R, S, E, at, Priority)
      BY <3>1, <2>3
    <3> QED BY <3>2, <1>1, <2>9, HeldNext
  <2>11. Lead(s, 1)'
    <3> SUFFICES ASSUME NEW p \in Prio, Len(s'.ready[p]) > 1, Head(s'.ready[p]) = s'.current,
                        p = Priority[s'.current]
                 PROVE  s'.slice[s'.current] > 1
      BY <1>1 DEF Lead, Priority
    <3>1. PICK l : l = s.ready[p]
      OBVIOUS
    <3>2. l \in Seq(Thread) /\ Len(l) > 1 /\ l[1] = f /\ IsOnce(l) /\ p = Priority[f]
      BY <3>1, <1>2, <2>4, <2>8 DEF Held, ReadyHolds
    <3>3. PICK u : u = l[2]
      OBVIOUS
    <3>4. u \in Elems(l) /\ u # f /\ u \in Thread
      <4>1. 1 \in DOMAIN l /\ 2 \in DOMAIN l /\ l[2] \in Thread
        BY <3>2
      <4> QED BY <4>1, <3>2, <3>3 DEF Elems, IsOnce
    <3>5. u \in R /\ at[u] = p
      BY <3>1, <3>4, <2>4 DEF Held, ReadyHolds
    <3>6. StatusOk(u) /\ StatusOk(f)
      BY <2>7, <3>4 DEF IInv
    <3>7. Priority[u] = p /\ s.slice[f] = SliceMax(f)
      BY <3>4, <3>5, <3>6, <1>1, <2>5, <2>7 DEF StatusOk
    <3>8. ~(prog.Slice[f] = 1 \/ (prog.Slice[f] = 0 /\ DefaultSlice = 1))
      BY <3>2, <3>4, <3>7, <1>2, <2>7 DEF OwnPlaces, Priority
    <3>9. prog.Slice[f] \in Nat /\ DefaultSlice \in Nat \ {0}
      BY <1>2, <2>7, SchedulerListAssumption DEF Program
    <3>10. SliceMax(f) > 1
      BY <3>8, <3>9 DEF SliceMax
    <3> QED BY <3>7, <3>10, <2>8
  <2>12. Frames' /\ stack' \in Seq(FrameT)
    <3>1. PICK g : g = Frame(f)
      OBVIOUS
    <3>2. g \in FrameT /\ g.pc = "body" /\ ~g.root
      BY <3>1, <2>7, FrameFacts
    <3>3. stack' = <<g>>
      BY <3>1, <2>2
    <3>4. stack' \in Seq(FrameT) /\ Len(stack') = 1 /\ \A i \in 1..Len(stack') : stack'[i] = g
      BY <3>2, <3>3
    <3> QED BY <3>2, <3>4, <1>3, <2>2, <2>7, <2>8 DEF Frames
  <2>13. \A t \in Thread : StatusOk(t)'
    BY <1>1, <2>2, <2>8 DEF IInv, StatusOk, Priority
  <2>14. PcOk'
    BY <1>3 DEF PcOk
  <2>15. Types'
    BY <1>1, <2>2, <2>8, <2>12 DEF IInv, Types
  <2> QED BY <2>10, <2>11, <2>12, <2>13, <2>14, <2>15 DEF IInv
<1>5. CASE ~CanPick(s)
  <2>1. phase' = "halted" /\ s' = s /\ stack' = stack
    BY <1>5 DEF SchedulerStart
  <2>2. Frames'
    BY <2>1, <1>3 DEF Frames
  <2>3. Types'
    BY <2>1, <1>1 DEF IInv, Types
  <2>4. Lead(s, 1)' /\ PcOk'
    BY <2>1, <1>1, <1>3 DEF IInv, Lead, Priority, PcOk
  <2>5. \A t \in Thread : StatusOk(t)'
    BY <2>1, <1>1 DEF IInv, StatusOk, Priority
  <2>6. Held(s, Rdy, Slp, Ext, Lvl, Priority)'
    <3>1. Rdy' = Rdy /\ Slp' = Slp /\ Ext' = Ext /\ Lvl' = Lvl
      BY <1>3, <2>1, QuietSets, QuietSetsNext DEF Mid
    <3>2. PICK R, S, E, at, pri : R = Rdy /\ S = Slp /\ E = Ext /\ at = Lvl /\ pri = Priority
      OBVIOUS
    <3>3. Held(s', R, S, E, at, pri)
      BY <3>2, <2>1 DEF IInv
    <3>4. Held(s', R, S, E, at, Priority)
      BY <3>2, <3>3
    <3>5. Rdy' = R /\ Slp' = S /\ Ext' = E /\ \A t \in R : Lvl'[t] = at[t]
      BY <3>1, <3>2
    <3> QED BY <3>4, <3>5, <1>1, HeldNext
  <2> QED BY <2>2, <2>3, <2>4, <2>5, <2>6 DEF IInv
<1> QED BY <1>4, <1>5

-----------------------------------------------------------------------------
(* scheduler_init, and every step. *)
LEMMA InitHolds ==
    ASSUME Init
    PROVE  IInv
<1>1. /\ prog \in Programs /\ stack = <<>> /\ isr = FALSE /\ phase = "boot"
      /\ s = [ready   |-> [p \in Prio |-> <<>>],   rbm |-> {},
              sleep   |-> [p \in Prio |-> <<>>],   sbm |-> {},
              timeout |-> <<>>, defunct |-> <<>>,
              prio    |-> Priority, ticks |-> [t \in Thread |-> 0],
              slice   |-> [t \in Thread |-> 0],
              status  |-> [t \in Thread |-> "none"],
              current |-> NoThread, fault |-> "none"]
  BY DEF Init
<1>2. prog \in Program
  BY <1>1, SchedulerListAssumption
<1>3. Priority \in [Thread -> Nat]
  BY <1>2 DEF Program, Priority
<1>4. s \in State
  <2>1. [t \in Thread |-> "none"] \in [Thread -> Status] /\ <<>> \in Seq(Thread)
    BY DEF Status
  <2> QED BY <1>1, <1>3, <2>1 DEF State
<1>5. Types
  <2>1. prog \in Programs /\ stack \in Seq(FrameT) /\ isr \in BOOLEAN /\ phase \in {"boot", "on", "halted"}
    <3>1. stack = <<>> /\ <<>> \in Seq(FrameT)
      <4> HIDE DEF FrameT
      <4> QED BY <1>1
    <3>2. prog \in Programs /\ isr = FALSE /\ phase = "boot"
      BY <1>1
    <3> QED BY <3>1, <3>2
  <2> QED BY <1>4, <2>1 DEF Types
<1>6. Pc = "body"
  BY <1>1 DEF Pc
<1>7. Rdy = {} /\ Slp = {} /\ Ext = {}
  <2>1. \A t \in Thread : s.status[t] = "none"
    BY <1>1
  <2> QED BY <1>6, <2>1, QuietSets DEF Mid
<1>8. Held(s, Rdy, Slp, Ext, Lvl, Priority)
  <2>1. PICK e, at, pri : e = {} /\ at = Lvl /\ pri = Priority
    OBVIOUS
  <2>2. IsOnce(<<>>) /\ Elems(<<>>) = {}
    BY DEF IsOnce, Elems
  <2>3. ReadyHolds(s, e, at)
    BY <1>1, <2>1, <2>2 DEF ReadyHolds
  <2>4. SleepHolds(s, e, pri)
    BY <1>1, <2>1, <2>2 DEF SleepHolds
  <2>5. DefunctHolds(s, e)
    BY <1>1, <2>1, <2>2 DEF DefunctHolds
  <2>6. Held(s, e, e, e, at, pri)
    BY <1>1, <2>3, <2>4, <2>5 DEF Held
  <2> QED BY <2>1, <2>6, <1>7
<1>9. Lead(s, 1)
  BY <1>1 DEF Lead
<1>10. Frames
  BY <1>1 DEF Frames
<1>11. \A t \in Thread : StatusOk(t)
  BY <1>1 DEF StatusOk
<1>12. PcOk
  BY <1>6 DEF PcOk
<1> QED BY <1>5, <1>8, <1>9, <1>10, <1>11, <1>12 DEF IInv

LEMMA StepKeeps ==
    ASSUME IInv, Sound, [Next]_vars
    PROVE  IInv'
<1>1. CASE UNCHANGED vars
  <2>1. s' = s /\ stack' = stack /\ isr' = isr /\ prog' = prog /\ phase' = phase
    BY <1>1 DEF vars
  <2> QED BY <2>1 DEF IInv, Types, Held, ReadyHolds, SleepHolds, DefunctHolds, Lead, Frames, Rooted,
                      StatusOk, PcOk, Rdy, Slp, Ext, Lvl, At, Pc, Top, Priority, SliceMax
<1>2. ASSUME NEW t \in Thread, ThreadCreate(t) PROVE IInv'
  BY <1>2, ThreadCreateKeeps
<1>3. CASE SchedulerStart
  BY <1>3, SchedulerStartKeeps
<1>4. CASE SysTick
  BY <1>4, SysTickKeeps
<1>5. ASSUME NEW n \in SleepArg, CallSleep(n) PROVE IInv'
  BY <1>5, CallSleepKeeps
<1>6. CASE CallExit
  BY <1>6, CallExitKeeps
<1>7. CASE Return
  BY <1>7, ReturnKeeps
<1>8. CASE SleepMark
  BY <1>8, SleepMarkKeeps
<1>9. CASE SleepUnlink
  BY <1>9, SleepUnlinkKeeps
<1>10. CASE SleepLink
  BY <1>10, SleepLinkKeeps
<1>11. CASE ExitMark
  BY <1>11, ExitMarkKeeps
<1>12. CASE ExitUnlink
  BY <1>12, ExitUnlinkKeeps
<1>13. CASE ExitLink
  BY <1>13, ExitLinkKeeps
<1>14. CASE CallFunc
  BY <1>14, CallFuncKeeps
<1>15. CASE Halted
  BY <1>1, <1>15 DEF Halted
<1> QED BY <1>1, <1>2, <1>3, <1>4, <1>5, <1>6, <1>7, <1>8, <1>9, <1>10, <1>11, <1>12, <1>13, <1>14, <1>15
        DEF Next, Step

LEMMA Invariance ==
    ASSUME Sound
    PROVE  Spec => []IInv
<1>1. Init => IInv
  BY InitHolds
<1>2. IInv /\ [Next]_vars => IInv'
  BY StepKeeps
<1> QED BY <1>1, <1>2, PTL DEF Spec

-----------------------------------------------------------------------------
(* Only SysTick raises the interrupt. *)
LEMMA Raised ==
    ASSUME [Next]_vars, isr', ~isr
    PROVE  SysTick
<1>1. CASE UNCHANGED vars
  BY <1>1 DEF vars
<1>2. ASSUME NEW t \in Thread PROVE ~ThreadCreate(t)
  BY DEF ThreadCreate
<1>3. ~SchedulerStart /\ ~Halted
  BY DEF SchedulerStart, Halted, vars
<1>4. ASSUME NEW n \in SleepArg PROVE ~CallSleep(n)
  BY DEF CallSleep
<1>5. ~CallExit /\ ~Return /\ ~SleepMark /\ ~SleepUnlink /\ ~SleepLink
      /\ ~ExitMark /\ ~ExitUnlink /\ ~ExitLink /\ ~CallFunc
  BY DEF CallExit, Return, SleepMark, SleepUnlink, SleepLink, ExitMark, ExitUnlink, ExitLink, CallFunc
<1> QED BY <1>1, <1>2, <1>3, <1>4, <1>5 DEF Next, Step

(* A thread is in the list that its status names, and in no other, and the   *)
(* bitmaps have exactly the bits of the lists that are not empty.             *)
THEOREM StatusAndListsAgree ==
    ASSUME Sound
    PROVE  Spec => []ListsAgree
<1>1. IInv => ListsAgree
  <2> SUFFICES ASSUME IInv PROVE ListsAgree
    OBVIOUS
  <2>1. Held(s, Rdy, Slp, Ext, Lvl, Priority)
    BY DEF IInv
  <2>2. BitmapsExact
    BY <2>1 DEF BitmapsExact, Held, ReadyHolds, SleepHolds
  <2>3. ASSUME ~InCall PROVE Pc \notin Mid
    <3>1. CASE isr
      <4>1. PICK k \in 1..2 : Rooted(k)
        BY <3>1 DEF IInv, Frames
      <4>2. stack \in Seq(FrameT) /\ k \in 1..Len(stack)
        BY <4>1 DEF IInv, Types, Rooted
      <4>3. Len(stack) \in DOMAIN stack
        BY <4>2
      <4> QED BY <3>1, <4>3, <2>3 DEF InCall, Pc, Top, Mid
    <3>2. CASE ~isr
      BY <3>2 DEF Pc, Mid
    <3>3. isr \in BOOLEAN
      BY DEF IInv, Types
    <3> QED BY <3>1, <3>2, <3>3
  <2>4. ASSUME ~InCall
        PROVE  /\ s.timeout = <<>>
               /\ \A t \in Thread, p \in Prio :
                     /\ t \in Elems(s.ready[p]) <=> (s.status[t] = "ready" /\ p = s.prio[t])
                     /\ t \in Elems(s.sleep[p]) <=> (s.status[t] = "sleep" /\ p = Priority[t])
               /\ \A t \in Thread : t \in Elems(s.defunct) <=> s.status[t] = "exit"
    <3>1. /\ Rdy = {t \in Thread : s.status[t] = "ready"}
          /\ Slp = {t \in Thread : s.status[t] = "sleep"}
          /\ Ext = {t \in Thread : s.status[t] = "exit"}
          /\ Lvl = [t \in Thread |-> s.prio[t]]
      BY <2>3, <2>4, QuietSets
    <3>2. \A t \in Thread, p \in Prio : t \in Elems(s.ready[p]) <=> (t \in Rdy /\ Lvl[t] = p)
      BY <2>1 DEF Held, ReadyHolds
    <3>3. \A t \in Thread, p \in Prio : t \in Elems(s.sleep[p]) <=> (t \in Slp /\ Priority[t] = p)
      BY <2>1 DEF Held, SleepHolds
    <3>4. s.timeout = <<>> /\ Elems(s.defunct) = Ext
      BY <2>1 DEF Held, DefunctHolds
    <3> QED BY <3>1, <3>2, <3>3, <3>4
  <2>5. StatusMatchesLists
    BY <2>4 DEF StatusMatchesLists
  <2> QED BY <2>2, <2>5 DEF ListsAgree
<1> QED BY <1>1, Invariance, PTL

(* No node is linked twice, and current_thread is never the list head that   *)
(* line 294 takes for a thread.                                              *)
THEOREM NoNodeTwice ==
    ASSUME Sound
    PROVE  Spec => []NoFault
<1>1. IInv => NoFault
  BY DEF IInv, Held, NoFault
<1> QED BY <1>1, Invariance, PTL

(* SysTick_Handler calls a thread of the highest priority that is ready.     *)
THEOREM HighestIsCalled ==
    ASSUME Sound
    PROVE  Spec => CallsHighest
<1>1. IInv /\ [Next]_vars =>
        [isr' /\ ~isr => \A t \in Thread : s'.status[t] = "ready"
                                       => s'.prio[s'.current] <= s'.prio[t]]_vars
  <2> SUFFICES ASSUME IInv, [Next]_vars, isr', ~isr, NEW t \in Thread, s'.status[t] = "ready"
               PROVE  s'.prio[s'.current] <= s'.prio[t]
    OBVIOUS
  <2>1. SysTick
    BY Raised
  <2> QED BY <2>1, SysTickKeeps
<1> QED BY <1>1, Invariance, PTL DEF Spec, CallsHighest

(* A tick takes one from every sleeper's count and wakes those whose count   *)
(* ends, and no other.                                                       *)
THEOREM EveryTickCounts ==
    ASSUME Sound
    PROVE  Spec => WakesOnTime
<1>1. IInv /\ [Next]_vars =>
        [SysTick =>
         \A t \in Thread : s.status[t] = "sleep" /\ s.ticks[t] > 0 =>
            /\ s'.ticks[t] = s.ticks[t] - 1
            /\ s'.status[t] = IF s.ticks[t] = 1 THEN "ready" ELSE "sleep"]_vars
  <2> SUFFICES ASSUME IInv, SysTick
               PROVE  \A t \in Thread : s.status[t] = "sleep" /\ s.ticks[t] > 0 =>
                        /\ s'.ticks[t] = s.ticks[t] - 1
                        /\ s'.status[t] = IF s.ticks[t] = 1 THEN "ready" ELSE "sleep"
    OBVIOUS
  <2> QED BY SysTickKeeps
<1> QED BY <1>1, Invariance, PTL DEF Spec, WakesOnTime
=============================================================================
