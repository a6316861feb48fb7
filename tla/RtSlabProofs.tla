---------------------------- MODULE RtSlabProofs ----------------------------
(***************************************************************************)
(* The slab allocator of RtHeap keeps its promises, for any number and     *)
(* size of pages: what its lists hold, who has each page (Owners), and     *)
(* that every operation keeps the account.  RtHeapProofs draws the         *)
(* theorems from it.                                                       *)
(***************************************************************************)
EXTENDS RtHeap, ListsProofs

-----------------------------------------------------------------------------
(* slab.c.  Its free pages are runs, in order, with other pages between.     *)
FreeRun == [first : 0..Pages, count : 0..Pages]

InRun(r, q) == r.first <= q /\ q < r.first + r.count
EndOf(r) == r.first + r.count

RunOk(r) == r \in FreeRun /\ r.count > 0 /\ EndOf(r) <= Pages

Ordered(L) ==
    /\ L \in Seq(FreeRun)
    /\ \A k \in DOMAIN L : RunOk(L[k])
    /\ \A j, k \in DOMAIN L : j < k => EndOf(L[j]) < L[k].first

IsFree(L, q) == \E k \in DOMAIN L : InRun(L[k], q)
Between(a, n, q) == a <= q /\ q < a + n

LEMMA SlabNats ==
    /\ PageSize \in Nat \ {0} /\ Pages \in Nat /\ UsagePages \in 1..Pages /\ ZonePages \in Nat \ {0}
    /\ ZoneHeader \in Nat /\ ZoneLimit \in Nat /\ ReleaseThresh \in Nat /\ Slab!Page = 0..(Pages - 1)
    /\ Pages # 0
<1>1. /\ PageSize \in Nat \ {0} /\ Pages \in Nat /\ UsagePages \in 1..Pages /\ ZonePages \in Nat \ {0}
      /\ ZoneHeader \in Nat /\ ReleaseThresh \in Nat
  BY SlabAssumption
<1>2. ZoneLimit \in Nat
  <2>1. ZoneLimit \in 0..16384
    BY SlabAssumption
  <2> QED BY ONLY <2>1
<1>3. Pages # 0
  BY ONLY <1>1
<1>4. Slab!Page = 0..(Pages - 1)
  BY DEF Slab!Page
<1> QED BY <1>1, <1>2, <1>3, <1>4

(* L with the runs i + 1 to i + 1 + d replaced by r (d = -1 inserts it).      *)
Spliced(M, L, i, d, r) ==
    /\ M \in Seq(FreeRun) /\ Len(M) = Len(L) - d
    /\ \A m \in 1..Len(M) : M[m] = IF m <= i THEN L[m] ELSE IF m = i + 1 THEN r ELSE L[m + d]

RunFits(L, i, d, r) ==
    /\ i > 0 => EndOf(L[i]) < r.first
    /\ i + 2 + d <= Len(L) => EndOf(r) < L[i + 2 + d].first

LEMMA SpliceOrdered ==
    ASSUME NEW L, Ordered(L), NEW i \in 0..Len(L), NEW d \in {-1, 0, 1}, i + 1 + d <= Len(L),
           NEW r, RunOk(r), RunFits(L, i, d, r), NEW M, Spliced(M, L, i, d, r)
    PROVE  Ordered(M)
<1> DEFINE n == Len(L)
<1>1. n \in Nat /\ i \in Nat /\ DOMAIN L = 1..n /\ M \in Seq(FreeRun) /\ Len(M) = n - d
      /\ DOMAIN M = 1..(n - d)
  BY DEF Ordered, Spliced
<1>2. ASSUME NEW m \in 1..(n - d)
      PROVE  /\ m <= i => m \in 1..n /\ M[m] = L[m]
             /\ m = i + 1 => M[m] = r
             /\ m > i + 1 => m + d \in 1..n /\ M[m] = L[m + d] /\ m + d >= i + 2 + d
  BY <1>1 DEF Spliced
<1> HIDE DEF n
<1>3. \A m \in 1..(n - d) : RunOk(M[m])
  <2>1. \A m \in 1..n : RunOk(L[m])
    BY <1>1 DEF Ordered
  <2>2. ASSUME NEW m \in 1..(n - d) PROVE RunOk(M[m])
    <3>1. CASE m <= i
      BY <1>2, <2>1, <3>1
    <3>2. CASE m = i + 1
      BY <1>2, <3>2
    <3>3. CASE m > i + 1
      BY <1>2, <2>1, <3>3
    <3> QED BY <1>1, <3>1, <3>2, <3>3
  <2> QED BY <2>2
<1>4. ASSUME NEW j \in 1..(n - d), NEW k \in 1..(n - d), j < k
      PROVE  EndOf(M[j]) < M[k].first
  <2>1. \A m \in 1..n : EndOf(L[m]) \in Int /\ L[m].first \in Int /\ L[m].first <= EndOf(L[m])
    <3>1. \A m \in 1..n : RunOk(L[m])
      BY <1>1 DEF Ordered
    <3> QED BY <3>1, SlabNats DEF RunOk, FreeRun, EndOf
  <2>2. EndOf(r) \in Int /\ r.first \in Int /\ r.first <= EndOf(r)
    BY SlabNats DEF RunOk, FreeRun, EndOf
  <2>3. \A u, v \in 1..n : u < v => EndOf(L[u]) < L[v].first
    BY <1>1 DEF Ordered
  <2>4. \A m \in 1..n : m <= i => EndOf(L[m]) < r.first
    <3>1. ASSUME NEW m \in 1..n, m <= i PROVE EndOf(L[m]) < r.first
      <4>1. EndOf(L[i]) < r.first /\ i \in 1..n
        BY <3>1, <1>1 DEF RunFits, n
      <4>2. CASE m = i
        BY <4>1, <4>2
      <4>3. CASE m < i
        BY <4>1, <4>3, <2>1, <2>2, <2>3
      <4> QED BY <3>1, <4>2, <4>3, <1>1
    <3> QED BY <3>1
  <2>5. \A m \in 1..n : m >= i + 2 + d => EndOf(r) < L[m].first
    <3>1. ASSUME NEW m \in 1..n, m >= i + 2 + d PROVE EndOf(r) < L[m].first
      <4>0. PICK h : h = i + 2 + d
        OBVIOUS
      <4>1. h \in 1..n /\ h <= m
        BY <4>0, <3>1, <1>1
      <4>2. EndOf(r) < L[h].first
        BY <4>0, <4>1, <1>1 DEF RunFits, n
      <4>3. CASE m = h
        BY <4>2, <4>3
      <4>4. CASE h < m
        BY <4>1, <4>2, <4>4, <2>1, <2>2, <2>3
      <4> QED BY <4>1, <4>3, <4>4
    <3> QED BY <3>1
  <2>6. CASE k <= i
    BY <1>2, <1>4, <1>1, <2>3, <2>6
  <2>7. CASE k = i + 1
    BY <1>2, <1>4, <1>1, <2>4, <2>7
  <2>8. CASE k > i + 1 /\ j = i + 1
    BY <1>2, <1>4, <1>1, <2>5, <2>8
  <2>9. CASE k > i + 1 /\ j > i + 1
    BY <1>2, <1>4, <1>1, <2>3, <2>9
  <2>10. CASE k > i + 1 /\ j <= i
    <3>1. M[j] = L[j] /\ j \in 1..n
      BY <1>2, <2>10
    <3>2. M[k] = L[k + d] /\ k + d \in 1..n /\ k + d >= i + 2 + d
      BY <1>2, <2>10
    <3>3. EndOf(L[j]) < r.first /\ EndOf(r) < L[k + d].first
      BY <2>4, <2>5, <3>1, <3>2, <2>10
    <3> QED BY <3>1, <3>2, <3>3, <2>1, <2>2
  <2> QED BY <1>1, <1>4, <2>6, <2>7, <2>8, <2>9, <2>10
<1> QED BY <1>1, <1>3, <1>4 DEF Ordered

LEMMA SpliceFree ==
    ASSUME NEW L, Ordered(L), NEW i \in 0..Len(L), NEW d \in {-1, 0, 1}, i + 1 + d <= Len(L),
           NEW r, NEW M, Spliced(M, L, i, d, r), NEW q \in Int
    PROVE  IsFree(M, q) <=> \/ InRun(r, q)
                            \/ \E k \in DOMAIN L : InRun(L[k], q) /\ (k <= i \/ k > i + 1 + d)
<1>1. PICK n : n = Len(L)
  OBVIOUS
<1>2. n \in Nat /\ i \in Nat /\ i <= n /\ DOMAIN L = 1..n /\ DOMAIN M = 1..(n - d)
  BY <1>1 DEF Ordered, Spliced
<1>3. ASSUME NEW m \in 1..(n - d)
      PROVE  /\ m <= i => m \in 1..n /\ M[m] = L[m]
             /\ m = i + 1 => M[m] = r
             /\ m > i + 1 => m + d \in 1..n /\ M[m] = L[m + d] /\ m + d > i + 1 + d
  BY <1>1, <1>2 DEF Spliced
<1>4. ASSUME NEW m \in 1..(n - d), InRun(M[m], q)
      PROVE  \/ InRun(r, q)
             \/ \E k \in DOMAIN L : InRun(L[k], q) /\ (k <= i \/ k > i + 1 + d)
  <2>1. CASE m <= i
    BY <1>2, <1>3, <1>4, <2>1
  <2>2. CASE m = i + 1
    BY <1>3, <1>4, <2>2
  <2>3. CASE m > i + 1
    BY <1>2, <1>3, <1>4, <2>3
  <2> QED BY <1>2, <2>1, <2>2, <2>3
<1>5. ASSUME InRun(r, q) PROVE IsFree(M, q)
  <2>1. i + 1 \in 1..(n - d)
    BY <1>1, <1>2
  <2>2. M[i + 1] = r
    BY <1>3, <2>1, <1>2
  <2> QED BY <1>2, <1>5, <2>1, <2>2 DEF IsFree
<1>6. ASSUME NEW k \in 1..n, InRun(L[k], q), k <= i \/ k > i + 1 + d PROVE IsFree(M, q)
  <2>1. CASE k <= i
    <3>1. k \in 1..(n - d) /\ M[k] = L[k]
      BY <1>1, <1>2, <1>3, <2>1
    <3> QED BY <1>2, <1>6, <3>1 DEF IsFree
  <2>2. CASE k > i + 1 + d
    <3>1. PICK m : m = k - d
      OBVIOUS
    <3>2. m \in 1..(n - d) /\ m > i + 1 /\ m + d = k
      BY <1>2, <3>1, <2>2
    <3>3. M[m] = L[k]
      BY <1>3, <3>2
    <3> QED BY <1>2, <1>6, <3>2, <3>3 DEF IsFree
  <2> QED BY <1>6, <2>1, <2>2
<1> QED BY <1>2, <1>4, <1>5, <1>6 DEF IsFree
-----------------------------------------------------------------------------
(* The least of a set of indices, 0 if there is none.                        *)
FirstIndex(I) == IF I # {} THEN CHOOSE x \in I : \A y \in I : x <= y ELSE 0

LEMMA FirstIndexFacts ==
    ASSUME NEW I, I \subseteq Nat \ {0}, NEW k, k = FirstIndex(I)
    PROVE  /\ k = 0 <=> I = {}
           /\ k # 0 => k \in I /\ \A j \in I : k <= j
<1>1. CASE I = {}
  BY <1>1 DEF FirstIndex
<1>2. CASE I # {}
  <2>1. \E x \in I : \A y \in I : x <= y
    BY <1>2, Least
  <2> QED BY <1>2, <2>1 DEF FirstIndex
<1> QED BY <1>1, <1>2

Touching(L, a, n) == {i \in 1..Len(L) : EndOf(L[i]) = a \/ L[i].first >= a + n}

(* rt_slab_page_free, stated by what it replaces.                            *)
FreedAt(L, a, n, k) ==
    IF k = 0 THEN Append(L, [first |-> a, count |-> n])
    ELSE IF EndOf(L[k]) = a
         THEN IF k < Len(L) /\ L[k + 1].first = a + n
              THEN Slab!RemoveAt([L EXCEPT ![k].count = @ + n + L[k + 1].count], k + 1)
              ELSE [L EXCEPT ![k].count = @ + n]
    ELSE IF L[k].first = a + n THEN [L EXCEPT ![k] = [first |-> a, count |-> L[k].count + n]]
    ELSE Slab!InsertAt(L, k, [first |-> a, count |-> n])

LEMMA PageFreeIs ==
    ASSUME NEW L, NEW a, NEW n
    PROVE  Slab!PageFree(L, a, n) = FreedAt(L, a, n, FirstIndex(Touching(L, a, n)))
<1>1. FirstIndex(Touching(L, a, n))
      = Slab!SelectInSeq(L, LAMBDA r : r.first + r.count = a \/ r.first >= a + n)
  BY DEF FirstIndex, Touching, Slab!SelectInSeq, Slab!Min, EndOf
<1> QED BY <1>1 DEF Slab!PageFree, FreedAt, EndOf

(* The runs in front of the pages from a to a + n, and behind them.          *)
LEMMA TouchingFacts ==
    ASSUME NEW L, Ordered(L), NEW a \in 0..Pages, NEW n \in 1..Pages, a + n <= Pages,
           \A q \in a..(a + n - 1) : ~IsFree(L, q),
           NEW k, k = FirstIndex(Touching(L, a, n))
    PROVE  /\ k \in 0..Len(L)
           /\ \A j \in 1..Len(L) : k = 0 \/ j < k => EndOf(L[j]) < a
           /\ k # 0 => EndOf(L[k]) = a \/ L[k].first >= a + n
           /\ \A j \in 1..Len(L) : L[j].first >= a => L[j].first >= a + n
<1>1. Len(L) \in Nat /\ DOMAIN L = 1..Len(L)
  BY DEF Ordered
<1>2. /\ k = 0 <=> Touching(L, a, n) = {}
      /\ k # 0 => k \in Touching(L, a, n) /\ \A j \in Touching(L, a, n) : k <= j
  <2>1. Touching(L, a, n) \subseteq Nat \ {0}
    BY <1>1 DEF Touching
  <2> QED BY ONLY <2>1, FirstIndexFacts, k = FirstIndex(Touching(L, a, n))
<1>3. a \in Nat /\ n \in Nat \ {0}
  BY SlabNats
<1>4. \A j \in 1..Len(L) : L[j].first \in Nat /\ L[j].count \in Nat \ {0}
  <2>1. \A j \in 1..Len(L) : RunOk(L[j])
    BY <1>1 DEF Ordered
  <2> QED BY <2>1, SlabNats DEF RunOk, FreeRun
<1>5. ASSUME NEW j \in 1..Len(L), NEW q \in a..(a + n - 1) PROVE ~InRun(L[j], q)
  BY <1>1 DEF IsFree
<1>6. ASSUME NEW j \in 1..Len(L), L[j].first >= a PROVE L[j].first >= a + n
  <2>1. ASSUME L[j].first < a + n PROVE FALSE
    <3>1. L[j].first \in a..(a + n - 1) /\ InRun(L[j], L[j].first)
      BY <1>3, <1>4, <1>6, <2>1 DEF InRun
    <3> QED BY <3>1, <1>5
  <2> QED BY <2>1, <1>3, <1>4
<1>7. ASSUME NEW j \in 1..Len(L), j \notin Touching(L, a, n) PROVE EndOf(L[j]) < a
  <2>1. EndOf(L[j]) # a /\ L[j].first < a + n
    BY <1>3, <1>4, <1>7 DEF Touching
  <2>2. L[j].first < a
    BY <1>3, <1>4, <1>6, <2>1
  <2>3. ASSUME EndOf(L[j]) > a PROVE FALSE
    <3>1. a \in a..(a + n - 1) /\ InRun(L[j], a)
      BY <1>3, <1>4, <2>2, <2>3 DEF InRun, EndOf
    <3> QED BY <3>1, <1>5
  <2>4. EndOf(L[j]) \in Int
    BY <1>4 DEF EndOf
  <2> QED BY <2>1, <2>3, <2>4, <1>3
<1>8. ASSUME NEW j \in 1..Len(L), k = 0 \/ j < k PROVE EndOf(L[j]) < a
  <2>1. j \notin Touching(L, a, n)
    BY <1>2, <1>8, <1>1 DEF Touching
  <2> QED BY <2>1, <1>7
<1>9. k \in 0..Len(L) /\ (k # 0 => EndOf(L[k]) = a \/ L[k].first >= a + n)
  BY <1>1, <1>2 DEF Touching
<1> QED BY <1>6, <1>8, <1>9

LEMMA NewRun ==
    ASSUME NEW a \in 0..Pages, NEW n \in 1..Pages, a + n <= Pages, NEW r, r = [first |-> a, count |-> n]
    PROVE  RunOk(r) /\ r.first = a /\ r.count = n /\ EndOf(r) = a + n
  BY SlabNats DEF RunOk, FreeRun, EndOf

LEMMA AppendSplices ==
    ASSUME NEW L, Ordered(L), NEW r, RunOk(r), NEW M, M = Append(L, r)
    PROVE  Spliced(M, L, Len(L), -1, r)
<1>1. L \in Seq(FreeRun) /\ r \in FreeRun /\ Len(L) \in Nat
  BY DEF Ordered, RunOk
<1> QED BY <1>1 DEF Spliced

LEMMA InsertSplices ==
    ASSUME NEW L, Ordered(L), NEW r, RunOk(r), NEW k \in 1..Len(L), NEW M, M = Slab!InsertAt(L, k, r)
    PROVE  Spliced(M, L, k - 1, -1, r)
<1>1. L \in Seq(FreeRun) /\ r \in FreeRun /\ Len(L) \in Nat
  BY DEF Ordered, RunOk
<1>2. PICK u, v : u = SubSeq(L, 1, k - 1) /\ v = SubSeq(L, k, Len(L))
  OBVIOUS
<1>3. u \in Seq(FreeRun) /\ Len(u) = k - 1 /\ \A m \in 1..(k - 1) : u[m] = L[m]
  BY <1>1, <1>2
<1>4. v \in Seq(FreeRun) /\ Len(v) = Len(L) - k + 1 /\ \A m \in 1..(Len(L) - k + 1) : v[m] = L[k + m - 1]
  BY <1>1, <1>2
<1>5. M = u \o <<r>> \o v
  BY <1>2 DEF Slab!InsertAt
<1>6. PICK w : w = u \o <<r>>
  OBVIOUS
<1>7. w \in Seq(FreeRun) /\ Len(w) = k /\ (\A m \in 1..(k - 1) : w[m] = L[m]) /\ w[k] = r
  BY ONLY <1>1, <1>3, <1>6, k \in 1..Len(L)
<1>8. M = w \o v
  BY <1>5, <1>6
<1>9. M \in Seq(FreeRun) /\ Len(M) = Len(L) + 1 /\ (\A m \in 1..k : M[m] = w[m])
      /\ (\A m \in (k + 1)..(Len(L) + 1) : M[m] = v[m - k])
  BY ONLY <1>1, <1>4, <1>7, <1>8, k \in 1..Len(L)
<1>10. \A m \in (k + 1)..(Len(L) + 1) : M[m] = L[m - 1]
  BY ONLY <1>1, <1>4, <1>9, k \in 1..Len(L)
<1> QED BY ONLY <1>1, <1>7, <1>9, <1>10, k \in 1..Len(L) DEF Spliced

LEMMA UpdateSplices ==
    ASSUME NEW L, Ordered(L), NEW r, RunOk(r), NEW k \in 1..Len(L), NEW M, M = [L EXCEPT ![k] = r]
    PROVE  Spliced(M, L, k - 1, 0, r)
<1>1. L \in Seq(FreeRun) /\ r \in FreeRun /\ Len(L) \in Nat
  BY DEF Ordered, RunOk
<1> QED BY <1>1 DEF Spliced

LEMMA RemoveIs ==
    ASSUME NEW S, NEW L \in Seq(S), NEW k \in 1..Len(L), NEW M, M = Slab!RemoveAt(L, k)
    PROVE  /\ M \in Seq(S) /\ Len(M) = Len(L) - 1
           /\ \A m \in 1..(Len(L) - 1) : M[m] = IF m < k THEN L[m] ELSE L[m + 1]
<1>1. PICK u, v : u = SubSeq(L, 1, k - 1) /\ v = SubSeq(L, k + 1, Len(L))
  OBVIOUS
<1>2. u \in Seq(S) /\ Len(u) = k - 1 /\ \A m \in 1..(k - 1) : u[m] = L[m]
  BY <1>1
<1>3. v \in Seq(S) /\ Len(v) = Len(L) - k /\ \A m \in 1..(Len(L) - k) : v[m] = L[k + m]
  BY <1>1
<1>4. M = u \o v
  BY <1>1 DEF Slab!RemoveAt
<1>5. M \in Seq(S) /\ Len(M) = Len(L) - 1 /\ (\A m \in 1..(k - 1) : M[m] = u[m])
      /\ (\A m \in k..(Len(L) - 1) : M[m] = v[m - k + 1])
  BY ONLY <1>2, <1>3, <1>4, k \in 1..Len(L), L \in Seq(S)
<1> QED BY ONLY <1>2, <1>3, <1>5, k \in 1..Len(L), L \in Seq(S)

LEMMA JoinSplices ==
    ASSUME NEW L, Ordered(L), NEW r, RunOk(r), NEW k \in 1..(Len(L) - 1),
           NEW N, N = [L EXCEPT ![k] = r], NEW M, M = Slab!RemoveAt(N, k + 1)
    PROVE  Spliced(M, L, k - 1, 1, r)
<1>1. L \in Seq(FreeRun) /\ r \in FreeRun /\ Len(L) \in Nat
  BY DEF Ordered, RunOk
<1>2. N \in Seq(FreeRun) /\ Len(N) = Len(L) /\ N[k] = r /\ \A m \in 1..Len(L) : m # k => N[m] = L[m]
  BY <1>1
<1>3. /\ M \in Seq(FreeRun) /\ Len(M) = Len(N) - 1
      /\ \A m \in 1..(Len(N) - 1) : M[m] = IF m < k + 1 THEN N[m] ELSE N[m + 1]
  <2>1. PICK j : j = k + 1
    OBVIOUS
  <2>2. j \in 1..Len(N) /\ M = Slab!RemoveAt(N, j)
    BY <1>1, <1>2, <2>1
  <2>3. /\ M \in Seq(FreeRun) /\ Len(M) = Len(N) - 1
        /\ \A m \in 1..(Len(N) - 1) : M[m] = IF m < j THEN N[m] ELSE N[m + 1]
    BY ONLY <1>2, <2>2, RemoveIs
  <2> QED BY ONLY <2>1, <2>3
<1>4. Len(M) = Len(L) - 1 /\ \A m \in 1..(Len(L) - 1) : M[m] = IF m < k + 1 THEN N[m] ELSE N[m + 1]
  BY ONLY <1>2, <1>3
<1>5. ASSUME NEW m \in 1..(Len(L) - 1)
      PROVE  M[m] = IF m <= k - 1 THEN L[m] ELSE IF m = k THEN r ELSE L[m + 1]
  <2>1. CASE m < k
    BY ONLY <1>1, <1>2, <1>4, <1>5, <2>1, k \in 1..(Len(L) - 1)
  <2>2. CASE m = k
    BY ONLY <1>1, <1>2, <1>4, <1>5, <2>2, k \in 1..(Len(L) - 1)
  <2>3. CASE m > k
    <3>1. M[m] = N[m + 1] /\ m + 1 \in 1..Len(L) /\ m + 1 # k
      BY ONLY <1>1, <1>4, <1>5, <2>3, k \in 1..(Len(L) - 1)
    <3>2. N[m + 1] = L[m + 1]
      BY ONLY <3>1, <1>2
    <3> QED BY ONLY <1>1, <1>5, <3>1, <3>2, <2>3, k \in 1..(Len(L) - 1)
  <2> QED BY <1>5, <2>1, <2>2, <2>3, <1>1
<1> QED BY ONLY <1>1, <1>3, <1>4, <1>5, k \in 1..(Len(L) - 1) DEF Spliced

(* rt_slab_page_free gives back the pages, and no others, and joins them     *)
(* with the runs they touch.                                                 *)
LEMMA PageFreeKeeps ==
    ASSUME NEW L, Ordered(L), NEW a \in 0..Pages, NEW n \in 1..Pages, a + n <= Pages,
           \A q \in a..(a + n - 1) : ~IsFree(L, q), NEW M, M = Slab!PageFree(L, a, n)
    PROVE  /\ Ordered(M)
           /\ \A q \in Int : IsFree(M, q) <=> IsFree(L, q) \/ Between(a, n, q)
<1>1. PICK k : k = FirstIndex(Touching(L, a, n))
  OBVIOUS
<1>2. M = FreedAt(L, a, n, k)
  BY <1>1, PageFreeIs
<1>3. /\ k \in 0..Len(L)
      /\ \A j \in 1..Len(L) : k = 0 \/ j < k => EndOf(L[j]) < a
      /\ k # 0 => EndOf(L[k]) = a \/ L[k].first >= a + n
      /\ \A j \in 1..Len(L) : L[j].first >= a => L[j].first >= a + n
  BY <1>1, TouchingFacts
<1>4. PICK h : h = Len(L)
  OBVIOUS
<1>5. h \in Nat /\ DOMAIN L = 1..h /\ a \in Nat /\ n \in Nat \ {0}
  BY <1>4, SlabNats DEF Ordered
<1>6. \A j \in 1..h : RunOk(L[j]) /\ L[j].first \in Nat /\ L[j].count \in Nat \ {0} /\ EndOf(L[j]) \in Nat
                     /\ EndOf(L[j]) = L[j].first + L[j].count /\ EndOf(L[j]) <= Pages
  <2>1. \A j \in 1..h : RunOk(L[j])
    BY <1>5 DEF Ordered
  <2> QED BY <2>1, SlabNats DEF RunOk, FreeRun, EndOf
<1>7. \A i, j \in 1..h : i < j => EndOf(L[i]) < L[j].first
  BY <1>5 DEF Ordered
<1> DEFINE Goal(i, d, r) == /\ i \in 0..h /\ d \in {-1, 0, 1} /\ i + 1 + d <= h /\ RunOk(r)
                            /\ RunFits(L, i, d, r) /\ Spliced(M, L, i, d, r)
                            /\ \A q \in Int : InRun(r, q) <=> \/ Between(a, n, q)
                                                \/ \E m \in 1..h : InRun(L[m], q) /\ i < m /\ m <= i + 1 + d
<1>8. ASSUME NEW i, NEW d, NEW r, Goal(i, d, r)
      PROVE  /\ Ordered(M)
             /\ \A q \in Int : IsFree(M, q) <=> IsFree(L, q) \/ Between(a, n, q)
  <2>1. i \in 0..Len(L) /\ d \in {-1, 0, 1} /\ i + 1 + d <= Len(L) /\ RunOk(r)
        /\ RunFits(L, i, d, r) /\ Spliced(M, L, i, d, r)
    BY <1>4, <1>8
  <2>2. Ordered(M)
    BY ONLY <2>1, SpliceOrdered, Ordered(L)
  <2>3. ASSUME NEW q \in Int PROVE IsFree(M, q) <=> IsFree(L, q) \/ Between(a, n, q)
    <3>1. IsFree(M, q) <=> \/ InRun(r, q)
                           \/ \E m \in DOMAIN L : InRun(L[m], q) /\ (m <= i \/ m > i + 1 + d)
      BY ONLY <2>1, SpliceFree, Ordered(L), q \in Int
    <3>2. InRun(r, q) <=> \/ Between(a, n, q)
                          \/ \E m \in 1..h : InRun(L[m], q) /\ i < m /\ m <= i + 1 + d
      BY <1>8
    <3>3. \A m \in 1..h : (m <= i \/ m > i + 1 + d) \/ (i < m /\ m <= i + 1 + d)
      BY <1>5, <1>8
    <3> HIDE DEF Goal
    <3> QED BY <3>1, <3>2, <3>3, <1>5 DEF IsFree
  <2> QED BY <2>2, <2>3
<1>9. CASE k = 0
  <2>1. PICK r : r = [first |-> a, count |-> n]
    OBVIOUS
  <2>2. RunOk(r) /\ r.first = a /\ r.count = n /\ EndOf(r) = a + n
    BY <2>1, NewRun
  <2>3. M = Append(L, r)
    BY <1>2, <1>9, <2>1 DEF FreedAt
  <2>4. Spliced(M, L, h, -1, r)
    BY <2>2, <2>3, <1>4, AppendSplices
  <2>5. RunFits(L, h, -1, r)
    BY <1>3, <1>4, <1>5, <1>9, <2>2 DEF RunFits
  <2>6. \A q \in Int : InRun(r, q) <=> Between(a, n, q)
    BY <2>2 DEF InRun, Between
  <2>7. Goal(h, -1, r)
    BY <2>2, <2>4, <2>5, <2>6, <1>5
  <2> HIDE DEF Goal
  <2> QED BY <2>7, <1>8
<1>10. ASSUME k # 0 PROVE k \in 1..h /\ (\A j \in 1..h : j < k => EndOf(L[j]) < a)
                          /\ (EndOf(L[k]) = a \/ L[k].first >= a + n)
  BY <1>3, <1>4, <1>5, <1>10
<1>11. CASE k # 0 /\ EndOf(L[k]) = a /\ k < h /\ L[k + 1].first = a + n
  <2>1. PICK c : c = L[k].count + n + L[k + 1].count
    OBVIOUS
  <2>2. PICK r : r = [first |-> L[k].first, count |-> c]
    OBVIOUS
  <2>3. k \in 1..(h - 1) /\ k \in 1..h /\ k + 1 \in 1..h /\ k + 1 # k
    BY <1>5, <1>10, <1>11
  <2>4. RunOk(r) /\ r.first = L[k].first /\ EndOf(r) = EndOf(L[k + 1])
    <3>1. L[k].first + c = EndOf(L[k + 1]) /\ c > 0 /\ c \in Nat
      <4>1. L[k].first \in Nat /\ L[k].count \in Nat /\ L[k].first + L[k].count = a
        BY <1>6, <1>11, <2>3
      <4>2. L[k + 1].count \in Nat \ {0} /\ EndOf(L[k + 1]) = (a + n) + L[k + 1].count
        BY <1>6, <1>11, <2>3
      <4>3. PICK u, v, f, e : u = L[k].count /\ v = L[k + 1].count /\ f = L[k].first /\ e = EndOf(L[k + 1])
        OBVIOUS
      <4>4. f \in Nat /\ u \in Nat /\ f + u = a /\ v \in Nat \ {0} /\ e = (a + n) + v /\ c = (u + n) + v
        BY <4>1, <4>2, <4>3, <2>1
      <4>5. f + c = e /\ c > 0 /\ c \in Nat
        BY ONLY <4>4, <1>5
      <4> QED BY <4>3, <4>5
    <3>2. L[k].first \in 0..Pages /\ c \in 0..Pages
      BY <3>1, <1>5, <1>6, <2>3, SlabNats
    <3> QED BY <2>2, <3>1, <3>2, <1>6, <2>3 DEF RunOk, FreeRun, EndOf
  <2>5. M = Slab!RemoveAt([L EXCEPT ![k] = r], k + 1)
    <3>1. M = Slab!RemoveAt([L EXCEPT ![k].count = @ + n + L[k + 1].count], k + 1)
      BY <1>2, <1>4, <1>11 DEF FreedAt
    <3>2. L[k] \in FreeRun
      BY <1>6, <2>3 DEF RunOk
    <3>3. [L[k] EXCEPT !.count = c] = r
      BY <3>2, <2>2 DEF FreeRun
    <3> QED BY <3>1, <3>3, <2>1
  <2>6. Spliced(M, L, k - 1, 1, r)
    <3>1. PICK N : N = [L EXCEPT ![k] = r]
      OBVIOUS
    <3>2. k \in 1..(Len(L) - 1) /\ M = Slab!RemoveAt(N, k + 1)
      BY <2>3, <2>5, <3>1, <1>4
    <3> QED BY ONLY <3>1, <3>2, <2>4, JoinSplices, Ordered(L)
  <2>7. RunFits(L, k - 1, 1, r)
    <3>1. k - 1 > 0 => EndOf(L[k - 1]) < r.first
      BY <1>7, <2>3, <2>4, <1>5
    <3>2. (k - 1) + 2 + 1 <= Len(L) => EndOf(r) < L[(k - 1) + 2 + 1].first
      <4>1. (k - 1) + 2 + 1 = k + 2
        BY <2>3
      <4>2. k + 2 <= h => EndOf(L[k + 1]) < L[k + 2].first
        BY <1>7, <2>3, <1>5
      <4> QED BY <4>1, <4>2, <2>4, <1>4
    <3> QED BY <3>1, <3>2 DEF RunFits
  <2>8. ASSUME NEW q \in Int
        PROVE  InRun(r, q) <=> \/ Between(a, n, q)
                               \/ \E m \in 1..h : InRun(L[m], q) /\ k - 1 < m /\ m <= (k - 1) + 1 + 1
    <3>1. (\E m \in 1..h : InRun(L[m], q) /\ k - 1 < m /\ m <= (k - 1) + 1 + 1)
          <=> InRun(L[k], q) \/ InRun(L[k + 1], q)
      <4>1. \A m \in 1..h : k - 1 < m /\ m <= (k - 1) + 1 + 1 <=> m = k \/ m = k + 1
        BY <2>3
      <4> QED BY <4>1, <2>3
    <3>2. InRun(L[k], q) <=> L[k].first <= q /\ q < a
      BY <1>6, <1>11, <2>3 DEF InRun
    <3>3. InRun(L[k + 1], q) <=> a + n <= q /\ q < EndOf(L[k + 1])
      BY <1>6, <1>11, <2>3 DEF InRun
    <3>4. InRun(r, q) <=> L[k].first <= q /\ q < EndOf(L[k + 1])
      BY <2>4 DEF InRun, EndOf
    <3>5. L[k].first <= a /\ a + n <= EndOf(L[k + 1])
      BY <1>6, <1>11, <2>3
    <3>6. L[k].first \in Nat /\ EndOf(L[k + 1]) \in Nat
      BY <1>6, <2>3
    <3> QED BY <3>1, <3>2, <3>3, <3>4, <3>5, <3>6, <1>5 DEF Between
  <2>9. Goal(k - 1, 1, r)
    BY <2>3, <2>4, <2>6, <2>7, <2>8, <1>5
  <2> HIDE DEF Goal
  <2> QED BY <2>9, <1>8
<1>12. CASE k # 0 /\ EndOf(L[k]) = a /\ ~(k < h /\ L[k + 1].first = a + n)
  <2>1. PICK c : c = L[k].count + n
    OBVIOUS
  <2>2. PICK r : r = [first |-> L[k].first, count |-> c]
    OBVIOUS
  <2>3. k \in 1..h
    BY <1>10, <1>12
  <2>4. RunOk(r) /\ r.first = L[k].first /\ EndOf(r) = a + n
    <3>1. L[k].first + c = a + n /\ c > 0 /\ c \in Nat
      BY <1>5, <1>6, <1>12, <2>1, <2>3
    <3>2. L[k].first \in 0..Pages /\ c \in 0..Pages
      BY <3>1, <1>5, <1>6, <2>3, SlabNats
    <3> QED BY <2>2, <3>1, <3>2, <1>6, <2>3 DEF RunOk, FreeRun, EndOf
  <2>5. M = [L EXCEPT ![k] = r]
    <3>1. M = [L EXCEPT ![k].count = @ + n]
      BY <1>2, <1>4, <1>12 DEF FreedAt
    <3>2. L[k] \in FreeRun
      BY <1>6, <2>3 DEF RunOk
    <3>3. [L[k] EXCEPT !.count = c] = r
      BY <3>2, <2>2 DEF FreeRun
    <3> QED BY <3>1, <3>3, <2>1
  <2>6. Spliced(M, L, k - 1, 0, r)
    BY <2>3, <2>4, <2>5, <1>4, UpdateSplices
  <2>7. RunFits(L, k - 1, 0, r)
    <3>1. k - 1 > 0 => EndOf(L[k - 1]) < r.first
      BY <1>7, <2>3, <2>4, <1>5
    <3>2. k + 1 <= h => a + n < L[k + 1].first
      <4>1. ASSUME k + 1 <= h PROVE a + n < L[k + 1].first
        <5>1. k + 1 \in 1..h /\ k < h
          BY <2>3, <4>1, <1>5
        <5>2. a < L[k + 1].first
          BY <1>7, <1>12, <2>3, <5>1
        <5>3. L[k + 1].first >= a + n /\ L[k + 1].first # a + n
          BY <1>3, <1>4, <1>5, <1>6, <1>12, <5>1, <5>2
        <5>4. L[k + 1].first \in Nat
          BY <5>1, <1>6
        <5> QED BY <5>3, <5>4, <1>5
      <4> QED BY <4>1
    <3>3. (k - 1) + 2 + 0 = k + 1
      BY <2>3
    <3> QED BY <3>1, <3>2, <3>3, <2>4, <1>4 DEF RunFits
  <2>8. ASSUME NEW q \in Int
        PROVE  InRun(r, q) <=> \/ Between(a, n, q)
                               \/ \E m \in 1..h : InRun(L[m], q) /\ k - 1 < m /\ m <= (k - 1) + 1 + 0
    <3>1. (\E m \in 1..h : InRun(L[m], q) /\ k - 1 < m /\ m <= (k - 1) + 1 + 0) <=> InRun(L[k], q)
      <4>1. \A m \in 1..h : k - 1 < m /\ m <= (k - 1) + 1 + 0 <=> m = k
        BY <2>3
      <4> QED BY <4>1, <2>3
    <3>2. InRun(L[k], q) <=> L[k].first <= q /\ q < a
      BY <1>6, <1>12, <2>3 DEF InRun
    <3>3. InRun(r, q) <=> L[k].first <= q /\ q < a + n
      BY <2>4 DEF InRun, EndOf
    <3>4. L[k].first <= a /\ L[k].first \in Nat
      BY <1>6, <1>12, <2>3
    <3> QED BY <3>1, <3>2, <3>3, <3>4, <1>5 DEF Between
  <2>9. Goal(k - 1, 0, r)
    BY <2>3, <2>4, <2>6, <2>7, <2>8, <1>5
  <2> HIDE DEF Goal
  <2> QED BY <2>9, <1>8
<1>13. CASE k # 0 /\ EndOf(L[k]) # a /\ L[k].first = a + n
  <2>1. PICK c : c = L[k].count + n
    OBVIOUS
  <2>2. PICK r : r = [first |-> a, count |-> c]
    OBVIOUS
  <2>3. k \in 1..h
    BY <1>10, <1>13
  <2>4. RunOk(r) /\ r.first = a /\ EndOf(r) = EndOf(L[k])
    <3>1. a + c = EndOf(L[k]) /\ c > 0 /\ c \in Nat
      BY <1>5, <1>6, <1>13, <2>1, <2>3
    <3>2. a \in 0..Pages /\ c \in 0..Pages
      BY <3>1, <1>5, <1>6, <2>3, SlabNats
    <3> QED BY <2>2, <3>1, <3>2, <1>6, <2>3 DEF RunOk, FreeRun, EndOf
  <2>5. M = [L EXCEPT ![k] = r]
    BY <1>2, <1>13, <2>1, <2>2 DEF FreedAt
  <2>6. Spliced(M, L, k - 1, 0, r)
    BY <2>3, <2>4, <2>5, <1>4, UpdateSplices
  <2>7. RunFits(L, k - 1, 0, r)
    <3>1. k - 1 > 0 => EndOf(L[k - 1]) < a
      BY <1>10, <1>13, <2>3, <1>5
    <3>2. k + 1 <= h => EndOf(L[k]) < L[k + 1].first
      BY <1>7, <2>3, <1>5
    <3>3. (k - 1) + 2 + 0 = k + 1
      BY <2>3
    <3> QED BY <3>1, <3>2, <3>3, <2>4, <1>4 DEF RunFits
  <2>8. ASSUME NEW q \in Int
        PROVE  InRun(r, q) <=> \/ Between(a, n, q)
                               \/ \E m \in 1..h : InRun(L[m], q) /\ k - 1 < m /\ m <= (k - 1) + 1 + 0
    <3>1. (\E m \in 1..h : InRun(L[m], q) /\ k - 1 < m /\ m <= (k - 1) + 1 + 0) <=> InRun(L[k], q)
      <4>1. \A m \in 1..h : k - 1 < m /\ m <= (k - 1) + 1 + 0 <=> m = k
        BY <2>3
      <4> QED BY <4>1, <2>3
    <3>2. InRun(L[k], q) <=> a + n <= q /\ q < EndOf(L[k])
      BY <1>6, <1>13, <2>3 DEF InRun
    <3>3. InRun(r, q) <=> a <= q /\ q < EndOf(L[k])
      BY <2>4 DEF InRun, EndOf
    <3>4. a + n <= EndOf(L[k]) /\ EndOf(L[k]) \in Nat
      BY <1>6, <1>13, <2>3
    <3> QED BY <3>1, <3>2, <3>3, <3>4, <1>5 DEF Between
  <2>9. Goal(k - 1, 0, r)
    BY <2>3, <2>4, <2>6, <2>7, <2>8, <1>5
  <2> HIDE DEF Goal
  <2> QED BY <2>9, <1>8
<1>14. CASE k # 0 /\ EndOf(L[k]) # a /\ L[k].first # a + n
  <2>1. PICK r : r = [first |-> a, count |-> n]
    OBVIOUS
  <2>2. RunOk(r) /\ r.first = a /\ r.count = n /\ EndOf(r) = a + n
    BY <2>1, NewRun
  <2>3. k \in 1..h
    BY <1>10, <1>14
  <2>4. M = Slab!InsertAt(L, k, r)
    BY <1>2, <1>14, <2>1 DEF FreedAt
  <2>5. Spliced(M, L, k - 1, -1, r)
    BY <2>2, <2>3, <2>4, <1>4, InsertSplices
  <2>6. RunFits(L, k - 1, -1, r)
    <3>1. k - 1 > 0 => EndOf(L[k - 1]) < a
      BY <1>10, <1>14, <2>3, <1>5
    <3>2. a + n < L[k].first
      <4>1. L[k].first \in Nat /\ L[k].first >= a + n /\ L[k].first # a + n
        BY <1>10, <1>14, <2>3, <1>6
      <4> QED BY <4>1, <1>5
    <3>3. (k - 1) + 2 + (-1) = k
      BY <2>3
    <3> QED BY <3>1, <3>2, <3>3, <2>2, <1>4 DEF RunFits
  <2>7. \A q \in Int : InRun(r, q) <=> Between(a, n, q)
    BY <2>2 DEF InRun, Between
  <2>8. ~\E m \in 1..h : k - 1 < m /\ m <= (k - 1) + 1 + (-1)
    BY <2>3
  <2>9. Goal(k - 1, -1, r)
    BY <2>2, <2>3, <2>5, <2>6, <2>7, <2>8, <1>5
  <2> HIDE DEF Goal
  <2> QED BY <2>9, <1>8
<1> QED BY <1>9, <1>10, <1>11, <1>12, <1>13, <1>14

(* What rt_slab_page_alloc finds.                                            *)
Roomy(L, n) == {i \in 1..Len(L) : L[i].count >= n}

LEMMA PageRunIs ==
    ASSUME NEW L, NEW n
    PROVE  Slab!PageRun(L, n) = FirstIndex(Roomy(L, n))
  BY DEF FirstIndex, Roomy, Slab!PageRun, Slab!SelectInSeq, Slab!Min

LEMMA PageRunFacts ==
    ASSUME NEW L, Ordered(L), NEW n, Slab!HasPages(L, n), NEW k, k = Slab!PageRun(L, n)
    PROVE  k \in 1..Len(L) /\ L[k].count >= n
<1>1. Len(L) \in Nat /\ DOMAIN L = 1..Len(L)
  BY DEF Ordered
<1>2. Roomy(L, n) # {} /\ Roomy(L, n) \subseteq Nat \ {0}
  BY <1>1 DEF Roomy, Slab!HasPages
<1>3. k \in Roomy(L, n)
  <2>1. k = FirstIndex(Roomy(L, n))
    BY PageRunIs
  <2> QED BY ONLY <2>1, <1>2, FirstIndexFacts
<1> QED BY <1>3 DEF Roomy

(* Taking run k out of the list.                                             *)
LEMMA RunRemoved ==
    ASSUME NEW L, Ordered(L), NEW k \in 1..Len(L), NEW M, M = Slab!RemoveAt(L, k)
    PROVE  /\ Ordered(M)
           /\ \A q \in Int : IsFree(M, q) <=> \E m \in 1..Len(L) : m # k /\ InRun(L[m], q)
<1>1. PICK h : h = Len(L)
  OBVIOUS
<1>2. h \in Nat /\ k \in 1..h /\ DOMAIN L = 1..h /\ L \in Seq(FreeRun)
  BY <1>1 DEF Ordered
<1>3. /\ M \in Seq(FreeRun) /\ Len(M) = h - 1
      /\ \A m \in 1..(h - 1) : M[m] = IF m < k THEN L[m] ELSE L[m + 1]
  BY ONLY <1>1, <1>2, M = Slab!RemoveAt(L, k), RemoveIs
<1>4. DOMAIN M = 1..(h - 1)
  BY <1>2, <1>3
<1> DEFINE Old(m) == IF m < k THEN m ELSE m + 1
<1>5. \A m \in 1..(h - 1) : Old(m) \in 1..h /\ Old(m) # k /\ M[m] = L[Old(m)]
  BY <1>2, <1>3
<1>6. \A i, j \in 1..(h - 1) : i < j => Old(i) < Old(j)
  BY <1>2
<1>7. \A m \in 1..h : m # k => \E i \in 1..(h - 1) : Old(i) = m
  <2>1. ASSUME NEW m \in 1..h, m # k PROVE \E i \in 1..(h - 1) : Old(i) = m
    <3>1. CASE m < k
      BY <1>2, <3>1
    <3>2. CASE m > k
      <4>1. m - 1 \in 1..(h - 1) /\ Old(m - 1) = m
        BY <1>2, <3>2
      <4> QED BY <4>1
    <3> QED BY <2>1, <3>1, <3>2, <1>2
  <2> QED BY <2>1
<1> HIDE DEF Old
<1>8. Ordered(M)
  <2>1. \A i, j \in 1..(h - 1) : i < j => EndOf(M[i]) < M[j].first
    BY <1>2, <1>5, <1>6 DEF Ordered
  <2>2. \A m \in 1..(h - 1) : RunOk(M[m])
    BY <1>2, <1>5 DEF Ordered
  <2> QED BY <1>3, <1>4, <2>1, <2>2 DEF Ordered
<1>9. ASSUME NEW q \in Int PROVE IsFree(M, q) <=> \E m \in 1..h : m # k /\ InRun(L[m], q)
  BY <1>4, <1>5, <1>7 DEF IsFree
<1> QED BY <1>1, <1>8, <1>9

(* rt_slab_page_alloc takes n free pages off the list.                       *)
LEMMA PageTakeKeeps ==
    ASSUME NEW L, Ordered(L), NEW n \in Nat, Slab!HasPages(L, n),
           NEW p, p = L[Slab!PageRun(L, n)].first, NEW M, M = Slab!PageTake(L, n)
    PROVE  /\ Ordered(M) /\ p \in 0..(Pages - 1) /\ n \in 1..Pages /\ p + n <= Pages
           /\ \A q \in Int : Between(p, n, q) => IsFree(L, q)
           /\ \A q \in Int : IsFree(M, q) <=> IsFree(L, q) /\ ~Between(p, n, q)
<1>1. PICK k : k = Slab!PageRun(L, n)
  OBVIOUS
<1>2. k \in 1..Len(L) /\ L[k].count >= n
  BY <1>1, PageRunFacts
<1>3. n > 0
  BY DEF Slab!HasPages
<1>4. Len(L) \in Nat /\ DOMAIN L = 1..Len(L)
  BY DEF Ordered
<1>5. \A m \in 1..Len(L) : RunOk(L[m])
  BY <1>4 DEF Ordered
<1>6. RunOk(L[k])
  BY <1>2, <1>5
<1>7. PICK e : e = EndOf(L[k])
  OBVIOUS
<1>8. p = L[k].first /\ p \in Nat /\ e \in Nat /\ e = p + L[k].count /\ e <= Pages /\ L[k].count \in Nat
  BY <1>1, <1>6, <1>7, SlabNats DEF RunOk, FreeRun, EndOf
<1>9. p + n <= e
  BY <1>2, <1>8
<1>10. \A q \in Int : InRun(L[k], q) <=> p <= q /\ q < e
  BY <1>8 DEF InRun
<1>11. \A q \in Int : Between(p, n, q) => InRun(L[k], q)
  BY <1>8, <1>9, <1>10 DEF Between
<1>12. ASSUME NEW q \in Int, NEW m \in 1..Len(L), m # k, InRun(L[m], q) PROVE ~InRun(L[k], q)
  <2>1. L[m].first \in Nat /\ EndOf(L[m]) \in Nat /\ L[m].first <= q /\ q < EndOf(L[m])
    BY <1>5, <1>12, SlabNats DEF RunOk, FreeRun, EndOf, InRun
  <2>2. m < k => EndOf(L[m]) < p
    BY <1>2, <1>4, <1>8, <1>12 DEF Ordered
  <2>3. k < m => e < L[m].first
    BY <1>2, <1>4, <1>7, <1>12 DEF Ordered
  <2>4. m < k \/ k < m
    BY <1>2, <1>4, <1>12
  <2> QED BY <2>1, <2>2, <2>3, <2>4, <1>8, <1>10
<1>13. \A q \in Int : Between(p, n, q) => IsFree(L, q)
  BY <1>2, <1>4, <1>11 DEF IsFree
<1>16. p \in 0..(Pages - 1) /\ n \in 1..Pages /\ p + n <= Pages
  BY <1>3, <1>8, <1>9, SlabNats
<1>14. CASE L[k].count = n
  <2>1. M = Slab!RemoveAt(L, k)
    BY <1>1, <1>14 DEF Slab!PageTake
  <2>2. Ordered(M) /\ \A q \in Int : IsFree(M, q) <=> \E m \in 1..Len(L) : m # k /\ InRun(L[m], q)
    BY ONLY <1>2, <2>1, RunRemoved, Ordered(L)
  <2>3. \A q \in Int : InRun(L[k], q) <=> Between(p, n, q)
    BY <1>8, <1>10, <1>14 DEF Between
  <2>4. \A q \in Int : IsFree(M, q) <=> IsFree(L, q) /\ ~Between(p, n, q)
    BY <1>2, <1>4, <1>12, <2>2, <2>3 DEF IsFree
  <2> QED BY <2>2, <2>4, <1>16, <1>13
<1>15. CASE L[k].count # n
  <2>1. PICK a, c : a = p + n /\ c = L[k].count - n
    OBVIOUS
  <2>2. PICK r : r = [first |-> a, count |-> c]
    OBVIOUS
  <2>3. c > 0 /\ c \in Nat /\ a + c = e
    <3>1. PICK u : u = L[k].count
      OBVIOUS
    <3>2. u \in Nat /\ e = p + u /\ u >= n /\ u # n /\ c = u - n
      BY <1>2, <1>8, <1>15, <2>1, <3>1
    <3> QED BY ONLY <3>2, <2>1, <1>8, n \in Nat
  <2>4. RunOk(r) /\ r.first = a /\ EndOf(r) = e
    <3>1. a \in 0..Pages /\ c \in 0..Pages
      <4>1. a \in Nat /\ c \in Nat /\ Pages \in Nat /\ a + c <= Pages
        BY <1>8, <2>1, <2>3, SlabNats
      <4> QED BY ONLY <4>1
    <3> QED BY <2>2, <2>3, <3>1, <1>8 DEF RunOk, FreeRun, EndOf
  <2>5. M = [L EXCEPT ![k] = r]
    BY <1>1, <1>8, <1>15, <2>1, <2>2 DEF Slab!PageTake
  <2>6. Spliced(M, L, k - 1, 0, r)
    BY <1>2, <2>4, <2>5, UpdateSplices
  <2>7. PICK i : i = k - 1
    OBVIOUS
  <2>8. i \in 0..Len(L) /\ i + 1 + 0 <= Len(L) /\ i + 1 = k /\ i + 2 = k + 1
    BY <1>2, <1>4, <2>7
  <2>9. RunFits(L, i, 0, r)
    <3>1. i > 0 => EndOf(L[i]) < a
      <4>1. ASSUME i > 0 PROVE EndOf(L[i]) < a
        <5>1. i \in 1..Len(L) /\ i < k
          BY <1>2, <1>4, <2>7, <4>1
        <5>2. EndOf(L[i]) < p /\ EndOf(L[i]) \in Int
          <6>1. EndOf(L[i]) < p
            BY <1>2, <1>4, <1>8, <5>1 DEF Ordered
          <6>2. RunOk(L[i])
            BY <1>5, <5>1
          <6> QED BY <6>1, <6>2, SlabNats DEF RunOk, FreeRun, EndOf
        <5> QED BY <5>2, <2>1, <1>8
      <4> QED BY <4>1
    <3>2. k + 1 <= Len(L) => e < L[k + 1].first
      BY <1>2, <1>4, <1>7 DEF Ordered
    <3> QED BY <2>4, <2>8, <3>1, <3>2 DEF RunFits
  <2>10. Ordered(M)
    BY <2>4, <2>6, <2>7, <2>8, <2>9, SpliceOrdered
  <2>11. ASSUME NEW q \in Int PROVE IsFree(M, q) <=> IsFree(L, q) /\ ~Between(p, n, q)
    <3>1. IsFree(M, q) <=> InRun(r, q) \/ \E m \in DOMAIN L : InRun(L[m], q) /\ (m <= i \/ m > i + 1 + 0)
      BY <2>6, <2>7, <2>8, SpliceFree
    <3>2. \A m \in 1..Len(L) : m <= i \/ m > i + 1 + 0 <=> m # k
      BY <1>2, <1>4, <2>7
    <3>3. InRun(r, q) <=> InRun(L[k], q) /\ ~Between(p, n, q)
      <4>1. InRun(r, q) <=> a <= q /\ q < e
        BY <2>4 DEF InRun, EndOf
      <4> QED BY <4>1, <1>8, <1>9, <1>10, <2>1 DEF Between
    <3>4. \A m \in 1..Len(L) : m # k /\ InRun(L[m], q) => ~Between(p, n, q)
      BY <1>11, <1>12
    <3> QED BY <3>1, <3>2, <3>3, <3>4, <1>2, <1>4 DEF IsFree
  <2> QED BY <2>10, <2>11, <1>16, <1>13
<1> QED BY <1>14, <1>15

-----------------------------------------------------------------------------
(* zoneindex.                                                                *)
RowsAbove(Z, n) == {i \in 1..8 : n < Z[i][1]}

LEMMA RowIs ==
    ASSUME NEW n \in Nat, n < 16384
    PROVE  Slab!RowOf(n) = IF n < 128 THEN <<128, 8, -1>> ELSE IF n < 256 THEN <<256, 16, 7>>
                           ELSE IF n < 512 THEN <<512, 32, 15>> ELSE IF n < 1024 THEN <<1024, 64, 23>>
                           ELSE IF n < 2048 THEN <<2048, 128, 31>> ELSE IF n < 4096 THEN <<4096, 256, 39>>
                           ELSE IF n < 8192 THEN <<8192, 512, 47>> ELSE <<16384, 1024, 55>>
<1>1. PICK Z : Z = Slab!ZoneRow
  OBVIOUS
<1>2. /\ Len(Z) = 8
      /\ Z[1] = <<128, 8, -1>> /\ Z[2] = <<256, 16, 7>> /\ Z[3] = <<512, 32, 15>>
      /\ Z[4] = <<1024, 64, 23>> /\ Z[5] = <<2048, 128, 31>> /\ Z[6] = <<4096, 256, 39>>
      /\ Z[7] = <<8192, 512, 47>> /\ Z[8] = <<16384, 1024, 55>>
  BY <1>1 DEF Slab!ZoneRow
<1>3. /\ Z[1][1] = 128 /\ Z[2][1] = 256 /\ Z[3][1] = 512 /\ Z[4][1] = 1024
      /\ Z[5][1] = 2048 /\ Z[6][1] = 4096 /\ Z[7][1] = 8192 /\ Z[8][1] = 16384
  BY <1>2
<1>4. PICK I : I = RowsAbove(Z, n)
  OBVIOUS
<1>5. Slab!RowOf(n) = Z[FirstIndex(I)]
  BY <1>1, <1>2, <1>4 DEF Slab!RowOf, Slab!SelectInSeq, Slab!Min, FirstIndex, RowsAbove
<1>6. PICK k : k = FirstIndex(I)
  OBVIOUS
<1>7. 8 \in I /\ I \subseteq Nat \ {0}
  BY <1>3, <1>4 DEF RowsAbove
<1>8. k \in I /\ \A j \in I : k <= j
  BY ONLY <1>6, <1>7, FirstIndexFacts
<1>9. k \in 1..8 /\ n < Z[k][1] /\ \A j \in 1..8 : j < k => ~(n < Z[j][1])
  BY <1>4, <1>8 DEF RowsAbove
<1>10. k \in {1, 2, 3, 4, 5, 6, 7, 8}
  BY <1>9
<1>11. \A j \in 1..8 : n < Z[j][1] => k <= j
  BY <1>4, <1>8 DEF RowsAbove
<1>12. /\ n < 128 => k = 1
       /\ ~(n < 128) /\ n < 256 => k = 2
       /\ ~(n < 256) /\ n < 512 => k = 3
       /\ ~(n < 512) /\ n < 1024 => k = 4
       /\ ~(n < 1024) /\ n < 2048 => k = 5
       /\ ~(n < 2048) /\ n < 4096 => k = 6
       /\ ~(n < 4096) /\ n < 8192 => k = 7
       /\ ~(n < 8192) => k = 8
  <2>1. n < 128 => k <= 1
    BY <1>3, <1>11
  <2>2. n < 256 => k <= 2
    BY <1>3, <1>11
  <2>3. n < 512 => k <= 3
    BY <1>3, <1>11
  <2>4. n < 1024 => k <= 4
    BY <1>3, <1>11
  <2>5. n < 2048 => k <= 5
    BY <1>3, <1>11
  <2>6. n < 4096 => k <= 6
    BY <1>3, <1>11
  <2>7. n < 8192 => k <= 7
    BY <1>3, <1>11
  <2>8. (k = 1 => n < 128) /\ (k = 2 => n < 256) /\ (k = 3 => n < 512) /\ (k = 4 => n < 1024)
        /\ (k = 5 => n < 2048) /\ (k = 6 => n < 4096) /\ (k = 7 => n < 8192)
    BY <1>3, <1>9
  <2> QED BY <1>10, <2>1, <2>2, <2>3, <2>4, <2>5, <2>6, <2>7, <2>8
<1> QED BY <1>2, <1>5, <1>6, <1>12

(* The size of the chunks with an index.                                     *)
SizeAt(i) == IF i <= 15 THEN 8 * (i + 1) ELSE IF i <= 23 THEN 16 * (i - 7)
             ELSE IF i <= 31 THEN 32 * (i - 15) ELSE IF i <= 39 THEN 64 * (i - 23)
             ELSE IF i <= 47 THEN 128 * (i - 31) ELSE IF i <= 55 THEN 256 * (i - 39)
             ELSE IF i <= 63 THEN 512 * (i - 47) ELSE 1024 * (i - 55)

(* s and o are the step and the offset of a row.                             *)
IsStep(s, o) == \/ s = 8 /\ o = -1
                \/ s = 16 /\ o = 7
                \/ s = 32 /\ o = 15
                \/ s = 64 /\ o = 23
                \/ s = 128 /\ o = 31
                \/ s = 256 /\ o = 39
                \/ s = 512 /\ o = 47
                \/ s = 1024 /\ o = 55

(* The row of n.                                                             *)
InRow(n, s, o) == /\ IsStep(s, o) /\ n < 16 * s /\ (s = 8 \/ 8 * s <= n)
                  /\ Slab!RowOf(n)[2] = s /\ Slab!RowOf(n)[3] = o

LEMMA RowExists ==
    ASSUME NEW n \in Nat, n < 16384
    PROVE  \E s, o \in Int : InRow(n, s, o)
<1>1. CASE n < 128
  <2>1. Slab!RowOf(n) = <<128, 8, -1>>
    BY <1>1, RowIs
  <2>2. InRow(n, 8, -1)
    BY <1>1, <2>1 DEF InRow, IsStep
  <2> QED BY <2>2
<1>2. CASE ~(n < 128) /\ n < 256
  <2>1. Slab!RowOf(n) = <<256, 16, 7>>
    BY <1>2, RowIs
  <2>2. InRow(n, 16, 7)
    BY <1>2, <2>1 DEF InRow, IsStep
  <2> QED BY <2>2
<1>3. CASE ~(n < 256) /\ n < 512
  <2>1. Slab!RowOf(n) = <<512, 32, 15>>
    BY <1>3, RowIs
  <2>2. InRow(n, 32, 15)
    BY <1>3, <2>1 DEF InRow, IsStep
  <2> QED BY <2>2
<1>4. CASE ~(n < 512) /\ n < 1024
  <2>1. Slab!RowOf(n) = <<1024, 64, 23>>
    BY <1>4, RowIs
  <2>2. InRow(n, 64, 23)
    BY <1>4, <2>1 DEF InRow, IsStep
  <2> QED BY <2>2
<1>5. CASE ~(n < 1024) /\ n < 2048
  <2>1. Slab!RowOf(n) = <<2048, 128, 31>>
    BY <1>5, RowIs
  <2>2. InRow(n, 128, 31)
    BY <1>5, <2>1 DEF InRow, IsStep
  <2> QED BY <2>2
<1>6. CASE ~(n < 2048) /\ n < 4096
  <2>1. Slab!RowOf(n) = <<4096, 256, 39>>
    BY <1>6, RowIs
  <2>2. InRow(n, 256, 39)
    BY <1>6, <2>1 DEF InRow, IsStep
  <2> QED BY <2>2
<1>7. CASE ~(n < 4096) /\ n < 8192
  <2>1. Slab!RowOf(n) = <<8192, 512, 47>>
    BY <1>7, RowIs
  <2>2. InRow(n, 512, 47)
    BY <1>7, <2>1 DEF InRow, IsStep
  <2> QED BY <2>2
<1>8. CASE ~(n < 8192) /\ n < 16384
  <2>1. Slab!RowOf(n) = <<16384, 1024, 55>>
    BY <1>8, RowIs
  <2>2. InRow(n, 1024, 55)
    BY <1>8, <2>1 DEF InRow, IsStep
  <2> QED BY <2>2
<1> QED BY <1>1, <1>2, <1>3, <1>4, <1>5, <1>6, <1>7, <1>8

StepsOf(n, s) == (n + s - 1) \div s
Times(t, s) == t * s
IndexOf(c, s, o) == c \div s + o

(* What rounding up to a step does, inside a row and from one to the next.   *)
LEMMA StepFacts ==
    ASSUME NEW s \in Int, NEW o \in Int, IsStep(s, o), NEW n \in Nat \ {0}, n < 16 * s, s = 8 \/ 8 * s <= n,
           NEW t, t = StepsOf(n, s), NEW c, c = Times(t, s)
    PROVE  /\ t \in 1..16 /\ (s = 8 \/ 8 <= t) /\ c \in Nat \ {0} /\ n <= c /\ c % 8 = 0
           /\ IndexOf(c, s, o) = t + o /\ StepsOf(c, s) = t /\ SizeAt(t + o) = c /\ t + o \in Nat
           /\ c < 16 * s <=> t < 16
           /\ 8 * s <= c \/ s = 8
<1>1. CASE s = 8 /\ o = -1
  BY <1>1 DEF SizeAt, StepsOf, Times, IndexOf
<1>2. CASE s = 16 /\ o = 7
  BY <1>2 DEF SizeAt, StepsOf, Times, IndexOf
<1>3. CASE s = 32 /\ o = 15
  BY <1>3 DEF SizeAt, StepsOf, Times, IndexOf
<1>4. CASE s = 64 /\ o = 23
  BY <1>4 DEF SizeAt, StepsOf, Times, IndexOf
<1>5. CASE s = 128 /\ o = 31
  BY <1>5 DEF SizeAt, StepsOf, Times, IndexOf
<1>6. CASE s = 256 /\ o = 39
  BY <1>6 DEF SizeAt, StepsOf, Times, IndexOf
<1>7. CASE s = 512 /\ o = 47
  BY <1>7 DEF SizeAt, StepsOf, Times, IndexOf
<1>8. CASE s = 1024 /\ o = 55
  BY <1>8 DEF SizeAt, StepsOf, Times, IndexOf
<1> QED BY <1>1, <1>2, <1>3, <1>4, <1>5, <1>6, <1>7, <1>8 DEF IsStep

(* The last size of a row is the first one of the next.                      *)
LEMMA NextRow ==
    ASSUME NEW s \in Int, NEW o \in Int, IsStep(s, o), 16 * s < 16384
    PROVE  InRow(16 * s, 2 * s, o + 8) /\ (16 * s + 2 * s - 1) \div (2 * s) = 8
<1>1. CASE s = 8 /\ o = -1
  <2>1. Slab!RowOf(128) = <<256, 16, 7>>
    BY RowIs
  <2>2. InRow(128, 16, 7)
    BY <2>1 DEF InRow, IsStep
  <2>3. 16 * s = 128 /\ 2 * s = 16 /\ o + 8 = 7 /\ (128 + 16 - 1) \div 16 = 8
    BY <1>1
  <2> QED BY <2>2, <2>3
<1>2. CASE s = 16 /\ o = 7
  <2>1. Slab!RowOf(256) = <<512, 32, 15>>
    BY RowIs
  <2>2. InRow(256, 32, 15)
    BY <2>1 DEF InRow, IsStep
  <2>3. 16 * s = 256 /\ 2 * s = 32 /\ o + 8 = 15 /\ (256 + 32 - 1) \div 32 = 8
    BY <1>2
  <2> QED BY <2>2, <2>3
<1>3. CASE s = 32 /\ o = 15
  <2>1. Slab!RowOf(512) = <<1024, 64, 23>>
    BY RowIs
  <2>2. InRow(512, 64, 23)
    BY <2>1 DEF InRow, IsStep
  <2>3. 16 * s = 512 /\ 2 * s = 64 /\ o + 8 = 23 /\ (512 + 64 - 1) \div 64 = 8
    BY <1>3
  <2> QED BY <2>2, <2>3
<1>4. CASE s = 64 /\ o = 23
  <2>1. Slab!RowOf(1024) = <<2048, 128, 31>>
    BY RowIs
  <2>2. InRow(1024, 128, 31)
    BY <2>1 DEF InRow, IsStep
  <2>3. 16 * s = 1024 /\ 2 * s = 128 /\ o + 8 = 31 /\ (1024 + 128 - 1) \div 128 = 8
    BY <1>4
  <2> QED BY <2>2, <2>3
<1>5. CASE s = 128 /\ o = 31
  <2>1. Slab!RowOf(2048) = <<4096, 256, 39>>
    BY RowIs
  <2>2. InRow(2048, 256, 39)
    BY <2>1 DEF InRow, IsStep
  <2>3. 16 * s = 2048 /\ 2 * s = 256 /\ o + 8 = 39 /\ (2048 + 256 - 1) \div 256 = 8
    BY <1>5
  <2> QED BY <2>2, <2>3
<1>6. CASE s = 256 /\ o = 39
  <2>1. Slab!RowOf(4096) = <<8192, 512, 47>>
    BY RowIs
  <2>2. InRow(4096, 512, 47)
    BY <2>1 DEF InRow, IsStep
  <2>3. 16 * s = 4096 /\ 2 * s = 512 /\ o + 8 = 47 /\ (4096 + 512 - 1) \div 512 = 8
    BY <1>6
  <2> QED BY <2>2, <2>3
<1>7. CASE s = 512 /\ o = 47
  <2>1. Slab!RowOf(8192) = <<16384, 1024, 55>>
    BY RowIs
  <2>2. InRow(8192, 1024, 55)
    BY <2>1 DEF InRow, IsStep
  <2>3. 16 * s = 8192 /\ 2 * s = 1024 /\ o + 8 = 55 /\ (8192 + 1024 - 1) \div 1024 = 8
    BY <1>7
  <2> QED BY <2>2, <2>3
<1>8. ~(s = 1024)
  OBVIOUS
<1> QED BY <1>1, <1>2, <1>3, <1>4, <1>5, <1>6, <1>7, <1>8 DEF IsStep

LEMMA ChunkOf ==
    ASSUME NEW n \in Nat, n < 16384, NEW s \in Int, NEW o \in Int, InRow(n, s, o), NEW t, t = StepsOf(n, s)
    PROVE  Slab!ChunkSize(n) = Times(t, s) /\ Slab!ZoneIndex(n) = IndexOf(Times(t, s), s, o)
<1>1. Slab!RowOf(n)[2] = s /\ Slab!RowOf(n)[3] = o
  BY DEF InRow
<1>2. Slab!ChunkSize(n) = Times(t, s)
  BY <1>1 DEF Slab!ChunkSize, Slab!UpTo, Times, StepsOf
<1>3. Slab!ZoneIndex(n) = Slab!ChunkSize(n) \div s + o
  BY <1>1 DEF Slab!ZoneIndex
<1> QED BY ONLY <1>2, <1>3 DEF IndexOf

LEMMA ZoneIndexFacts ==
    ASSUME NEW n \in Nat \ {0}, n < 16384, NEW c, c = Slab!ChunkSize(n), NEW i, i = Slab!ZoneIndex(n)
    PROVE  /\ c \in Nat \ {0} /\ n <= c /\ c % 8 = 0 /\ i \in Nat /\ c = SizeAt(i)
           /\ c < 16384 => Slab!ChunkSize(c) = c /\ Slab!ZoneIndex(c) = i
<1>1. PICK s, o \in Int : InRow(n, s, o)
  BY RowExists
<1>2. PICK t : t = StepsOf(n, s)
  OBVIOUS
<1>3. IsStep(s, o) /\ n < 16 * s /\ (s = 8 \/ 8 * s <= n)
  BY <1>1 DEF InRow
<1>4. c = Times(t, s) /\ i = IndexOf(c, s, o)
  <2>1. n \in Nat
    OBVIOUS
  <2> QED BY ONLY <1>1, <1>2, <2>1, ChunkOf, n < 16384, c = Slab!ChunkSize(n), i = Slab!ZoneIndex(n)
<1>5. /\ t \in 1..16 /\ (s = 8 \/ 8 <= t) /\ c \in Nat \ {0} /\ n <= c /\ c % 8 = 0
      /\ IndexOf(c, s, o) = t + o /\ StepsOf(c, s) = t /\ SizeAt(t + o) = c /\ t + o \in Nat
      /\ c < 16 * s <=> t < 16
      /\ 8 * s <= c \/ s = 8
  BY ONLY <1>1, <1>2, <1>3, <1>4, StepFacts, n \in Nat \ {0}
<1>6. i = t + o
  BY <1>4, <1>5
<1>7. ASSUME c < 16384 PROVE Slab!ChunkSize(c) = c /\ Slab!ZoneIndex(c) = i
  <2>0. c \in Nat
    BY <1>5
  <2>1. CASE t < 16
    <3>1. PICK u, r \in Int : InRow(c, u, r)
      BY <2>0, <1>7, RowExists
    <3>2. u = s /\ r = o
      <4>1. IsStep(u, r) /\ c < 16 * u /\ (u = 8 \/ 8 * u <= c)
        BY <3>1 DEF InRow
      <4>2. c < 16 * s /\ (s = 8 \/ 8 * s <= c)
        BY <1>5, <2>1
      <4> QED BY ONLY <4>1, <4>2, <1>3, <1>5 DEF IsStep
    <3>3. InRow(c, s, o) /\ t = StepsOf(c, s)
      BY <3>1, <3>2, <1>5
    <3>4. Slab!ChunkSize(c) = Times(t, s) /\ Slab!ZoneIndex(c) = IndexOf(Times(t, s), s, o)
      BY ONLY <2>0, <1>7, <1>1, <3>3, ChunkOf
    <3> QED BY <3>4, <1>4
  <2>2. CASE t = 16
    <3>1. c = 16 * s
      BY <1>4, <2>2 DEF Times
    <3>2. InRow(16 * s, 2 * s, o + 8) /\ (16 * s + 2 * s - 1) \div (2 * s) = 8
      BY <1>3, <1>7, <3>1, NextRow
    <3>3. PICK u, r \in Int : u = 2 * s /\ r = o + 8
      OBVIOUS
    <3>4. PICK e : e = StepsOf(c, u)
      OBVIOUS
    <3>5. InRow(c, u, r) /\ e = 8
      BY <3>1, <3>2, <3>3, <3>4 DEF StepsOf
    <3>50. u \in Int /\ r \in Int /\ InRow(c, u, r)
      BY <3>3, <3>5
    <3>6. Slab!ChunkSize(c) = Times(e, u) /\ Slab!ZoneIndex(c) = IndexOf(Times(e, u), u, r)
      BY ONLY <2>0, <1>7, <3>4, <3>50, ChunkOf
    <3>7. Times(e, u) = c /\ IndexOf(c, u, r) = 8 + r
      BY <3>1, <3>3, <3>5, <1>3 DEF IsStep, Times, IndexOf
    <3> QED BY <3>3, <3>6, <3>7, <1>6, <2>2
  <2> QED BY <2>1, <2>2, <1>5
<1> QED BY <1>5, <1>6, <1>7

-----------------------------------------------------------------------------
(* Pages and bytes.                                                          *)
LEMMA DivFacts ==
    ASSUME NEW a \in Nat, NEW b \in Nat \ {0}, NEW q, q = a \div b
    PROVE  q \in Nat /\ q * b <= a /\ a < q * b + b
  OBVIOUS

LEMMA DivIs ==
    ASSUME NEW a \in Nat, NEW b \in Nat \ {0}, NEW q \in Nat, q * b <= a, a < q * b + b
    PROVE  a \div b = q
<1>1. PICK r : r = a \div b
  OBVIOUS
<1>2. r \in Nat /\ r * b <= a /\ a < r * b + b
  BY <1>1, DivFacts
<1>3. ASSUME r < q PROVE FALSE
  <2>1. r + 1 <= q
    BY <1>2, <1>3
  <2>2. (r + 1) * b <= q * b
    BY <1>2, <2>1
  <2>3. (r + 1) * b = r * b + b
    BY <1>2
  <2> QED BY <1>2, <2>2, <2>3
<1>4. ASSUME q < r PROVE FALSE
  <2>1. q + 1 <= r
    BY <1>2, <1>4
  <2>2. (q + 1) * b <= r * b
    BY <1>2, <2>1
  <2>3. (q + 1) * b = q * b + b
    OBVIOUS
  <2> QED BY <1>2, <2>2, <2>3
<1> QED BY <1>1, <1>2, <1>3, <1>4

(* Where page q begins.                                                      *)
PageAt(q) == q * PageSize

PageOf(a) == a \div PageSize

LEMMA PageAtFacts ==
    ASSUME NEW p \in Nat, NEW q \in Nat
    PROVE  /\ PageAt(p) \in Nat /\ PageOf(PageAt(p)) = p /\ PageSize * p = PageAt(p) /\ PageAt(p) % 8 = 0
           /\ PageAt(p + q) = PageAt(p) + PageAt(q)
           /\ p < q => PageAt(p) + PageSize <= PageAt(q)
           /\ q > 0 => PageSize <= PageAt(q)
           /\ PageAt(p) = PageAt(q) => p = q
<1>1. PageSize \in Nat \ {0} /\ PageSize % 8 = 0
  BY SlabAssumption
<1>2. PageAt(p) \in Nat /\ PageAt(q) \in Nat /\ PageSize * p = PageAt(p)
  BY <1>1 DEF PageAt
<1>3. PageOf(PageAt(p)) = p
  <2>1. PICK a : a = PageAt(p)
    OBVIOUS
  <2>2. a \in Nat /\ p * PageSize <= a /\ a < p * PageSize + PageSize
    BY <1>1, <1>2, <2>1 DEF PageAt
  <2> QED BY <2>1, <2>2, <1>1, DivIs DEF PageOf
<1>4. PageAt(p) % 8 = 0
  <2>1. PICK d \in Nat : PageSize = 8 * d
    <3>1. PageSize = 8 * (PageSize \div 8) /\ PageSize \div 8 \in Nat
      BY <1>1
    <3> QED BY <3>1
  <2>2. PICK e : e = p * d
    OBVIOUS
  <2>3. e \in Nat /\ PageAt(p) = 8 * e
    BY <2>1, <2>2 DEF PageAt
  <2> QED BY ONLY <2>3
<1>5. PageAt(p + q) = PageAt(p) + PageAt(q)
  BY <1>1 DEF PageAt
<1>6. ASSUME p < q PROVE PageAt(p) + PageSize <= PageAt(q)
  <2>1. p + 1 <= q
    BY <1>6
  <2>2. (p + 1) * PageSize <= q * PageSize
    BY <1>1, <2>1
  <2>3. (p + 1) * PageSize = p * PageSize + PageSize
    BY <1>1
  <2> QED BY <2>2, <2>3 DEF PageAt
<1>7. ASSUME q > 0 PROVE PageSize <= PageAt(q)
  <2>1. 1 * PageSize <= q * PageSize
    BY <1>1, <1>7
  <2> QED BY <2>1, <1>1 DEF PageAt
<1>8. ASSUME PageAt(p) = PageAt(q) PROVE p = q
  <2>1. q * PageSize <= PageAt(p) /\ PageAt(p) < q * PageSize + PageSize
    BY <1>1, <1>2, <1>8 DEF PageAt
  <2>2. PICK a : a = PageAt(p)
    OBVIOUS
  <2>3. a \div PageSize = q
    BY <1>1, <1>2, <2>1, <2>2, DivIs
  <2> QED BY <1>3, <2>2, <2>3 DEF PageOf
<1> QED BY <1>2, <1>3, <1>4, <1>5, <1>6, <1>7, <1>8

LEMMA PageOfFacts ==
    ASSUME NEW a \in Nat, NEW p \in Nat, NEW q, q = PageOf(a)
    PROVE  /\ q \in Nat /\ PageAt(q) <= a /\ a < PageAt(q) + PageSize
           /\ PageAt(p) <= a => p <= q
           /\ a < PageAt(p) => q < p
<1>1. PageSize \in Nat \ {0}
  BY SlabAssumption
<1>2. q \in Nat /\ PageAt(q) <= a /\ a < PageAt(q) + PageSize
  BY <1>1, DivFacts DEF PageOf, PageAt
<1>3. PageAt(p) \in Nat /\ PageAt(q) \in Nat /\ (p < q => PageAt(p) + PageSize <= PageAt(q))
      /\ (q < p => PageAt(q) + PageSize <= PageAt(p)) /\ (p = q => PageAt(p) = PageAt(q))
  BY <1>2, PageAtFacts
<1> QED BY ONLY <1>1, <1>2, <1>3, a \in Nat, p \in Nat

(* What a large request takes.                                               *)
LEMMA LargeFacts ==
    ASSUME NEW n \in Nat \ {0}, NEW h, h = Slab!LargePages(n)
    PROVE  h \in Nat \ {0} /\ n <= PageAt(h) /\ Slab!UpTo(n, PageSize) = PageAt(h)
<1>1. PageSize \in Nat \ {0}
  BY SlabAssumption
<1>2. PICK m, t : m = n + PageSize - 1 /\ t = m \div PageSize
  OBVIOUS
<1>3. m \in Nat
  BY <1>1, <1>2
<1>4. t \in Nat /\ PageAt(t) <= m /\ m < PageAt(t) + PageSize
  BY <1>2, <1>3, PageOfFacts DEF PageOf
<1>5. PageAt(0) = 0
  BY <1>1 DEF PageAt
<1>6. t # 0 /\ n <= PageAt(t)
  <2>1. PICK u : u = PageAt(t)
    OBVIOUS
  <2>2. u \in Nat /\ m < u + PageSize /\ m = n + PageSize - 1
    BY <1>2, <1>4, <2>1, PageAtFacts
  <2>3. n <= u
    BY ONLY <1>1, <2>2, n \in Nat \ {0}
  <2> QED BY <1>5, <2>1, <2>3
<1>7. Slab!UpTo(n, PageSize) = PageAt(t)
  BY <1>2 DEF Slab!UpTo, PageAt
<1>8. h = t
  BY <1>4, <1>7, PageAtFacts DEF Slab!LargePages, PageOf
<1> QED BY <1>4, <1>6, <1>7, <1>8

(* The bytes of a run of pages.                                              *)
LEMMA BytesInPages ==
    ASSUME NEW p \in Nat, NEW n \in Nat, NEW y \in Nat, PageAt(p) <= y, y < PageAt(p) + PageAt(n)
    PROVE  Between(p, n, PageOf(y)) /\ PageOf(y) \in Nat
<1>1. PICK e : e = p + n
  OBVIOUS
<1>2. e \in Nat /\ PageAt(e) = PageAt(p) + PageAt(n)
  BY <1>1, PageAtFacts
<1>3. p <= PageOf(y) /\ PageOf(y) < e /\ PageOf(y) \in Nat
  BY <1>2, PageOfFacts
<1> QED BY <1>1, <1>3 DEF Between

-----------------------------------------------------------------------------
(* Zones.  Chunk i of a zone at page p, whose chunks are s bytes from b on.  *)
ChunkAt(p, b, s, i) == PageAt(p) + b + i * s

(* n of them fit into a zone.                                                *)
InZone(b, s, n) == b + n * s <= PageAt(ZonePages)

LEMMA ChunkAtFacts ==
    ASSUME NEW p \in Nat, NEW b \in Nat, NEW s \in Nat \ {0}, NEW n \in Nat,
           b % 8 = 0, s % 8 = 0, InZone(b, s, n),
           NEW i \in 0..(n - 1), NEW a, a = ChunkAt(p, b, s, i)
    PROVE  /\ a \in Nat /\ a % 8 = 0 /\ PageAt(p) <= a /\ a + s <= PageAt(p) + PageAt(ZonePages)
           /\ Between(p, ZonePages, PageOf(a)) /\ PageOf(a) \in Nat
<1>1. PICK u, v, w, x : u = PageAt(p) /\ v = i * s /\ w = n * s /\ x = PageAt(ZonePages)
  OBVIOUS
<1>2. u \in Nat /\ x \in Nat /\ u % 8 = 0
  BY <1>1, SlabNats, PageAtFacts
<1>3. i \in Nat /\ i + 1 <= n
  OBVIOUS
<1>4. v \in Nat /\ w \in Nat /\ v + s <= w
  <2>1. (i + 1) * s <= n * s
    BY <1>3
  <2>2. (i + 1) * s = i * s + s
    BY <1>3
  <2> QED BY <1>1, <1>3, <2>1, <2>2
<1>5. v % 8 = 0
  <2>1. PICK d \in Nat : s = 8 * d
    <3>1. s = 8 * (s \div 8) /\ s \div 8 \in Nat
      OBVIOUS
    <3> QED BY <3>1
  <2>2. PICK e : e = i * d
    OBVIOUS
  <2>3. e \in Nat /\ v = 8 * e
    BY <1>1, <1>3, <2>1, <2>2
  <2> QED BY ONLY <2>3
<1>6. a = u + b + v
  BY <1>1 DEF ChunkAt
<1>7. b + w <= x
  BY <1>1 DEF InZone
<1>8. a \in Nat /\ u <= a /\ a + s <= u + x
  BY ONLY <1>2, <1>4, <1>6, <1>7, b \in Nat, s \in Nat \ {0}
<1>9. a % 8 = 0
  BY ONLY <1>2, <1>4, <1>5, <1>6, b \in Nat, b % 8 = 0
<1>10. Between(p, ZonePages, PageOf(a)) /\ PageOf(a) \in Nat
  BY <1>1, <1>2, <1>8, SlabNats, BytesInPages
<1> QED BY <1>1, <1>8, <1>9, <1>10

LEMMA ChunksApart ==
    ASSUME NEW p \in Nat, NEW b \in Nat, NEW s \in Nat \ {0}, NEW i \in Nat, NEW j \in Nat, i < j
    PROVE  ChunkAt(p, b, s, i) + s <= ChunkAt(p, b, s, j)
<1>1. PageAt(p) \in Nat
  BY PageAtFacts
<1>2. (i + 1) * s <= j * s /\ (i + 1) * s = i * s + s
  OBVIOUS
<1>3. PICK u, v, w : u = PageAt(p) /\ v = i * s /\ w = j * s
  OBVIOUS
<1>4. v \in Nat /\ w \in Nat /\ v + s <= w /\ u \in Nat
  BY <1>1, <1>2, <1>3
<1> QED BY ONLY <1>3, <1>4, b \in Nat, s \in Nat \ {0} DEF ChunkAt

(* How many chunks fit, and where they begin.                                *)
LEMMA RoundUp ==
    ASSUME NEW n \in Nat, NEW s \in Nat \ {0}, NEW u, u = Slab!UpTo(n, s)
    PROVE  u \in Nat /\ n <= u /\ (s % 8 = 0 => u % 8 = 0)
<1>1. PICK m, t : m = n + s - 1 /\ t = m \div s
  OBVIOUS
<1>20. m \in Nat
  BY <1>1
<1>2. m \in Nat /\ t \in Nat /\ t * s <= m /\ m < t * s + s
  BY ONLY <1>1, <1>20, DivFacts, s \in Nat \ {0}
<1>3. PICK v : v = t * s
  OBVIOUS
<1>4. u = v /\ v \in Nat /\ m < v + s
  BY <1>1, <1>2, <1>3 DEF Slab!UpTo
<1>5. n <= v
  BY ONLY <1>1, <1>4, n \in Nat, s \in Nat \ {0}
<1>6. ASSUME s % 8 = 0 PROVE v % 8 = 0
  <2>1. PICK d \in Nat : s = 8 * d
    <3>1. s = 8 * (s \div 8) /\ s \div 8 \in Nat
      BY <1>6
    <3> QED BY <3>1
  <2>2. PICK e : e = t * d
    OBVIOUS
  <2>3. e \in Nat /\ v = 8 * e
    BY <1>2, <1>3, <2>1, <2>2
  <2> QED BY ONLY <2>3
<1> QED BY <1>4, <1>5, <1>6

LEMMA BaseFacts ==
    ASSUME NEW s \in Nat \ {0}, s % 8 = 0, NEW b, b = Slab!BaseOf(s)
    PROVE  b \in Nat /\ b % 8 = 0
<1>1. PICK w : w = IF Slab!IsPowerOf2(s) THEN s ELSE 8
  OBVIOUS
<1>2. b = Slab!UpTo(ZoneHeader, w)
  BY <1>1 DEF Slab!BaseOf, Slab!MinChunk
<1>3. w \in Nat \ {0} /\ w % 8 = 0
  BY <1>1
<1> QED BY <1>2, <1>3, RoundUp, SlabNats

(* A zone for requests of n bytes: its size, and how many chunks it has.     *)
ChunksIn(s, b) == (ZonePages * PageSize - b) \div s

LEMMA ZoneShape ==
    ASSUME NEW n \in Slab!Sizes \ {0}, n < ZoneLimit, NEW s, s = Slab!ChunkSize(n), NEW b, b = Slab!BaseOf(s),
           NEW m, m = ChunksIn(s, b)
    PROVE  /\ s \in Nat \ {0} /\ s % 8 = 0 /\ b \in Nat /\ b % 8 = 0 /\ m \in Nat /\ 2 <= m
           /\ InZone(b, s, m)
<1>1. n \in Nat \ {0} /\ n < 16384
  <2>1. PICK c \in Callers : n \in c.sizes
    BY DEF Slab!Sizes
  <2>2. n \in Nat /\ n # 0
    BY <2>1, SlabAssumption
  <2>3. ZoneLimit \in Nat /\ ZoneLimit <= 16384
    BY SlabAssumption
  <2> QED BY <2>2, <2>3
<1>2. s \in Nat \ {0} /\ s % 8 = 0
  BY <1>1, ZoneIndexFacts
<1>3. b \in Nat /\ b % 8 = 0
  BY <1>2, BaseFacts
<1>4. PICK z : z = PageAt(ZonePages)
  OBVIOUS
<1>5. z \in Nat /\ z = ZonePages * PageSize
  BY <1>4, SlabNats, PageAtFacts DEF PageAt
<1>6. b + 2 * s <= z
  BY <1>5, SlabChunkAssumption
<1>7. PICK d : d = z - b
  OBVIOUS
<1>8. d \in Nat /\ 2 * s <= d
  BY ONLY <1>2, <1>3, <1>5, <1>6, <1>7
<1>9. m = d \div s
  BY <1>5, <1>7 DEF ChunksIn
<1>10. m \in Nat /\ m * s <= d /\ d < m * s + s
  BY <1>2, <1>8, <1>9, DivFacts
<1>11. 2 <= m
  <2>1. ASSUME m < 2 PROVE FALSE
    <3>1. m + 1 <= 2
      BY <1>10, <2>1
    <3>2. (m + 1) * s <= 2 * s /\ (m + 1) * s = m * s + s
      BY <1>2, <1>10, <3>1
    <3> QED BY <1>2, <1>8, <1>10, <3>2
  <2> QED BY <2>1, <1>10
<1>12. b + m * s <= z
  <2>1. PICK v : v = m * s
    OBVIOUS
  <2>2. v \in Nat /\ v <= d
    BY <1>2, <1>10, <2>1
  <2> QED BY ONLY <1>3, <1>5, <1>7, <2>1, <2>2
<1> QED BY <1>2, <1>3, <1>4, <1>10, <1>11, <1>12 DEF InZone

-----------------------------------------------------------------------------
(* What slab.c keeps.                                                        *)
Pg == 0..(Pages - 1)
Addr == Slab!Chunk8
Kinds == {"none", "usage", "zone", "spare", "large", "raw"}

ZoneRec == [index : Int, size : Nat, nfree : Int, nmax : Int, uindex : Int, base : Nat, chunks : Seq(Addr)]

SlabState == [pages : Seq(FreeRun),
              usage : [Pg -> [type : {"free", "small", "large"}, size : Nat]],
              zone  : [Pg -> ZoneRec],
              array : [Slab!Indices -> Seq(Pg)],
              spare : Seq(Pg), used : Int, max : Int]

(* Who has each page: the first page of a run that somebody has, or -1; what *)
(* such a run is for, and its length.                                        *)
Owners == [own : [Pg -> -1..(Pages - 1)], kind : [Pg -> Kinds], len : [Pg -> Nat]]

PagesParted(L, g) ==
    /\ \A q \in Pg : g.own[q] = -1 <=> IsFree(L, q)
    /\ \A q \in Pg : g.own[q] # -1 => g.kind[g.own[q]] # "none"
    /\ \A p \in Pg : g.kind[p] # "none" =>
          /\ g.len[p] > 0 /\ p + g.len[p] <= Pages
          /\ \A q \in Pg : g.own[q] = p <=> Between(p, g.len[p], q)

Claim(g, p, n, k) ==
    [own  |-> [q \in Pg |-> IF Between(p, n, q) THEN p ELSE g.own[q]],
     kind |-> [g.kind EXCEPT ![p] = k],
     len  |-> [g.len EXCEPT ![p] = n]]
Drop(g, p) ==
    [own  |-> [q \in Pg |-> IF g.own[q] = p THEN -1 ELSE g.own[q]],
     kind |-> [g.kind EXCEPT ![p] = "none"],
     len  |-> g.len]
Becomes(g, p, k) == [g EXCEPT !.kind = [g.kind EXCEPT ![p] = k]]

(* n pages from p on lie in the heap; they are free; without them, with them. *)
InHeap(p, n) == n \in Nat /\ n > 0 /\ p + n <= Pages
AllFree(L, p, n) == \A q \in Int : Between(p, n, q) => IsFree(L, q)
Less(M, L, p, n) == \A q \in Int : IsFree(M, q) <=> IsFree(L, q) /\ ~Between(p, n, q)
More(M, L, p, n) == \A q \in Int : IsFree(M, q) <=> IsFree(L, q) \/ Between(p, n, q)

(* The claim and what is dropped, by their effect.                           *)
Claimed(M, g, h, p, n, k) ==
    /\ h \in Owners /\ PagesParted(M, h)
    /\ h.kind[p] = k /\ h.len[p] = n /\ g.kind[p] = "none"
    /\ \A q \in Pg : q # p => h.kind[q] = g.kind[q] /\ h.len[q] = g.len[q]
    /\ \A q \in Pg : h.own[q] = IF Between(p, n, q) THEN p ELSE g.own[q]
    /\ \A q \in Pg : Between(p, n, q) => g.own[q] = -1
Dropped(M, g, h, p) ==
    /\ h \in Owners /\ PagesParted(M, h)
    /\ h.kind[p] = "none"
    /\ \A q \in Pg : q # p => h.kind[q] = g.kind[q]
    /\ \A q \in Pg : h.len[q] = g.len[q]
    /\ \A q \in Pg : h.own[q] = IF g.own[q] = p THEN -1 ELSE g.own[q]

LEMMA PgFacts ==
    /\ Pages \in Nat \ {0} /\ Pg \subseteq Nat /\ Slab!Page = Pg /\ -1 \notin Pg /\ 0 \in Pg
    /\ -1..(Pages - 1) = Pg \cup {-1} /\ Pg \subseteq Int
  BY SlabNats DEF Pg

LEMMA ClaimParts ==
    ASSUME NEW L, NEW M, NEW g \in Owners, PagesParted(L, g), NEW p \in Pg, NEW n, InHeap(p, n),
           AllFree(L, p, n), Less(M, L, p, n),
           NEW k \in Kinds, k # "none", NEW h, h = Claim(g, p, n, k)
    PROVE  Claimed(M, g, h, p, n, k)
<1>0. /\ n \in Nat /\ n > 0 /\ p + n <= Pages
      /\ \A q \in Int : Between(p, n, q) => IsFree(L, q)
      /\ \A q \in Int : IsFree(M, q) <=> IsFree(L, q) /\ ~Between(p, n, q)
  BY DEF InHeap, AllFree, Less
<1>1. /\ g.own \in [Pg -> -1..(Pages - 1)] /\ g.kind \in [Pg -> Kinds] /\ g.len \in [Pg -> Nat]
  BY DEF Owners
<1>2. h.own = [q \in Pg |-> IF Between(p, n, q) THEN p ELSE g.own[q]]
      /\ h.kind = [g.kind EXCEPT ![p] = k] /\ h.len = [g.len EXCEPT ![p] = n]
  BY DEF Claim
<1>3. h \in Owners
  <2>1. h.own \in [Pg -> -1..(Pages - 1)]
    BY <1>1, <1>2, PgFacts
  <2>2. h.kind \in [Pg -> Kinds] /\ h.len \in [Pg -> Nat]
    BY <1>0, <1>1, <1>2
  <2>3. h = [own |-> h.own, kind |-> h.kind, len |-> h.len]
    BY DEF Claim
  <2> QED BY <2>1, <2>2, <2>3 DEF Owners
<1>4. h.kind[p] = k /\ h.len[p] = n /\ (\A q \in Pg : q # p => h.kind[q] = g.kind[q] /\ h.len[q] = g.len[q])
      /\ \A q \in Pg : h.own[q] = IF Between(p, n, q) THEN p ELSE g.own[q]
  BY <1>1, <1>2
<1>5. \A q \in Pg : Between(p, n, q) => g.own[q] = -1
  BY <1>0, PgFacts DEF PagesParted
<1>6. Between(p, n, p)
  BY <1>0, PgFacts DEF Between
<1>7. g.kind[p] = "none"
  <2>1. ASSUME g.kind[p] # "none" PROVE FALSE
    <3>1. g.len[p] > 0 /\ (g.own[p] = p <=> Between(p, g.len[p], p))
      BY <2>1 DEF PagesParted
    <3>2. Between(p, g.len[p], p)
      BY <1>1, <3>1, PgFacts DEF Between
    <3> QED BY <1>5, <1>6, <3>1, <3>2, PgFacts
  <2> QED BY <2>1
<1>8. \A q \in Pg : h.own[q] = -1 <=> IsFree(M, q)
  BY <1>0, <1>4, PgFacts DEF PagesParted
<1>9. \A q \in Pg : h.own[q] # -1 => h.kind[h.own[q]] # "none"
  <2>1. ASSUME NEW q \in Pg, h.own[q] # -1 PROVE h.kind[h.own[q]] # "none"
    <3>1. CASE Between(p, n, q)
      BY <1>4, <3>1
    <3>2. CASE ~Between(p, n, q)
      <4>1. h.own[q] = g.own[q] /\ g.own[q] # -1 /\ g.kind[g.own[q]] # "none" /\ g.own[q] \in Pg
        BY <1>1, <1>4, <2>1, <3>2, PgFacts DEF PagesParted
      <4> QED BY <1>4, <1>7, <4>1
    <3> QED BY <3>1, <3>2
  <2> QED BY <2>1
<1>10. ASSUME NEW r \in Pg, h.kind[r] # "none"
       PROVE  /\ h.len[r] > 0 /\ r + h.len[r] <= Pages
              /\ \A q \in Pg : h.own[q] = r <=> Between(r, h.len[r], q)
  <2>1. CASE r = p
    <3>1. ASSUME NEW q \in Pg PROVE h.own[q] = p <=> Between(p, n, q)
      <4>1. g.own[q] # p
        <5>1. ASSUME g.own[q] = p PROVE FALSE
          <6>1. g.kind[p] # "none"
            BY <5>1, PgFacts DEF PagesParted
          <6> QED BY <6>1, <1>7
        <5> QED BY <5>1
      <4> QED BY <4>1, <1>4
    <3> QED BY <1>0, <1>4, <2>1, <3>1
  <2>2. CASE r # p
    <3>1. h.kind[r] = g.kind[r] /\ h.len[r] = g.len[r]
      BY <1>4, <2>2
    <3>2. /\ g.len[r] > 0 /\ r + g.len[r] <= Pages
          /\ \A q \in Pg : g.own[q] = r <=> Between(r, g.len[r], q)
      BY <1>10, <3>1 DEF PagesParted
    <3>3. ASSUME NEW q \in Pg PROVE h.own[q] = r <=> g.own[q] = r
      BY <1>4, <1>5, <2>2, PgFacts
    <3> QED BY <3>1, <3>2, <3>3
  <2> QED BY <2>1, <2>2
<1> QED BY <1>3, <1>4, <1>5, <1>7, <1>8, <1>9, <1>10 DEF PagesParted, Claimed

LEMMA DropParts ==
    ASSUME NEW L, NEW M, NEW g \in Owners, PagesParted(L, g), NEW p \in Pg, g.kind[p] # "none", NEW n, n = g.len[p],
           More(M, L, p, n), NEW h, h = Drop(g, p)
    PROVE  Dropped(M, g, h, p)
<1>1. /\ g.own \in [Pg -> -1..(Pages - 1)] /\ g.kind \in [Pg -> Kinds] /\ g.len \in [Pg -> Nat]
  BY DEF Owners
<1>2. h.own = [q \in Pg |-> IF g.own[q] = p THEN -1 ELSE g.own[q]]
      /\ h.kind = [g.kind EXCEPT ![p] = "none"] /\ h.len = g.len
  BY DEF Drop
<1>3. h \in Owners
  <2>1. h.own \in [Pg -> -1..(Pages - 1)]
    BY <1>1, <1>2, PgFacts
  <2>2. h.kind \in [Pg -> Kinds] /\ h.len \in [Pg -> Nat]
    BY <1>1, <1>2 DEF Kinds
  <2>3. h = [own |-> h.own, kind |-> h.kind, len |-> h.len]
    BY DEF Drop
  <2> QED BY <2>1, <2>2, <2>3 DEF Owners
<1>4. h.kind[p] = "none" /\ (\A q \in Pg : q # p => h.kind[q] = g.kind[q])
      /\ (\A q \in Pg : h.len[q] = g.len[q])
      /\ \A q \in Pg : h.own[q] = IF g.own[q] = p THEN -1 ELSE g.own[q]
  BY <1>1, <1>2
<1>5. \A q \in Pg : g.own[q] = p <=> Between(p, n, q)
  BY DEF PagesParted
<1>6. \A q \in Pg : h.own[q] = -1 <=> IsFree(M, q)
  BY <1>4, <1>5, PgFacts DEF PagesParted, More
<1>7. ASSUME NEW q \in Pg, h.own[q] # -1 PROVE h.kind[h.own[q]] # "none"
  <2>1. h.own[q] = g.own[q] /\ g.own[q] # p /\ g.own[q] # -1
    BY <1>4, <1>7
  <2>2. g.own[q] \in Pg /\ g.kind[g.own[q]] # "none"
    BY <1>1, <2>1, PgFacts DEF PagesParted
  <2> QED BY <1>4, <2>1, <2>2
<1>8. ASSUME NEW r \in Pg, h.kind[r] # "none"
      PROVE  /\ h.len[r] > 0 /\ r + h.len[r] <= Pages
             /\ \A q \in Pg : h.own[q] = r <=> Between(r, h.len[r], q)
  <2>1. r # p /\ h.kind[r] = g.kind[r] /\ h.len[r] = g.len[r]
    BY <1>4, <1>8
  <2>2. /\ g.len[r] > 0 /\ r + g.len[r] <= Pages
        /\ \A q \in Pg : g.own[q] = r <=> Between(r, g.len[r], q)
    BY <1>8, <2>1 DEF PagesParted
  <2>3. ASSUME NEW q \in Pg PROVE h.own[q] = r <=> g.own[q] = r
    BY <1>4, <2>1, PgFacts
  <2> QED BY <2>1, <2>2, <2>3
<1> QED BY <1>3, <1>4, <1>6, <1>7, <1>8 DEF PagesParted, Dropped

LEMMA BecomesParts ==
    ASSUME NEW L, NEW g \in Owners, PagesParted(L, g), NEW p \in Pg, g.kind[p] # "none", NEW k \in Kinds, k # "none",
           NEW h, h = Becomes(g, p, k)
    PROVE  /\ h \in Owners /\ PagesParted(L, h)
           /\ h.kind[p] = k /\ (\A q \in Pg : q # p => h.kind[q] = g.kind[q])
           /\ h.len = g.len /\ h.own = g.own
<1>1. /\ g.own \in [Pg -> -1..(Pages - 1)] /\ g.kind \in [Pg -> Kinds] /\ g.len \in [Pg -> Nat]
  BY DEF Owners
<1>2. h.kind = [g.kind EXCEPT ![p] = k] /\ h.len = g.len /\ h.own = g.own
  BY DEF Becomes, Owners
<1>3. h.kind \in [Pg -> Kinds] /\ h.kind[p] = k /\ (\A q \in Pg : q # p => h.kind[q] = g.kind[q])
  BY <1>1, <1>2
<1>4. h \in Owners
  BY <1>3 DEF Becomes, Owners
<1>5. \A q \in Pg : h.kind[q] # "none" <=> g.kind[q] # "none"
  BY <1>3
<1>6. \A q \in Pg : g.own[q] # -1 => g.own[q] \in Pg
  BY <1>1, PgFacts
<1> QED BY <1>2, <1>3, <1>4, <1>5, <1>6 DEF PagesParted

(* A zone at page p.                                                         *)
ZoneKind(z) ==
    /\ \E n \in Slab!Sizes \ {0} : n < ZoneLimit /\ z.index = Slab!ZoneIndex(n) /\ z.size = Slab!ChunkSize(n)
    /\ z.base = Slab!BaseOf(z.size) /\ z.nmax = ChunksIn(z.size, z.base)
    /\ z.uindex \in 0..(z.nmax - 1)

ChunkOfZone(z, p, i) == ChunkAt(p, z.base, z.size, i)

ZoneOk(z, p, lv) ==
    /\ ZoneKind(z)
    /\ IsOnce(z.chunks)
    /\ z.nfree = (z.nmax - 1 - z.uindex) + Len(z.chunks)
    /\ \A c \in Elems(z.chunks) : lv[c] = 0 /\ \E i \in 0..z.uindex : c = ChunkOfZone(z, p, i)
    /\ \A i \in 0..z.uindex : lv[ChunkOfZone(z, p, i)] > 0 \/ ChunkOfZone(z, p, i) \in Elems(z.chunks)
    /\ \A a \in Addr : lv[a] > 0 /\ Between(p, ZonePages, PageOf(a)) =>
          lv[a] <= z.size /\ \E i \in 0..z.uindex : a = ChunkOfZone(z, p, i)

(* What the pages are used for.                                              *)
UsesFit(x, lv, raw, g) ==
    /\ g.kind[0] = "usage" /\ g.len[0] = UsagePages
    /\ \A p \in Pg : g.kind[p] = "usage" => p = 0
    /\ \A p \in Pg : g.kind[p] # "zone" => x.zone[p] = Slab!NoZone
    /\ \A p \in Pg : g.kind[p] = "spare" <=> p \in Elems(x.spare)
    /\ \A p \in Pg : g.kind[p] \in {"zone", "spare"} =>
          /\ g.len[p] = ZonePages
          /\ \A q \in Pg : Between(p, ZonePages, q) => x.usage[q].type = "small" /\ x.usage[q].size = q - p
    /\ \A p \in Pg : g.kind[p] = "raw" <=> PageAt(p) \in raw
    /\ \A p \in Pg : g.kind[p] = "raw" => g.len[p] = 1 /\ lv[PageAt(p)] = PageSize
    /\ \A p \in Pg : g.kind[p] = "large" =>
          /\ lv[PageAt(p)] > 0 /\ g.len[p] = Slab!LargePages(lv[PageAt(p)])
          /\ x.usage[p].type = "large" /\ x.usage[p].size = g.len[p]

(* Every block in the hands of a caller has an owner among them.             *)
BlocksFit(lv, raw, g) ==
    /\ \A a \in raw : \E p \in Pg : a = PageAt(p)
    /\ \A a \in Addr : lv[a] > 0 =>
          \E p \in Pg : /\ g.own[PageOf(a)] = p
                        /\ \/ g.kind[p] = "zone"
                           \/ g.kind[p] \in {"large", "raw"} /\ a = PageAt(p)

ZonesFit(x, lv, g) == \A p \in Pg : g.kind[p] = "zone" => ZoneOk(x.zone[p], p, lv)

ListsFit(x, g) ==
    /\ \A i \in Slab!Indices :
          /\ IsOnce(x.array[i])
          /\ \A p \in Elems(x.array[i]) : g.kind[p] = "zone" /\ x.zone[p].index = i /\ x.zone[p].nfree > 0
    /\ \A p \in Pg : g.kind[p] = "zone" /\ x.zone[p].nfree > 0 => p \in Elems(x.array[x.zone[p].index])
    /\ IsOnce(x.spare) /\ Len(x.spare) <= ReleaseThresh

(* What rt_memory_info is told of the block at a.                            *)
CountedAt(x, lv, a) ==
    IF x.usage[PageOf(a)].type = "large" THEN Slab!UpTo(lv[a], PageSize)
    ELSE x.zone[PageOf(a) - x.usage[PageOf(a)].size].size

LastAddr == (Pages * PageSize) \div 8 - 1
Counts(x, lv, raw) == [k \in 0..LastAddr |-> IF lv[8 * k] > 0 /\ 8 * k \notin raw THEN CountedAt(x, lv, 8 * k) ELSE 0]

UsedFits(x, lv, raw) ==
    /\ \A z : Totals(Counts(x, lv, raw), z, LastAddr) => x.used = z[LastAddr]
    /\ x.used <= x.max

SlabFits(x, lv, raw, g) ==
    /\ x \in SlabState /\ g \in Owners /\ lv \in [Addr -> Nat]
    /\ Ordered(x.pages) /\ PagesParted(x.pages, g)
    /\ UsesFit(x, lv, raw, g) /\ BlocksFit(lv, raw, g) /\ ZonesFit(x, lv, g) /\ ListsFit(x, g)

-----------------------------------------------------------------------------
LEMMA AddrFacts ==
    /\ LastAddr \in Nat /\ 8 * (LastAddr + 1) = PageAt(Pages)
    /\ \A a \in Nat : a \in Addr <=> a % 8 = 0 /\ a < PageAt(Pages)
    /\ Addr \subseteq Nat
    /\ \A k \in 0..LastAddr : 8 * k \in Addr
    /\ \A a \in Addr : a \div 8 \in 0..LastAddr /\ 8 * (a \div 8) = a
    /\ \A a \in Addr : PageOf(a) \in Pg
    /\ \A p \in Pg : PageAt(p) \in Addr
<1>1. PICK e : e = PageAt(Pages)
  OBVIOUS
<1>2. e \in Nat \ {0} /\ e % 8 = 0 /\ e = Pages * PageSize
  <2>1. PageAt(0) = 0 /\ PageAt(0) + PageSize <= PageAt(Pages) /\ PageAt(Pages) \in Nat /\ PageAt(Pages) % 8 = 0
    <3>1. PageAt(0) = 0
      BY SlabNats DEF PageAt
    <3>2. PICK o : o = 0
      OBVIOUS
    <3>3. o \in Nat /\ Pages \in Nat /\ o < Pages
      BY <3>2, SlabNats
    <3>4. PageAt(o) + PageSize <= PageAt(Pages)
      BY ONLY <3>3, PageAtFacts
    <3>5. PageAt(Pages) \in Nat /\ PageAt(Pages) % 8 = 0
      BY ONLY <3>3, PageAtFacts
    <3> QED BY <3>1, <3>2, <3>4, <3>5
  <2> QED BY <1>1, <2>1, SlabNats DEF PageAt
<1>3. LastAddr = e \div 8 - 1
  BY <1>2 DEF LastAddr
<1>4. LastAddr \in Nat /\ 8 * (LastAddr + 1) = e
  BY ONLY <1>2, <1>3
<1>5. Addr = {8 * k : k \in 0..LastAddr}
  BY DEF Addr, Slab!Chunk8, LastAddr
<1>6. \A a \in Nat : a \in Addr <=> a % 8 = 0 /\ a < e
  <2>1. ASSUME NEW a \in Addr PROVE a \in Nat /\ a % 8 = 0 /\ a < e
    <3>1. PICK k \in 0..LastAddr : a = 8 * k
      BY <1>5, <2>1
    <3> QED BY ONLY <3>1, <1>4
  <2>2. ASSUME NEW a \in Nat, a % 8 = 0, a < e PROVE a \in Addr
    <3>1. PICK k : k = a \div 8
      OBVIOUS
    <3>2. k \in 0..LastAddr /\ a = 8 * k
      BY ONLY <3>1, <2>2, <1>4
    <3> QED BY <3>2, <1>5
  <2> QED BY <2>1, <2>2
<1>7. Addr \subseteq Nat /\ \A a \in Addr : a \div 8 \in 0..LastAddr /\ 8 * (a \div 8) = a
  <2>1. ASSUME NEW a \in Addr PROVE a \in Nat /\ a \div 8 \in 0..LastAddr /\ 8 * (a \div 8) = a
    <3>1. PICK k \in 0..LastAddr : a = 8 * k
      BY <1>5, <2>1
    <3> QED BY ONLY <3>1, <1>4
  <2> QED BY <2>1
<1>8. \A k \in 0..LastAddr : 8 * k \in Addr
  BY <1>5
<1>9. ASSUME NEW a \in Addr PROVE PageOf(a) \in Pg
  <2>1. a \in Nat /\ a < PageAt(Pages)
    BY <1>1, <1>6, <1>7
  <2>2. PageOf(a) \in Nat /\ PageOf(a) < Pages
    BY <2>1, SlabNats, PageOfFacts
  <2> QED BY <2>2, SlabNats DEF Pg
<1>10. ASSUME NEW p \in Pg PROVE PageAt(p) \in Addr
  <2>1. p \in Nat /\ p < Pages
    BY SlabNats DEF Pg
  <2>2. PageAt(p) \in Nat /\ PageAt(p) % 8 = 0 /\ PageAt(p) + PageSize <= e
    BY <1>1, <2>1, SlabNats, PageAtFacts
  <2>3. PageAt(p) < e
    BY <2>2, <1>2, SlabNats
  <2> QED BY <1>6, <2>2, <2>3
<1> QED BY <1>1, <1>4, <1>6, <1>7, <1>8, <1>9, <1>10

(* The chunks of a zone lie in its pages.                                    *)
LEMMA ZoneKindFacts ==
    ASSUME NEW z \in ZoneRec, ZoneKind(z)
    PROVE  /\ z.size \in Nat \ {0} /\ z.size % 8 = 0 /\ z.base \in Nat /\ z.base % 8 = 0
           /\ z.nmax \in Nat /\ 2 <= z.nmax /\ InZone(z.base, z.size, z.nmax)
           /\ z.uindex \in 0..(z.nmax - 1) /\ z.index \in Slab!Indices /\ z.size = SizeAt(z.index)
<1>1. PICK n \in Slab!Sizes \ {0} : n < ZoneLimit /\ z.index = Slab!ZoneIndex(n) /\ z.size = Slab!ChunkSize(n)
  BY DEF ZoneKind
<1>2. z.base = Slab!BaseOf(z.size) /\ z.nmax = ChunksIn(z.size, z.base) /\ z.uindex \in 0..(z.nmax - 1)
  BY DEF ZoneKind
<1>3. PICK s, b, m : s = z.size /\ b = z.base /\ m = z.nmax
  OBVIOUS
<1>4. s = Slab!ChunkSize(n) /\ b = Slab!BaseOf(s) /\ m = ChunksIn(s, b)
  BY <1>1, <1>2, <1>3
<1>5. /\ s \in Nat \ {0} /\ s % 8 = 0 /\ b \in Nat /\ b % 8 = 0 /\ m \in Nat /\ 2 <= m
      /\ InZone(b, s, m)
  BY ONLY <1>1, <1>4, ZoneShape
<1>6. n \in Nat \ {0} /\ n < 16384
  <2>1. PICK c \in Callers : n \in c.sizes
    BY DEF Slab!Sizes
  <2>2. n \in Nat /\ n # 0
    BY <2>1, SlabAssumption
  <2>3. ZoneLimit \in Nat /\ ZoneLimit <= 16384
    BY SlabAssumption
  <2> QED BY <1>1, <2>2, <2>3
<1>7. z.size = SizeAt(z.index)
  BY <1>1, <1>6, ZoneIndexFacts
<1>8. z.index \in Slab!Indices
  BY <1>1, <1>6 DEF Slab!Indices
<1> QED BY <1>2, <1>3, <1>5, <1>7, <1>8

LEMMA ZoneChunks ==
    ASSUME NEW z \in ZoneRec, ZoneKind(z), NEW p \in Pg, p + ZonePages <= Pages, NEW i \in 0..(z.nmax - 1),
           NEW a, a = ChunkOfZone(z, p, i)
    PROVE  /\ a \in Addr /\ Between(p, ZonePages, PageOf(a)) /\ PageAt(p) <= a
           /\ a + z.size <= PageAt(p) + PageAt(ZonePages)
           /\ \A j \in 0..(z.nmax - 1) : i # j => ChunkOfZone(z, p, j) # a
<1>1. PICK s, b, m : s = z.size /\ b = z.base /\ m = z.nmax
  OBVIOUS
<1>2. /\ s \in Nat \ {0} /\ s % 8 = 0 /\ b \in Nat /\ b % 8 = 0
      /\ m \in Nat /\ InZone(b, s, m)
  BY <1>1, ZoneKindFacts
<1>3. p \in Nat /\ i \in 0..(m - 1) /\ a = ChunkAt(p, b, s, i)
  BY <1>1, PgFacts DEF ChunkOfZone
<1>4. /\ a \in Nat /\ a % 8 = 0 /\ PageAt(p) <= a /\ a + s <= PageAt(p) + PageAt(ZonePages)
      /\ Between(p, ZonePages, PageOf(a)) /\ PageOf(a) \in Nat
  BY ONLY <1>2, <1>3, ChunkAtFacts
<1>5. a \in Addr
  <2>1. PageOf(a) < Pages
    BY <1>3, <1>4, SlabNats DEF Between
  <2>2. a < PageAt(Pages)
    <3>1. PICK q, u, e : q = PageOf(a) /\ u = PageAt(q) /\ e = PageAt(Pages)
      OBVIOUS
    <3>2. a < u + PageSize /\ u + PageSize <= e /\ u \in Nat /\ e \in Nat
      BY <1>4, <2>1, <3>1, SlabNats, PageOfFacts, PageAtFacts
    <3> QED BY <3>1, <3>2, <1>4, SlabNats
  <2> QED BY <1>4, <2>2, AddrFacts
<1>6. ASSUME NEW j \in 0..(m - 1), i # j PROVE ChunkAt(p, b, s, j) # a
  <2>1. i \in Nat /\ j \in Nat
    BY <1>2, <1>3
  <2>2. PICK c : c = ChunkAt(p, b, s, j)
    OBVIOUS
  <2>3. c \in Nat
    BY ONLY <1>2, <1>3, <1>6, <2>2, ChunkAtFacts
  <2>4. i < j => a + s <= c
    BY <1>2, <1>3, <2>1, <2>2, ChunksApart
  <2>5. j < i => c + s <= a
    BY <1>2, <1>3, <2>1, <2>2, ChunksApart
  <2> QED BY <1>2, <1>4, <1>6, <2>1, <2>2, <2>3, <2>4, <2>5
<1> QED BY <1>1, <1>4, <1>5, <1>6 DEF ChunkOfZone

(* A zone does not mind what happens outside it.                             *)
LEMMA ZoneFrame ==
    ASSUME NEW z \in ZoneRec, NEW p \in Pg, p + ZonePages <= Pages, NEW lv, ZoneOk(z, p, lv), NEW lw,
           \A a \in Addr : Between(p, ZonePages, PageOf(a)) => lw[a] = lv[a]
    PROVE  ZoneOk(z, p, lw)
<1>1. ZoneKind(z) /\ z.uindex \in 0..(z.nmax - 1) /\ z.nmax \in Nat
  BY ZoneKindFacts DEF ZoneOk
<1>2. \A i \in 0..z.uindex : ChunkOfZone(z, p, i) \in Addr /\ Between(p, ZonePages, PageOf(ChunkOfZone(z, p, i)))
  <2>1. ASSUME NEW i \in 0..z.uindex
        PROVE  ChunkOfZone(z, p, i) \in Addr /\ Between(p, ZonePages, PageOf(ChunkOfZone(z, p, i)))
    <3>1. i \in 0..(z.nmax - 1)
      BY <1>1
    <3> QED BY <1>1, <3>1, ZoneChunks
  <2> QED BY <2>1
<1>3. \A i \in 0..z.uindex : lw[ChunkOfZone(z, p, i)] = lv[ChunkOfZone(z, p, i)]
  BY <1>2
<1>4. \A c \in Elems(z.chunks) : lw[c] = 0 /\ \E i \in 0..z.uindex : c = ChunkOfZone(z, p, i)
  BY <1>3 DEF ZoneOk
<1>5. \A i \in 0..z.uindex : lw[ChunkOfZone(z, p, i)] > 0 \/ ChunkOfZone(z, p, i) \in Elems(z.chunks)
  BY <1>3 DEF ZoneOk
<1>6. \A a \in Addr : lw[a] > 0 /\ Between(p, ZonePages, PageOf(a)) =>
         lw[a] <= z.size /\ \E i \in 0..z.uindex : a = ChunkOfZone(z, p, i)
  BY DEF ZoneOk
<1> QED BY <1>4, <1>5, <1>6 DEF ZoneOk

-----------------------------------------------------------------------------
(* What follows from the invariant.                                          *)
LEMMA OwnedPages ==
    ASSUME NEW x, NEW lv, NEW raw, NEW g, SlabFits(x, lv, raw, g), NEW r \in Pg, g.kind[r] \in {"zone", "spare"}
    PROVE  /\ r + ZonePages <= Pages /\ g.len[r] = ZonePages
           /\ \A q \in Pg : g.own[q] = r <=> Between(r, ZonePages, q)
<1>1. g.len[r] = ZonePages
  BY DEF SlabFits, UsesFit
<1> QED BY <1>1 DEF SlabFits, PagesParted

LEMMA StateTypes ==
    ASSUME NEW x \in SlabState
    PROVE  /\ x.pages \in Seq(FreeRun) /\ x.zone \in [Pg -> ZoneRec] /\ x.array \in [Slab!Indices -> Seq(Pg)]
           /\ x.usage \in [Pg -> [type : {"free", "small", "large"}, size : Nat]]
           /\ x.spare \in Seq(Pg) /\ x.used \in Int /\ x.max \in Int
  BY DEF SlabState

(* The owner of a block.                                                     *)
LEMMA OwnerOf ==
    ASSUME NEW x, NEW lv, NEW raw, NEW g, SlabFits(x, lv, raw, g), NEW a \in Addr, lv[a] > 0
    PROVE  \E p \in Pg : /\ g.own[PageOf(a)] = p
                         /\ \/ g.kind[p] = "zone" /\ Between(p, ZonePages, PageOf(a)) /\ a \notin raw
                            \/ g.kind[p] \in {"large", "raw"} /\ a = PageAt(p)
                         /\ (g.kind[p] = "raw" <=> a \in raw)
<1>1. PICK p \in Pg : /\ g.own[PageOf(a)] = p
                      /\ \/ g.kind[p] = "zone"
                         \/ g.kind[p] \in {"large", "raw"} /\ a = PageAt(p)
  BY DEF SlabFits, BlocksFit
<1>2. PageOf(a) \in Pg
  BY AddrFacts
<1>3. ASSUME a \in raw PROVE g.kind[p] = "raw"
  <2>1. PICK r \in Pg : a = PageAt(r)
    BY <1>3 DEF SlabFits, BlocksFit
  <2>2. g.kind[r] = "raw"
    BY <1>3, <2>1 DEF SlabFits, UsesFit
  <2>3. PageOf(a) = r
    BY <2>1, PgFacts, PageAtFacts
  <2>4. g.own[r] = r
    <3>1. g.len[r] > 0 /\ (g.own[r] = r <=> Between(r, g.len[r], r)) /\ g.len[r] \in Nat
      BY <2>2 DEF SlabFits, PagesParted, Owners
    <3> QED BY <3>1, PgFacts DEF Between
  <2> QED BY <1>1, <2>2, <2>3, <2>4
<1>4. CASE g.kind[p] = "zone"
  BY <1>1, <1>2, <1>3, <1>4, OwnedPages
<1>5. CASE g.kind[p] \in {"large", "raw"} /\ a = PageAt(p)
  BY <1>1, <1>3, <1>5 DEF SlabFits, UsesFit
<1> QED BY <1>1, <1>4, <1>5

(* The pages of a block have the same owner.                                 *)
Bytesof(a, n) == a..(a + n - 1)

LEMMA BlockBytes ==
    ASSUME NEW x, NEW lv, NEW raw, NEW g, SlabFits(x, lv, raw, g), NEW a \in Addr, lv[a] > 0,
           NEW y \in Bytesof(a, lv[a])
    PROVE  y \in Nat /\ PageOf(y) \in Pg /\ g.own[PageOf(y)] = g.own[PageOf(a)]
<1>1. PICK p \in Pg : /\ g.own[PageOf(a)] = p
                      /\ \/ g.kind[p] = "zone" /\ Between(p, ZonePages, PageOf(a)) /\ a \notin raw
                         \/ g.kind[p] \in {"large", "raw"} /\ a = PageAt(p)
                      /\ (g.kind[p] = "raw" <=> a \in raw)
  BY OwnerOf
<1>2. PICK n, m : n = g.len[p] /\ m = lv[a]
  OBVIOUS
<1>3. p \in Nat /\ n \in Nat /\ m \in Nat /\ a \in Nat /\ y \in Nat /\ a <= y /\ y < a + m /\ p + n <= Pages
      /\ \A q \in Pg : g.own[q] = p <=> Between(p, n, q)
  <2>1. lv \in [Addr -> Nat] /\ g.len \in [Pg -> Nat]
    BY DEF SlabFits, Owners
  <2>2. m \in Nat /\ n \in Nat /\ a \in Nat /\ p \in Nat
    BY <1>2, <2>1, AddrFacts, PgFacts
  <2>3. y \in a..(a + m - 1)
    BY <1>2 DEF Bytesof
  <2>4. g.kind[p] # "none"
    BY <1>1
  <2> QED BY <1>2, <2>2, <2>3, <2>4 DEF SlabFits, PagesParted
<1>4. PageAt(p) <= a /\ a + m <= PageAt(p) + PageAt(n)
  <2>1. CASE g.kind[p] = "zone"
    <3>1. PICK z : z = x.zone[p]
      OBVIOUS
    <3>2. z \in ZoneRec /\ ZoneOk(z, p, lv) /\ p + ZonePages <= Pages /\ n = ZonePages
      BY <2>1, <3>1, <1>2, OwnedPages, StateTypes DEF SlabFits, ZonesFit
    <3>3. PICK i \in 0..z.uindex : a = ChunkOfZone(z, p, i)
      BY <1>1, <2>1, <3>2 DEF ZoneOk
    <3>4. m <= z.size
      BY <1>1, <1>2, <2>1, <3>2 DEF ZoneOk
    <3>5. ZoneKind(z) /\ z.size \in Nat /\ i \in 0..(z.nmax - 1)
      <4>1. ZoneKind(z)
        BY <3>2 DEF ZoneOk
      <4>2. z.uindex \in 0..(z.nmax - 1) /\ z.nmax \in Nat /\ z.size \in Nat
        BY <3>2, <4>1, ZoneKindFacts
      <4> QED BY <4>1, <4>2
    <3>6. PageAt(p) <= a /\ a + z.size <= PageAt(p) + PageAt(ZonePages)
      BY ONLY <3>2, <3>3, <3>5, ZoneChunks, p \in Pg
    <3>7. PageAt(p) \in Nat /\ PageAt(ZonePages) \in Nat
      BY <1>3, SlabNats, PageAtFacts
    <3> QED BY <1>3, <3>2, <3>4, <3>5, <3>6, <3>7
  <2>2. CASE g.kind[p] = "large" /\ a = PageAt(p)
    <3>1. n = Slab!LargePages(m)
      BY <1>2, <2>2 DEF SlabFits, UsesFit
    <3>2. m \in Nat \ {0}
      BY <1>2, <1>3
    <3>3. n \in Nat \ {0} /\ m <= PageAt(n)
      BY ONLY <3>1, <3>2, LargeFacts
    <3>4. PageAt(n) \in Nat
      BY ONLY <3>3, PageAtFacts
    <3> QED BY <2>2, <3>3, <3>4, <1>3
  <2>3. CASE g.kind[p] = "raw" /\ a = PageAt(p)
    <3>1. n = 1 /\ m = PageSize
      BY <1>2, <2>3 DEF SlabFits, UsesFit
    <3>2. PageAt(1) = PageSize
      BY SlabNats DEF PageAt
    <3> QED BY <2>3, <3>1, <3>2, <1>3, SlabNats
  <2> QED BY <1>1, <2>1, <2>2, <2>3
<1>5. PageAt(p) \in Nat /\ PageAt(n) \in Nat
  BY <1>3, PageAtFacts
<1>6. PageAt(p) <= y /\ y < PageAt(p) + PageAt(n)
  BY <1>3, <1>4, <1>5
<1>7. Between(p, n, PageOf(y)) /\ PageOf(y) \in Nat
  BY <1>3, <1>6, BytesInPages
<1>8. PageOf(y) \in Pg
  BY <1>3, <1>7, SlabNats DEF Between, Pg
<1> QED BY <1>1, <1>3, <1>7, <1>8

(* No two callers share a byte.                                              *)
LEMMA BlocksApart ==
    ASSUME NEW x, NEW lv, NEW raw, NEW g, SlabFits(x, lv, raw, g), NEW a \in Addr, lv[a] > 0,
           NEW b \in Addr, lv[b] > 0, a # b
    PROVE  Bytesof(a, lv[a]) \cap Bytesof(b, lv[b]) = {}
<1> SUFFICES ASSUME NEW y \in Bytesof(a, lv[a]), y \in Bytesof(b, lv[b]) PROVE FALSE
  OBVIOUS
<1>1. g.own[PageOf(a)] = g.own[PageOf(b)]
  BY BlockBytes
<1>2. PICK p \in Pg : /\ g.own[PageOf(a)] = p
                      /\ \/ g.kind[p] = "zone" /\ Between(p, ZonePages, PageOf(a)) /\ a \notin raw
                         \/ g.kind[p] \in {"large", "raw"} /\ a = PageAt(p)
                      /\ (g.kind[p] = "raw" <=> a \in raw)
  BY OwnerOf
<1>3. PICK r \in Pg : /\ g.own[PageOf(b)] = r
                      /\ \/ g.kind[r] = "zone" /\ Between(r, ZonePages, PageOf(b)) /\ b \notin raw
                         \/ g.kind[r] \in {"large", "raw"} /\ b = PageAt(r)
                      /\ (g.kind[r] = "raw" <=> b \in raw)
  BY OwnerOf
<1>4. p = r
  BY <1>1, <1>2, <1>3
<1>5. g.kind[p] = "zone" /\ Between(p, ZonePages, PageOf(a)) /\ Between(p, ZonePages, PageOf(b))
  BY <1>2, <1>3, <1>4
<1>6. PICK z : z = x.zone[p]
  OBVIOUS
<1>7. z \in ZoneRec /\ ZoneOk(z, p, lv) /\ ZoneKind(z)
  BY <1>5, <1>6, StateTypes DEF SlabFits, ZonesFit, ZoneOk
<1>8. lv[a] <= z.size /\ lv[b] <= z.size
  BY <1>5, <1>7 DEF ZoneOk
<1>9. PICK i \in 0..z.uindex : a = ChunkOfZone(z, p, i)
  BY <1>5, <1>7 DEF ZoneOk
<1>10. PICK j \in 0..z.uindex : b = ChunkOfZone(z, p, j)
  BY <1>5, <1>7 DEF ZoneOk
<1>11. z.size \in Nat \ {0} /\ z.base \in Nat /\ z.uindex \in Nat
  BY <1>7, ZoneKindFacts
<1>12. i \in Nat /\ j \in Nat /\ i # j /\ p \in Nat
  BY <1>9, <1>10, <1>11, PgFacts
<1>13. i < j => a + z.size <= b
  BY <1>9, <1>10, <1>11, <1>12, ChunksApart DEF ChunkOfZone
<1>14. j < i => b + z.size <= a
  BY <1>9, <1>10, <1>11, <1>12, ChunksApart DEF ChunkOfZone
<1>15. a \in Nat /\ b \in Nat /\ lv[a] \in Nat /\ lv[b] \in Nat
  BY AddrFacts DEF SlabFits
<1>16. PICK u, v, s : u = lv[a] /\ v = lv[b] /\ s = z.size
  OBVIOUS
<1>17. u \in Nat /\ v \in Nat /\ s \in Nat /\ u <= s /\ v <= s /\ (a + s <= b \/ b + s <= a)
       /\ y \in a..(a + u - 1) /\ y \in b..(b + v - 1)
  BY <1>8, <1>11, <1>12, <1>13, <1>14, <1>15, <1>16 DEF Bytesof
<1> QED BY ONLY <1>15, <1>17

-----------------------------------------------------------------------------
(* used.                                                                     *)
CountOf(x, lv, raw, a) == IF lv[a] > 0 /\ a \notin raw THEN CountedAt(x, lv, a) ELSE 0

LEMMA CountIs ==
    ASSUME NEW x, NEW lv, NEW raw, NEW g, SlabFits(x, lv, raw, g), NEW a \in Addr, lv[a] > 0, a \notin raw,
           NEW p, p = g.own[PageOf(a)]
    PROVE  /\ p \in Pg /\ g.kind[p] \in {"zone", "large"}
           /\ g.kind[p] = "zone" => /\ CountOf(x, lv, raw, a) = x.zone[p].size
                                    /\ x.usage[PageOf(a)].type = "small"
                                    /\ PageOf(a) - x.usage[PageOf(a)].size = p
           /\ g.kind[p] = "large" => /\ CountOf(x, lv, raw, a) = Slab!UpTo(lv[a], PageSize)
                                     /\ x.usage[PageOf(a)].type = "large" /\ a = PageAt(p) /\ PageOf(a) = p
           /\ CountOf(x, lv, raw, a) \in Nat
<1>1. /\ p \in Pg
      /\ \/ g.kind[p] = "zone" /\ Between(p, ZonePages, PageOf(a)) /\ a \notin raw
         \/ g.kind[p] \in {"large", "raw"} /\ a = PageAt(p)
      /\ (g.kind[p] = "raw" <=> a \in raw)
  BY OwnerOf
<1>2. PageOf(a) \in Pg /\ lv[a] \in Nat \ {0}
  BY AddrFacts DEF SlabFits
<1>3. CASE g.kind[p] = "zone"
  <2>1. x.usage[PageOf(a)].type = "small" /\ x.usage[PageOf(a)].size = PageOf(a) - p
    BY <1>1, <1>2, <1>3 DEF SlabFits, UsesFit
  <2>2. PageOf(a) - x.usage[PageOf(a)].size = p
    BY <2>1, <1>1, <1>2, PgFacts
  <2>3. CountOf(x, lv, raw, a) = x.zone[p].size
    BY <2>1, <2>2 DEF CountOf, CountedAt
  <2>4. x.zone[p].size \in Nat
    BY <1>1, StateTypes DEF SlabFits, ZoneRec
  <2> QED BY <1>1, <1>3, <2>1, <2>2, <2>3, <2>4
<1>4. CASE g.kind[p] = "large"
  <2>1. PageOf(a) = p
    BY <1>1, <1>4, PgFacts, PageAtFacts
  <2>2. x.usage[PageOf(a)].type = "large"
    BY <1>1, <1>4, <2>1 DEF SlabFits, UsesFit
  <2>3. CountOf(x, lv, raw, a) = Slab!UpTo(lv[a], PageSize)
    BY <2>2 DEF CountOf, CountedAt
  <2>4. Slab!UpTo(lv[a], PageSize) \in Nat
    <3>1. PICK u, h : u = lv[a] /\ h = Slab!LargePages(u)
      OBVIOUS
    <3>2. u \in Nat \ {0}
      BY <1>2, <3>1
    <3>3. h \in Nat \ {0} /\ Slab!UpTo(u, PageSize) = PageAt(h)
      BY ONLY <3>1, <3>2, LargeFacts
    <3>4. PageAt(h) \in Nat
      BY ONLY <3>3, PageAtFacts
    <3> QED BY <3>1, <3>3, <3>4
  <2> QED BY <1>1, <1>4, <2>1, <2>2, <2>3, <2>4
<1> QED BY <1>1, <1>3, <1>4

LEMMA CountSame ==
    ASSUME NEW x, NEW lv, NEW raw, NEW g, SlabFits(x, lv, raw, g),
           NEW y, NEW lw, NEW rw, NEW h, SlabFits(y, lw, rw, h),
           NEW a \in Addr, lw[a] = lv[a], a \in rw <=> a \in raw,
           NEW p, p = g.own[PageOf(a)], lv[a] > 0 => h.own[PageOf(a)] = p /\ h.kind[p] = g.kind[p],
           lv[a] > 0 /\ g.kind[p] = "zone" => y.zone[p].size = x.zone[p].size
    PROVE  CountOf(y, lw, rw, a) = CountOf(x, lv, raw, a)
<1>1. CASE lv[a] > 0 /\ a \notin raw
  <2>1. /\ p \in Pg /\ g.kind[p] \in {"zone", "large"}
        /\ g.kind[p] = "zone" => CountOf(x, lv, raw, a) = x.zone[p].size
        /\ g.kind[p] = "large" => CountOf(x, lv, raw, a) = Slab!UpTo(lv[a], PageSize)
    BY <1>1, CountIs
  <2>2. /\ h.kind[p] = "zone" => CountOf(y, lw, rw, a) = y.zone[p].size
        /\ h.kind[p] = "large" => CountOf(y, lw, rw, a) = Slab!UpTo(lw[a], PageSize)
    BY <1>1, CountIs
  <2> QED BY <1>1, <2>1, <2>2
<1>2. CASE ~(lv[a] > 0 /\ a \notin raw)
  BY <1>2 DEF CountOf
<1> QED BY <1>1, <1>2

LEMMA CountsAre ==
    ASSUME NEW x, NEW lv, NEW raw, NEW g, SlabFits(x, lv, raw, g)
    PROVE  /\ Counts(x, lv, raw) \in [0..LastAddr -> Int]
           /\ \A k \in 0..LastAddr : Counts(x, lv, raw)[k] = CountOf(x, lv, raw, 8 * k)
<1>1. \A k \in 0..LastAddr : Counts(x, lv, raw)[k] = CountOf(x, lv, raw, 8 * k)
  BY DEF Counts, CountOf
<1>2. ASSUME NEW k \in 0..LastAddr PROVE CountOf(x, lv, raw, 8 * k) \in Int
  <2>1. PICK a \in Addr : a = 8 * k
    BY AddrFacts
  <2>2. CASE lv[a] > 0 /\ a \notin raw
    BY <2>1, <2>2, CountIs
  <2>3. CASE ~(lv[a] > 0 /\ a \notin raw)
    BY <2>1, <2>3 DEF CountOf
  <2> QED BY <2>2, <2>3
<1> QED BY <1>1, <1>2 DEF Counts, CountOf

(* Only the block at b counts otherwise, and used goes with it.              *)
OthersCount(x, lv, raw, y, lw, rw, b) ==
    \A a \in Addr : a # b => CountOf(y, lw, rw, a) = CountOf(x, lv, raw, a)
UsedFollows(x, lv, raw, y, lw, rw, b) ==
    /\ y.used = x.used + (CountOf(y, lw, rw, b) - CountOf(x, lv, raw, b))
    /\ y.used <= y.max

LEMMA UsedMoves ==
    ASSUME NEW x, NEW lv, NEW raw, NEW g, SlabFits(x, lv, raw, g), UsedFits(x, lv, raw),
           NEW y, NEW lw, NEW rw, NEW h, SlabFits(y, lw, rw, h),
           NEW b \in Addr, OthersCount(x, lv, raw, y, lw, rw, b), UsedFollows(x, lv, raw, y, lw, rw, b)
    PROVE  UsedFits(y, lw, rw)
<1>1. PICK t, u : t = Counts(x, lv, raw) /\ u = Counts(y, lw, rw)
  OBVIOUS
<1>2. /\ t \in [0..LastAddr -> Int] /\ u \in [0..LastAddr -> Int]
      /\ \A k \in 0..LastAddr : t[k] = CountOf(x, lv, raw, 8 * k) /\ u[k] = CountOf(y, lw, rw, 8 * k)
  BY <1>1, CountsAre
<1>3. PICK i \in 0..LastAddr : 8 * i = b
  BY AddrFacts
<1>4. \A k \in 0..LastAddr : k # i => u[k] = t[k]
  <2>1. ASSUME NEW k \in 0..LastAddr, k # i PROVE u[k] = t[k]
    <3>1. 8 * k \in Addr /\ 8 * k # b
      BY <1>3, <2>1, AddrFacts
    <3> QED BY <1>2, <3>1 DEF OthersCount
  <2> QED BY <2>1
<1>5. LastAddr \in Nat
  BY AddrFacts
<1>6. PICK z : Totals(t, z, LastAddr)
  BY <1>2, <1>5, TotalsExist
<1>7. x.used = z[LastAddr]
  BY <1>1, <1>6 DEF UsedFits
<1>8. ASSUME NEW w, Totals(u, w, LastAddr) PROVE y.used = w[LastAddr]
  <2>1. MovedBy(w, z, LastAddr, u[i] - t[i])
    BY <1>2, <1>4, <1>5, <1>6, <1>8, TotalsChange DEF DifferAt
  <2>2. w[LastAddr] = z[LastAddr] + (u[i] - t[i])
    BY <2>1 DEF MovedBy
  <2> QED BY <1>2, <1>3, <1>7, <2>2 DEF UsedFollows
<1> QED BY <1>1, <1>8 DEF UsedFits, UsedFollows

-----------------------------------------------------------------------------
(* A call changes one run of pages, which begins at p.                       *)
SameBut(x, y, lv, lw, raw, rw, g, h, p) ==
    /\ \A r \in Pg : r # p => /\ h.kind[r] = g.kind[r] /\ h.len[r] = g.len[r] /\ y.zone[r] = x.zone[r]
                              /\ PageAt(r) \in rw <=> PageAt(r) \in raw
                              /\ r \in Elems(y.spare) <=> r \in Elems(x.spare)
    /\ \A q \in Pg : g.own[q] # p /\ h.own[q] # p => h.own[q] = g.own[q] /\ y.usage[q] = x.usage[q]
    /\ \A q \in Pg : g.own[q] = p => h.own[q] \in {p, -1}
    /\ \A a \in Addr : g.own[PageOf(a)] # p /\ h.own[PageOf(a)] # p => lw[a] = lv[a] /\ (a \in rw <=> a \in raw)

(* What the invariant asks of that run.                                      *)
RunFit(x, lv, raw, g, p) ==
    /\ g.kind[p] # "usage"
    /\ g.kind[p] # "zone" => x.zone[p] = Slab!NoZone
    /\ g.kind[p] = "spare" <=> p \in Elems(x.spare)
    /\ g.kind[p] \in {"zone", "spare"} =>
          /\ g.len[p] = ZonePages
          /\ \A q \in Pg : Between(p, ZonePages, q) => x.usage[q].type = "small" /\ x.usage[q].size = q - p
    /\ g.kind[p] = "raw" <=> PageAt(p) \in raw
    /\ g.kind[p] = "raw" => g.len[p] = 1 /\ lv[PageAt(p)] = PageSize
    /\ g.kind[p] = "large" =>
          /\ lv[PageAt(p)] > 0 /\ g.len[p] = Slab!LargePages(lv[PageAt(p)])
          /\ x.usage[p].type = "large" /\ x.usage[p].size = g.len[p]
    /\ g.kind[p] = "zone" => ZoneOk(x.zone[p], p, lv)
    /\ \A a \in Addr : lv[a] > 0 /\ g.own[PageOf(a)] = p =>
          g.kind[p] = "zone" \/ (g.kind[p] \in {"large", "raw"} /\ a = PageAt(p))

(* The first page of a run that somebody has belongs to it. *)
LEMMA OwnsFirst ==
    ASSUME NEW L, NEW g \in Owners, PagesParted(L, g), NEW r \in Pg, g.kind[r] # "none"
    PROVE  g.own[r] = r
<1>1. g.len[r] \in Nat /\ g.len[r] > 0 /\ (g.own[r] = r <=> Between(r, g.len[r], r))
  BY DEF PagesParted, Owners
<1> QED BY <1>1, PgFacts DEF Between

(* No block is left in a page that it gave up; blocks of pages are at pages. *)
LeftEmpty(lw, g, h, p) == \A a \in Addr : g.own[PageOf(a)] = p /\ h.own[PageOf(a)] # p => lw[a] = 0
RawAtPages(rw) == \A a \in rw : \E r \in Pg : a = PageAt(r)

LEMMA FrameFits ==
    ASSUME NEW x, NEW lv, NEW raw, NEW g, SlabFits(x, lv, raw, g),
           NEW y, NEW lw, NEW rw, NEW h, NEW p \in Pg, SameBut(x, y, lv, lw, raw, rw, g, h, p),
           g.kind[p] # "usage", RunFit(y, lw, rw, h, p),
           LeftEmpty(lw, g, h, p),
           y \in SlabState, h \in Owners, lw \in [Addr -> Nat], RawAtPages(rw),
           Ordered(y.pages), PagesParted(y.pages, h), ListsFit(y, h)
    PROVE  SlabFits(y, lw, rw, h)
<1>1. \A r \in Pg : r # p => /\ h.kind[r] = g.kind[r] /\ h.len[r] = g.len[r] /\ y.zone[r] = x.zone[r]
                             /\ PageAt(r) \in rw <=> PageAt(r) \in raw
                             /\ r \in Elems(y.spare) <=> r \in Elems(x.spare)
  BY DEF SameBut
<1>2. \A q \in Pg : g.own[q] # p /\ h.own[q] # p => h.own[q] = g.own[q] /\ y.usage[q] = x.usage[q]
  BY DEF SameBut
<1>3. \A a \in Addr : g.own[PageOf(a)] # p /\ h.own[PageOf(a)] # p => lw[a] = lv[a] /\ (a \in rw <=> a \in raw)
  BY DEF SameBut
<1>4. g \in Owners /\ PagesParted(x.pages, g)
  BY DEF SlabFits
(* A page of another run stays where it is. *)
<1>5. ASSUME NEW r \in Pg, r # p, h.kind[r] # "none", NEW q \in Pg, Between(r, h.len[r], q)
      PROVE  g.own[q] = r /\ h.own[q] = r /\ y.usage[q] = x.usage[q]
  <2>1. g.kind[r] # "none" /\ g.len[r] = h.len[r]
    BY <1>1, <1>5
  <2>2. h.own[q] = r
    BY <1>5 DEF PagesParted
  <2>3. g.own[q] = r
    BY <1>4, <1>5, <2>1 DEF PagesParted
  <2> QED BY <1>2, <1>5, <2>2, <2>3
<1>6. ASSUME NEW r \in Pg, r # p, h.kind[r] # "none"
      PROVE  lw[PageAt(r)] = lv[PageAt(r)] /\ y.usage[r] = x.usage[r]
  <2>1. g.own[r] = r /\ h.own[r] = r
    BY <1>1, <1>4, <1>6, OwnsFirst
  <2>2. PageAt(r) \in Addr /\ PageOf(PageAt(r)) = r
    BY AddrFacts, PgFacts, PageAtFacts
  <2> QED BY <1>2, <1>3, <1>6, <2>1, <2>2
<1>7. UsesFit(y, lw, rw, h)
  <2>1. h.kind[0] = "usage" /\ h.len[0] = UsagePages
    <3>1. g.kind[0] = "usage" /\ g.len[0] = UsagePages /\ 0 # p
      BY DEF SlabFits, UsesFit
    <3> QED BY <1>1, <3>1, PgFacts
  <2>2. ASSUME NEW r \in Pg, r # p
        PROVE  /\ h.kind[r] = "usage" => r = 0
               /\ h.kind[r] # "zone" => y.zone[r] = Slab!NoZone
               /\ h.kind[r] = "spare" <=> r \in Elems(y.spare)
               /\ h.kind[r] = "raw" <=> PageAt(r) \in rw
    BY <1>1, <2>2 DEF SlabFits, UsesFit
  <2>3. ASSUME NEW r \in Pg, r # p, h.kind[r] \in {"zone", "spare"}
        PROVE  /\ h.len[r] = ZonePages
               /\ \A q \in Pg : Between(r, ZonePages, q) => y.usage[q].type = "small" /\ y.usage[q].size = q - r
    <3>1. /\ g.len[r] = ZonePages
          /\ \A q \in Pg : Between(r, ZonePages, q) => x.usage[q].type = "small" /\ x.usage[q].size = q - r
      BY <1>1, <2>3 DEF SlabFits, UsesFit
    <3>2. h.len[r] = ZonePages
      BY <1>1, <2>3, <3>1
    <3>3. \A q \in Pg : Between(r, ZonePages, q) => y.usage[q] = x.usage[q]
      BY <1>5, <2>3, <3>2
    <3> QED BY <3>1, <3>2, <3>3
  <2>4. ASSUME NEW r \in Pg, r # p, h.kind[r] = "raw" PROVE h.len[r] = 1 /\ lw[PageAt(r)] = PageSize
    <3>1. g.len[r] = 1 /\ lv[PageAt(r)] = PageSize
      BY <1>1, <2>4 DEF SlabFits, UsesFit
    <3> QED BY <1>1, <1>6, <2>4, <3>1
  <2>5. ASSUME NEW r \in Pg, r # p, h.kind[r] = "large"
        PROVE  /\ lw[PageAt(r)] > 0 /\ h.len[r] = Slab!LargePages(lw[PageAt(r)])
               /\ y.usage[r].type = "large" /\ y.usage[r].size = h.len[r]
    <3>1. /\ lv[PageAt(r)] > 0 /\ g.len[r] = Slab!LargePages(lv[PageAt(r)])
          /\ x.usage[r].type = "large" /\ x.usage[r].size = g.len[r]
      BY <1>1, <2>5 DEF SlabFits, UsesFit
    <3> QED BY <1>1, <1>6, <2>5, <3>1
  <2>6. \A r \in Pg : h.kind[r] = "usage" => r = 0
    BY <2>2 DEF RunFit
  <2>7. \A r \in Pg : h.kind[r] # "zone" => y.zone[r] = Slab!NoZone
    BY <2>2 DEF RunFit
  <2>8. \A r \in Pg : h.kind[r] = "spare" <=> r \in Elems(y.spare)
    BY <2>2 DEF RunFit
  <2>9. \A r \in Pg : h.kind[r] \in {"zone", "spare"} =>
          /\ h.len[r] = ZonePages
          /\ \A q \in Pg : Between(r, ZonePages, q) => y.usage[q].type = "small" /\ y.usage[q].size = q - r
    BY <2>3 DEF RunFit
  <2>10. \A r \in Pg : h.kind[r] = "raw" <=> PageAt(r) \in rw
    BY <2>2 DEF RunFit
  <2>11. \A r \in Pg : h.kind[r] = "raw" => h.len[r] = 1 /\ lw[PageAt(r)] = PageSize
    BY <2>4 DEF RunFit
  <2>12. \A r \in Pg : h.kind[r] = "large" =>
          /\ lw[PageAt(r)] > 0 /\ h.len[r] = Slab!LargePages(lw[PageAt(r)])
          /\ y.usage[r].type = "large" /\ y.usage[r].size = h.len[r]
    BY <2>5 DEF RunFit
  <2> QED BY <2>1, <2>6, <2>7, <2>8, <2>9, <2>10, <2>11, <2>12 DEF UsesFit
<1>8. BlocksFit(lw, rw, h)
  <2>1. ASSUME NEW a \in Addr, lw[a] > 0
        PROVE  \E r \in Pg : /\ h.own[PageOf(a)] = r
                             /\ \/ h.kind[r] = "zone"
                                \/ h.kind[r] \in {"large", "raw"} /\ a = PageAt(r)
    <3>1. CASE h.own[PageOf(a)] = p
      BY <2>1, <3>1 DEF RunFit
    <3>2. CASE h.own[PageOf(a)] # p
      <4>1. g.own[PageOf(a)] # p
        <5>1. ASSUME g.own[PageOf(a)] = p PROVE FALSE
          <6>1. lw[a] = 0
            BY <3>2, <5>1 DEF LeftEmpty
          <6> QED BY <2>1, <6>1
        <5> QED BY <5>1
      <4>2. PageOf(a) \in Pg
        BY AddrFacts
      <4>3. lv[a] > 0 /\ h.own[PageOf(a)] = g.own[PageOf(a)]
        BY <1>2, <1>3, <2>1, <3>2, <4>1, <4>2
      <4>4. PICK r \in Pg : /\ g.own[PageOf(a)] = r
                            /\ \/ g.kind[r] = "zone"
                               \/ g.kind[r] \in {"large", "raw"} /\ a = PageAt(r)
        BY <4>3 DEF SlabFits, BlocksFit
      <4>5. r # p /\ h.kind[r] = g.kind[r]
        BY <1>1, <4>1, <4>4
      <4> QED BY <4>3, <4>4, <4>5
    <3> QED BY <3>1, <3>2
  <2> QED BY <2>1 DEF BlocksFit, RawAtPages
<1>9. ZonesFit(y, lw, h)
  <2>1. ASSUME NEW r \in Pg, h.kind[r] = "zone", r # p PROVE ZoneOk(y.zone[r], r, lw)
    <3>1. g.kind[r] = "zone" /\ y.zone[r] = x.zone[r]
      BY <1>1, <2>1
    <3>2. ZoneOk(x.zone[r], r, lv) /\ x.zone[r] \in ZoneRec
      BY <3>1, StateTypes DEF SlabFits, ZonesFit
    <3>3. r + ZonePages <= Pages /\ g.len[r] = ZonePages
      BY <3>1, OwnedPages
    <3>4. h.len[r] = ZonePages
      BY <1>1, <2>1, <3>3
    <3>5. ASSUME NEW a \in Addr, Between(r, ZonePages, PageOf(a)) PROVE lw[a] = lv[a]
      <4>1. PageOf(a) \in Pg
        BY AddrFacts
      <4>2. g.own[PageOf(a)] = r /\ h.own[PageOf(a)] = r
        BY <1>5, <2>1, <3>4, <3>5, <4>1
      <4> QED BY <1>3, <2>1, <4>2
    <3> QED BY <3>1, <3>2, <3>3, <3>5, ZoneFrame
  <2> QED BY <2>1 DEF ZonesFit, RunFit
<1> QED BY <1>7, <1>8, <1>9 DEF SlabFits

(* Outside that run no block changes what it counts. *)
SameBlock(x, y, lv, lw, raw, rw, g, h, p, a) ==
    /\ lw[a] = lv[a] /\ (a \in rw <=> a \in raw)
    /\ lv[a] > 0 /\ g.own[PageOf(a)] = p =>
          /\ h.own[PageOf(a)] = p /\ h.kind[p] = g.kind[p]
          /\ g.kind[p] = "zone" => y.zone[p].size = x.zone[p].size

LEMMA FrameCount ==
    ASSUME NEW x, NEW lv, NEW raw, NEW g, SlabFits(x, lv, raw, g),
           NEW y, NEW lw, NEW rw, NEW h, SlabFits(y, lw, rw, h), NEW p \in Pg,
           SameBut(x, y, lv, lw, raw, rw, g, h, p),
           NEW a \in Addr, SameBlock(x, y, lv, lw, raw, rw, g, h, p, a)
    PROVE  CountOf(y, lw, rw, a) = CountOf(x, lv, raw, a)
<1>1. PICK r : r = g.own[PageOf(a)]
  OBVIOUS
<1>0. /\ lw[a] = lv[a] /\ (a \in rw <=> a \in raw)
      /\ lv[a] > 0 /\ r = p =>
          /\ h.own[PageOf(a)] = p /\ h.kind[p] = g.kind[p]
          /\ g.kind[p] = "zone" => y.zone[p].size = x.zone[p].size
  BY <1>1 DEF SameBlock
<1>2. CASE lv[a] > 0
  <2>1. r \in Pg /\ PageOf(a) \in Pg
    BY <1>1, <1>2, OwnerOf, AddrFacts
  <2>2. CASE r = p
    <3>1. h.own[PageOf(a)] = r /\ h.kind[r] = g.kind[r] /\ (g.kind[r] = "zone" => y.zone[r].size = x.zone[r].size)
      BY <1>0, <1>1, <1>2, <2>2
    <3> QED BY <1>0, <1>1, <3>1, CountSame
  <2>3. CASE r # p
    <3>1. h.kind[r] = g.kind[r] /\ y.zone[r] = x.zone[r]
      BY <2>1, <2>3 DEF SameBut
    <3>2. h.own[PageOf(a)] # p
      <4>1. ASSUME h.own[PageOf(a)] = p PROVE FALSE
        <5>1. PICK o \in Pg : /\ h.own[PageOf(a)] = o
                              /\ \/ h.kind[o] = "zone" /\ Between(o, ZonePages, PageOf(a)) /\ a \notin rw
                                 \/ h.kind[o] \in {"large", "raw"} /\ a = PageAt(o)
          BY <1>0, <1>2, OwnerOf
        <5>2. g.kind[r] # "none" /\ g.len[r] = h.len[r] /\ h.kind[r] # "none" /\ g.own[PageOf(a)] = r
          BY <1>1, <1>2, <2>1, <2>3, <3>1, OwnerOf DEF SameBut
        <5>3. Between(r, g.len[r], PageOf(a))
          BY <2>1, <5>2 DEF SlabFits, PagesParted
        <5>4. h.own[PageOf(a)] = r
          BY <2>1, <5>2, <5>3 DEF SlabFits, PagesParted
        <5> QED BY <2>3, <4>1, <5>4
      <4> QED BY <4>1
    <3>3. h.own[PageOf(a)] = r
      BY <1>1, <2>1, <2>3, <3>2 DEF SameBut
    <3> QED BY <1>0, <1>1, <3>1, <3>3, CountSame
  <2> QED BY <2>2, <2>3
<1>3. CASE ~(lv[a] > 0)
  BY <1>0, <1>3 DEF CountOf
<1> QED BY <1>2, <1>3

-----------------------------------------------------------------------------
(* Free pages become somebody's, and come back.                              *)
Outside(x, y, lv, lw, raw, rw, p, n) ==
    /\ \A r \in Pg : r # p => /\ y.zone[r] = x.zone[r] /\ (PageAt(r) \in rw <=> PageAt(r) \in raw)
                              /\ (r \in Elems(y.spare) <=> r \in Elems(x.spare))
    /\ \A q \in Pg : ~Between(p, n, q) => y.usage[q] = x.usage[q]
    /\ \A a \in Addr : ~Between(p, n, PageOf(a)) => lw[a] = lv[a] /\ (a \in rw <=> a \in raw)

PagesTaken(x, y, lv, lw, raw, rw, M, g, h, p, n, k) ==
    /\ h \in Owners /\ PagesParted(M, h) /\ h.kind[p] = k /\ h.len[p] = n
    /\ SameBut(x, y, lv, lw, raw, rw, g, h, p)
    /\ g.kind[p] = "none" /\ x.zone[p] = Slab!NoZone /\ p \notin Elems(x.spare) /\ PageAt(p) \notin raw
    /\ \A q \in Pg : q # p => h.kind[q] = g.kind[q]
    /\ \A q \in Pg : (h.own[q] = p <=> Between(p, n, q)) /\ g.own[q] # p
    /\ \A a \in Addr : h.own[PageOf(a)] = p => lv[a] = 0
PagesGiven(x, y, lv, lw, raw, rw, M, g, h, p, n) ==
    /\ h \in Owners /\ PagesParted(M, h) /\ h.kind[p] = "none"
    /\ SameBut(x, y, lv, lw, raw, rw, g, h, p)
    /\ \A q \in Pg : q # p => h.kind[q] = g.kind[q]
    /\ \A q \in Pg : (g.own[q] = p <=> Between(p, n, q)) /\ h.own[q] # p

LEMMA ClaimFrame ==
    ASSUME NEW x, NEW lv, NEW raw, NEW g, SlabFits(x, lv, raw, g), NEW p \in Pg, NEW n, InHeap(p, n),
           NEW M, AllFree(x.pages, p, n), Less(M, x.pages, p, n),
           NEW k \in Kinds, k # "none", NEW h, h = Claim(g, p, n, k),
           NEW y, NEW lw, NEW rw, Outside(x, y, lv, lw, raw, rw, p, n)
    PROVE  PagesTaken(x, y, lv, lw, raw, rw, M, g, h, p, n, k)
<1>1. g \in Owners /\ PagesParted(x.pages, g)
  BY DEF SlabFits
<1>2. /\ h \in Owners /\ PagesParted(M, h)
      /\ h.kind[p] = k /\ h.len[p] = n /\ g.kind[p] = "none"
      /\ \A q \in Pg : q # p => h.kind[q] = g.kind[q] /\ h.len[q] = g.len[q]
      /\ \A q \in Pg : h.own[q] = IF Between(p, n, q) THEN p ELSE g.own[q]
      /\ \A q \in Pg : Between(p, n, q) => g.own[q] = -1
  <2>1. Claimed(M, g, h, p, n, k)
    BY <1>1, ClaimParts
  <2> QED BY <2>1 DEF Claimed
<1>3. ASSUME NEW q \in Pg PROVE (h.own[q] = p <=> Between(p, n, q)) /\ g.own[q] # p
  <2>1. g.own[q] # p
    <3>1. ASSUME g.own[q] = p PROVE FALSE
      <4>1. g.own[q] # -1
        BY <3>1, PgFacts
      <4> QED BY <1>1, <1>2, <3>1, <4>1 DEF PagesParted
    <3> QED BY <3>1
  <2> QED BY <1>2, <2>1
<1>4. SameBut(x, y, lv, lw, raw, rw, g, h, p)
  <2>1. \A q \in Pg : g.own[q] # p /\ h.own[q] # p => h.own[q] = g.own[q] /\ y.usage[q] = x.usage[q]
    BY <1>2, <1>3 DEF Outside
  <2>2. \A a \in Addr : g.own[PageOf(a)] # p /\ h.own[PageOf(a)] # p => lw[a] = lv[a] /\ (a \in rw <=> a \in raw)
    <3>1. ASSUME NEW a \in Addr, h.own[PageOf(a)] # p PROVE lw[a] = lv[a] /\ (a \in rw <=> a \in raw)
      <4>1. PageOf(a) \in Pg
        BY AddrFacts
      <4>2. ~Between(p, n, PageOf(a))
        BY <1>3, <3>1, <4>1
      <4> QED BY <4>2 DEF Outside
    <3> QED BY <3>1
  <2> QED BY <1>2, <1>3, <2>1, <2>2 DEF SameBut, Outside
<1>5. x.zone[p] = Slab!NoZone /\ p \notin Elems(x.spare) /\ PageAt(p) \notin raw
  BY <1>2 DEF SlabFits, UsesFit
<1>6. ASSUME NEW a \in Addr, h.own[PageOf(a)] = p PROVE lv[a] = 0
  <2>1. PageOf(a) \in Pg /\ lv[a] \in Nat
    BY AddrFacts DEF SlabFits
  <2>2. g.own[PageOf(a)] = -1
    BY <1>2, <1>3, <1>6, <2>1
  <2>3. ASSUME lv[a] > 0 PROVE FALSE
    <3>1. PICK r \in Pg : g.own[PageOf(a)] = r
      BY <2>3 DEF SlabFits, BlocksFit
    <3> QED BY <2>2, <3>1, PgFacts
  <2> QED BY <2>1, <2>3
<1> QED BY <1>2, <1>3, <1>4, <1>5, <1>6 DEF PagesTaken

LEMMA DropFrame ==
    ASSUME NEW x, NEW lv, NEW raw, NEW g, SlabFits(x, lv, raw, g), NEW p \in Pg,
           g.kind[p] # "none", NEW n, n = g.len[p], NEW M, More(M, x.pages, p, n),
           NEW h, h = Drop(g, p),
           NEW y, NEW lw, NEW rw, Outside(x, y, lv, lw, raw, rw, p, n)
    PROVE  PagesGiven(x, y, lv, lw, raw, rw, M, g, h, p, n)
<1>1. g \in Owners /\ PagesParted(x.pages, g)
  BY DEF SlabFits
<1>2. /\ h \in Owners /\ PagesParted(M, h)
      /\ h.kind[p] = "none"
      /\ \A q \in Pg : q # p => h.kind[q] = g.kind[q]
      /\ \A q \in Pg : h.len[q] = g.len[q]
      /\ \A q \in Pg : h.own[q] = IF g.own[q] = p THEN -1 ELSE g.own[q]
  <2>1. Dropped(M, g, h, p)
    BY <1>1, DropParts
  <2> QED BY <2>1 DEF Dropped
<1>3. ASSUME NEW q \in Pg PROVE (g.own[q] = p <=> Between(p, n, q)) /\ h.own[q] # p
  BY <1>1, <1>2, PgFacts DEF PagesParted
<1>4. SameBut(x, y, lv, lw, raw, rw, g, h, p)
  <2>1. \A q \in Pg : g.own[q] # p /\ h.own[q] # p => h.own[q] = g.own[q] /\ y.usage[q] = x.usage[q]
    BY <1>2, <1>3 DEF Outside
  <2>2. \A a \in Addr : g.own[PageOf(a)] # p /\ h.own[PageOf(a)] # p => lw[a] = lv[a] /\ (a \in rw <=> a \in raw)
    <3>1. ASSUME NEW a \in Addr, g.own[PageOf(a)] # p PROVE lw[a] = lv[a] /\ (a \in rw <=> a \in raw)
      <4>1. PageOf(a) \in Pg
        BY AddrFacts
      <4>2. ~Between(p, n, PageOf(a))
        BY <1>3, <3>1, <4>1
      <4> QED BY <4>2 DEF Outside
    <3> QED BY <3>1
  <2>3. \A q \in Pg : g.own[q] = p => h.own[q] \in {p, -1}
    BY <1>2
  <2> QED BY <1>2, <2>1, <2>2, <2>3 DEF SameBut, Outside
<1> QED BY <1>2, <1>3, <1>4 DEF PagesGiven

(* Lists of zones that do not change. *)
LEMMA ListsSame ==
    ASSUME NEW x, NEW lv, NEW raw, NEW g, SlabFits(x, lv, raw, g), NEW p \in Pg, g.kind[p] # "zone",
           NEW y, NEW h, h.kind[p] # "zone", \A r \in Pg : r # p => h.kind[r] = g.kind[r] /\ y.zone[r] = x.zone[r],
           y.array = x.array, y.spare = x.spare
    PROVE  ListsFit(y, h)
<1>1. ListsFit(x, g) /\ x \in SlabState
  BY DEF SlabFits
<1>2. ASSUME NEW i \in Slab!Indices
      PROVE  /\ IsOnce(y.array[i])
             /\ \A r \in Elems(y.array[i]) : h.kind[r] = "zone" /\ y.zone[r].index = i /\ y.zone[r].nfree > 0
  <2>1. /\ IsOnce(x.array[i])
        /\ \A r \in Elems(x.array[i]) : g.kind[r] = "zone" /\ x.zone[r].index = i /\ x.zone[r].nfree > 0
    BY <1>1 DEF ListsFit
  <2>2. Elems(x.array[i]) \subseteq Pg
    BY <1>1, StateTypes, ElemsType
  <2>3. ASSUME NEW r \in Elems(x.array[i])
        PROVE  h.kind[r] = "zone" /\ y.zone[r].index = i /\ y.zone[r].nfree > 0
    <3>1. r \in Pg /\ r # p
      BY <2>1, <2>2
    <3> QED BY <2>1, <3>1
  <2> QED BY <2>1, <2>3
<1>3. ASSUME NEW r \in Pg, h.kind[r] = "zone", y.zone[r].nfree > 0
      PROVE  r \in Elems(y.array[y.zone[r].index])
  <2>1. r # p /\ g.kind[r] = "zone" /\ y.zone[r] = x.zone[r]
    BY <1>3
  <2> QED BY <1>1, <1>3, <2>1 DEF ListsFit
<1>4. IsOnce(y.spare) /\ Len(y.spare) <= ReleaseThresh
  BY <1>1 DEF ListsFit
<1> QED BY <1>2, <1>3, <1>4 DEF ListsFit

(* The pages of rt_page_alloc, after one more and one less. *)
RawWith(raw, b, k) == IF k = "raw" THEN raw \cup {b} ELSE raw
RawWithout(raw, b) == raw \ {b}

(* Other pages are used as before. *)
OtherUsage(x, y, p) == \A q \in Pg : q # p => y.usage[q] = x.usage[q]

(* A run of pages without a zone, taken for the block at its first byte.     *)
PagesHad(x, y, lv, lw, raw, rw, g, h, p, b, t, n, k) ==
    /\ k \in {"large", "raw"} /\ t \in Nat /\ Slab!HasPages(x.pages, t) /\ n \in Nat \ {0}
    /\ p = x.pages[Slab!PageRun(x.pages, t)].first
    /\ y \in SlabState /\ y.pages = Slab!PageTake(x.pages, t) /\ y.zone = x.zone /\ y.array = x.array
    /\ y.spare = x.spare /\ OtherUsage(x, y, p)
    /\ b = PageAt(p) /\ lw = [lv EXCEPT ![b] = n] /\ rw = RawWith(raw, b, k) /\ h = Claim(g, p, t, k)
    /\ k = "large" => t = Slab!LargePages(n) /\ y.usage[p].type = "large" /\ y.usage[p].size = t
    /\ k = "raw" => t = 1 /\ n = PageSize

LEMMA RunTaken ==
    ASSUME NEW x, NEW lv, NEW raw, NEW g, SlabFits(x, lv, raw, g), NEW y, NEW lw, NEW rw, NEW h,
           NEW p, NEW b, NEW t, NEW n, NEW k, PagesHad(x, y, lv, lw, raw, rw, g, h, p, b, t, n, k)
    PROVE  /\ b \in Addr /\ lv[b] = 0 /\ p \in Pg /\ b \notin raw
           /\ SlabFits(y, lw, rw, h) /\ h.own[p] = p /\ h.kind[p] = k
           /\ OthersCount(x, lv, raw, y, lw, rw, b)
<1> /\ k \in {"large", "raw"} /\ t \in Nat /\ Slab!HasPages(x.pages, t) /\ n \in Nat \ {0}
    /\ p = x.pages[Slab!PageRun(x.pages, t)].first
    /\ y \in SlabState /\ y.pages = Slab!PageTake(x.pages, t) /\ y.zone = x.zone /\ y.array = x.array
    /\ y.spare = x.spare /\ OtherUsage(x, y, p)
    /\ b = PageAt(p) /\ lw = [lv EXCEPT ![b] = n] /\ rw = RawWith(raw, b, k) /\ h = Claim(g, p, t, k)
    /\ k = "large" => t = Slab!LargePages(n) /\ y.usage[p].type = "large" /\ y.usage[p].size = t
    /\ k = "raw" => t = 1 /\ n = PageSize
  BY DEF PagesHad
<1>1. /\ x \in SlabState /\ g \in Owners /\ lv \in [Addr -> Nat]
      /\ Ordered(x.pages) /\ PagesParted(x.pages, g)
  BY DEF SlabFits
<1>2. PICK M : M = y.pages
  OBVIOUS
<1>3. /\ Ordered(M) /\ p \in 0..(Pages - 1) /\ t \in 1..Pages /\ p + t <= Pages
      /\ \A q \in Int : Between(p, t, q) => IsFree(x.pages, q)
      /\ \A q \in Int : IsFree(M, q) <=> IsFree(x.pages, q) /\ ~Between(p, t, q)
  BY <1>1, <1>2, PageTakeKeeps
<1>4. p \in Pg /\ k \in Kinds /\ k # "none" /\ InHeap(p, t)
  BY <1>3, SlabNats DEF Pg, Kinds, InHeap
<1>40. AllFree(x.pages, p, t) /\ Less(M, x.pages, p, t)
  BY <1>3 DEF AllFree, Less
<1>5. b \in Addr /\ PageOf(b) = p
  BY <1>4, AddrFacts, PgFacts, PageAtFacts
<1>6. \A r \in Pg : r # p => PageAt(r) # b
  BY <1>4, PgFacts, PageAtFacts
<1>7. \A a \in Addr : a # b => lw[a] = lv[a] /\ (a \in rw <=> a \in raw)
  BY <1>1 DEF RawWith
<1>8. Between(p, t, p)
  BY <1>3, <1>4, PgFacts DEF Between
<1>9. Outside(x, y, lv, lw, raw, rw, p, t)
  <2>1. \A r \in Pg : r # p => (PageAt(r) \in rw <=> PageAt(r) \in raw)
    BY <1>6 DEF RawWith
  <2>2. \A q \in Pg : ~Between(p, t, q) => y.usage[q] = x.usage[q]
    BY <1>8 DEF OtherUsage
  <2>3. \A a \in Addr : ~Between(p, t, PageOf(a)) => lw[a] = lv[a] /\ (a \in rw <=> a \in raw)
    BY <1>5, <1>7, <1>8
  <2> QED BY <2>1, <2>2, <2>3 DEF Outside
<1>10. /\ h \in Owners /\ PagesParted(M, h) /\ h.kind[p] = k /\ h.len[p] = t
       /\ SameBut(x, y, lv, lw, raw, rw, g, h, p)
       /\ g.kind[p] = "none" /\ x.zone[p] = Slab!NoZone /\ p \notin Elems(x.spare) /\ PageAt(p) \notin raw
       /\ \A q \in Pg : q # p => h.kind[q] = g.kind[q]
       /\ \A q \in Pg : (h.own[q] = p <=> Between(p, t, q)) /\ g.own[q] # p
       /\ \A a \in Addr : h.own[PageOf(a)] = p => lv[a] = 0
  <2>1. PagesTaken(x, y, lv, lw, raw, rw, M, g, h, p, t, k)
    BY <1>4, <1>40, <1>9, ClaimFrame
  <2> QED BY <2>1 DEF PagesTaken
<1>11. lw \in [Addr -> Nat] /\ lw[b] = n
  BY <1>1, <1>5
<1>12. RunFit(y, lw, rw, h, p)
  <2>1. \A a \in Addr : lw[a] > 0 /\ h.own[PageOf(a)] = p => a = b
    <3>1. ASSUME NEW a \in Addr, lw[a] > 0, h.own[PageOf(a)] = p, a # b PROVE FALSE
      <4>1. lw[a] = 0
        BY <1>7, <1>10, <3>1
      <4> QED BY <3>1, <4>1
    <3> QED BY <3>1
  <2>2. k = "raw" <=> PageAt(p) \in rw
    BY <1>10 DEF RawWith
  <2>3. k = "large" => /\ lw[PageAt(p)] > 0 /\ h.len[p] = Slab!LargePages(lw[PageAt(p)])
                       /\ y.usage[p].type = "large" /\ y.usage[p].size = h.len[p]
    <3>1. ASSUME k = "large"
          PROVE  /\ n > 0 /\ h.len[p] = t /\ lw[PageAt(p)] = n /\ t = Slab!LargePages(n)
                 /\ y.usage[p].type = "large" /\ y.usage[p].size = t
      <4>1. h.len[p] = t /\ lw[PageAt(p)] = n
        BY <1>10, <1>11
      <4>2. n > 0
        OBVIOUS
      <4>3. t = Slab!LargePages(n) /\ y.usage[p].type = "large" /\ y.usage[p].size = t
        BY <3>1
      <4> QED BY <4>1, <4>2, <4>3
    <3> QED BY <3>1
  <2>4. k = "raw" => h.len[p] = 1 /\ lw[PageAt(p)] = PageSize
    BY <1>10, <1>11
  <2>5. k # "usage" /\ k # "zone" /\ k # "spare"
    OBVIOUS
  <2> QED BY <1>10, <2>1, <2>2, <2>3, <2>4, <2>5 DEF RunFit
<1>13. ListsFit(y, h)
  <2>1. g.kind[p] # "zone" /\ h.kind[p] # "zone"
    BY <1>10
  <2>2. \A r \in Pg : r # p => h.kind[r] = g.kind[r] /\ y.zone[r] = x.zone[r]
    BY <1>10
  <2> QED BY <1>4, <2>1, <2>2, ListsSame
<1>14. RawAtPages(rw)
  BY <1>4 DEF SlabFits, BlocksFit, RawAtPages, RawWith
<1>15. LeftEmpty(lw, g, h, p)
  BY <1>10, AddrFacts DEF LeftEmpty
<1>16. g.kind[p] # "usage"
  BY <1>10
<1>17. SlabFits(y, lw, rw, h)
  BY <1>2, <1>3, <1>4, <1>10, <1>11, <1>12, <1>13, <1>14, <1>15, <1>16, FrameFits
<1>18. ASSUME NEW a \in Addr, a # b PROVE CountOf(y, lw, rw, a) = CountOf(x, lv, raw, a)
  <2>1. PageOf(a) \in Pg /\ g.own[PageOf(a)] # p
    BY <1>10, AddrFacts
  <2>2. lw[a] = lv[a] /\ (a \in rw <=> a \in raw)
    BY <1>7, <1>18
  <2>3. SameBlock(x, y, lv, lw, raw, rw, g, h, p, a)
    BY <2>1, <2>2 DEF SameBlock
  <2>4. SameBut(x, y, lv, lw, raw, rw, g, h, p) /\ SlabFits(x, lv, raw, g) /\ p \in Pg
    BY <1>4, <1>10
  <2> QED BY ONLY <1>17, <1>18, <2>3, <2>4, FrameCount
<1>19. lv[b] = 0 /\ h.own[p] = p
  BY <1>4, <1>5, <1>8, <1>10
<1> QED BY <1>4, <1>5, <1>10, <1>17, <1>18, <1>19 DEF OthersCount

(* And given back. *)
PagesBack(x, y, lv, lw, raw, rw, g, h, p, b) ==
    /\ p \in Pg /\ g.kind[p] \in {"large", "raw"} /\ y \in SlabState
    /\ y.pages = Slab!PageFree(x.pages, p, g.len[p]) /\ y.zone = x.zone /\ y.array = x.array
    /\ y.spare = x.spare /\ OtherUsage(x, y, p)
    /\ b = PageAt(p) /\ lw = [lv EXCEPT ![b] = 0] /\ rw = RawWithout(raw, b) /\ h = Drop(g, p)

LEMMA RunGiven ==
    ASSUME NEW x, NEW lv, NEW raw, NEW g, SlabFits(x, lv, raw, g),
           NEW y, NEW lw, NEW rw, NEW h, NEW p, NEW b, PagesBack(x, y, lv, lw, raw, rw, g, h, p, b)
    PROVE  /\ b \in Addr /\ SlabFits(y, lw, rw, h) /\ lw[b] = 0
           /\ OthersCount(x, lv, raw, y, lw, rw, b)
<1>0. PICK t : t = g.len[p]
  OBVIOUS
<1> /\ p \in Pg /\ g.kind[p] \in {"large", "raw"} /\ y \in SlabState
    /\ y.pages = Slab!PageFree(x.pages, p, t) /\ y.zone = x.zone /\ y.array = x.array
    /\ y.spare = x.spare /\ OtherUsage(x, y, p)
    /\ b = PageAt(p) /\ lw = [lv EXCEPT ![b] = 0] /\ rw = RawWithout(raw, b) /\ h = Drop(g, p) /\ t = g.len[p]
  BY <1>0 DEF PagesBack
<1>1. /\ x \in SlabState /\ g \in Owners /\ lv \in [Addr -> Nat]
      /\ Ordered(x.pages) /\ PagesParted(x.pages, g) /\ g.kind[p] # "none"
  BY DEF SlabFits
<1>2. PICK M : M = y.pages
  OBVIOUS
<1>3. t \in 1..Pages /\ p \in 0..Pages /\ p + t <= Pages /\ p \in Nat
      /\ \A q \in Pg : g.own[q] = p <=> Between(p, t, q)
  <2>1. t \in Nat /\ t > 0 /\ p + t <= Pages /\ \A q \in Pg : g.own[q] = p <=> Between(p, t, q)
    BY <1>1 DEF PagesParted, Owners
  <2> QED BY <2>1, SlabNats, PgFacts
<1>4. \A q \in p..(p + t - 1) : ~IsFree(x.pages, q)
  <2>1. ASSUME NEW q \in p..(p + t - 1) PROVE ~IsFree(x.pages, q)
    <3>1. q \in Pg /\ Between(p, t, q)
      BY <1>3, SlabNats DEF Pg, Between
    <3>2. g.own[q] # -1
      BY <1>3, <3>1, PgFacts
    <3> QED BY <1>1, <3>1, <3>2 DEF PagesParted
  <2> QED BY <2>1
<1>5. Ordered(M) /\ More(M, x.pages, p, t)
  BY <1>1, <1>2, <1>3, <1>4, PageFreeKeeps DEF More
<1>6. b \in Addr /\ PageOf(b) = p
  BY AddrFacts, PgFacts, PageAtFacts
<1>7. \A r \in Pg : r # p => PageAt(r) # b
  BY PgFacts, PageAtFacts
<1>8. \A a \in Addr : a # b => lw[a] = lv[a] /\ (a \in rw <=> a \in raw)
  BY <1>1 DEF RawWithout
<1>9. Between(p, t, p)
  BY <1>3 DEF Between
<1>10. Outside(x, y, lv, lw, raw, rw, p, t)
  <2>1. \A r \in Pg : r # p => (PageAt(r) \in rw <=> PageAt(r) \in raw)
    BY <1>7 DEF RawWithout
  <2>2. \A q \in Pg : ~Between(p, t, q) => y.usage[q] = x.usage[q]
    BY <1>9 DEF OtherUsage
  <2>3. \A a \in Addr : ~Between(p, t, PageOf(a)) => lw[a] = lv[a] /\ (a \in rw <=> a \in raw)
    BY <1>6, <1>8, <1>9
  <2> QED BY <2>1, <2>2, <2>3 DEF Outside
<1>11. /\ h \in Owners /\ PagesParted(M, h) /\ h.kind[p] = "none"
       /\ SameBut(x, y, lv, lw, raw, rw, g, h, p)
       /\ \A q \in Pg : q # p => h.kind[q] = g.kind[q]
       /\ \A q \in Pg : (g.own[q] = p <=> Between(p, t, q)) /\ h.own[q] # p
  <2>1. PagesGiven(x, y, lv, lw, raw, rw, M, g, h, p, t)
    BY <1>1, <1>5, <1>10, DropFrame
  <2> QED BY <2>1 DEF PagesGiven
<1>12. lw \in [Addr -> Nat] /\ lw[b] = 0
  BY <1>1, <1>6
<1>13. x.zone[p] = Slab!NoZone /\ p \notin Elems(x.spare)
  BY DEF SlabFits, UsesFit
<1>14. RunFit(y, lw, rw, h, p)
  <2>1. \A a \in Addr : h.own[PageOf(a)] # p
    BY <1>11, AddrFacts
  <2>2. PageAt(p) \notin rw
    BY DEF RawWithout
  <2> QED BY <1>11, <1>13, <2>1, <2>2 DEF RunFit
<1>15. ListsFit(y, h)
  <2>1. g.kind[p] # "zone" /\ h.kind[p] # "zone"
    BY <1>11
  <2>2. \A r \in Pg : r # p => h.kind[r] = g.kind[r] /\ y.zone[r] = x.zone[r]
    BY <1>11
  <2> QED BY <2>1, <2>2, ListsSame
<1>16. RawAtPages(rw)
  BY DEF SlabFits, BlocksFit, RawAtPages, RawWithout
<1>17. ASSUME NEW a \in Addr, g.own[PageOf(a)] = p, a # b PROVE lv[a] = 0 /\ lw[a] = 0
  <2>1. ASSUME lv[a] > 0 PROVE FALSE
    <3>1. g.kind[p] = "zone" \/ a = PageAt(p)
      BY <1>17, <2>1, OwnerOf
    <3> QED BY <1>17, <3>1
  <2>2. lv[a] \in Nat /\ lw[a] = lv[a]
    BY <1>1, <1>8, <1>17
  <2> QED BY <2>1, <2>2
<1>18. LeftEmpty(lw, g, h, p)
  BY <1>12, <1>17 DEF LeftEmpty
<1>19. SlabFits(y, lw, rw, h)
  <2>1. g.kind[p] # "usage"
    OBVIOUS
  <2> QED BY <1>2, <1>5, <1>11, <1>12, <1>14, <1>15, <1>16, <1>18, <2>1, FrameFits
<1>20. ASSUME NEW a \in Addr, a # b PROVE CountOf(y, lw, rw, a) = CountOf(x, lv, raw, a)
  <2>1. lw[a] = lv[a] /\ (a \in rw <=> a \in raw)
    BY <1>8, <1>20
  <2>2. ~(lv[a] > 0 /\ g.own[PageOf(a)] = p)
    <3>1. ASSUME lv[a] > 0, g.own[PageOf(a)] = p PROVE FALSE
      <4>1. lv[a] = 0
        BY <1>17, <1>20, <3>1
      <4> QED BY <3>1, <4>1
    <3> QED BY <3>1
  <2>3. SameBlock(x, y, lv, lw, raw, rw, g, h, p, a)
    BY <2>1, <2>2 DEF SameBlock
  <2> QED BY <1>11, <1>19, <2>3, FrameCount
<1> QED BY <1>6, <1>12, <1>19, <1>20 DEF OthersCount

-----------------------------------------------------------------------------
(* The zone at p is the only one that changes, and its list the only list.   *)
OneList(x, y, g, h, p, i) ==
    /\ \A r \in Pg : r # p => h.kind[r] = g.kind[r] /\ y.zone[r] = x.zone[r]
    /\ \A j \in Slab!Indices : j # i => y.array[j] = x.array[j]
    /\ IsOnce(y.array[i])
    /\ \A r \in Pg : r # p => (r \in Elems(y.array[i]) <=> r \in Elems(x.array[i]))
    /\ p \in Elems(y.array[i]) <=> h.kind[p] = "zone" /\ y.zone[p].nfree > 0
    /\ h.kind[p] = "zone" => y.zone[p].index = i
    /\ g.kind[p] = "zone" => x.zone[p].index = i
    /\ IsOnce(y.spare) /\ Len(y.spare) <= ReleaseThresh

LEMMA ListsMove ==
    ASSUME NEW x \in SlabState, NEW y \in SlabState, NEW g, NEW h, NEW lv, NEW raw, SlabFits(x, lv, raw, g),
           NEW p \in Pg, NEW i \in Slab!Indices, OneList(x, y, g, h, p, i)
    PROVE  ListsFit(y, h)
<1>0. ListsFit(x, g)
  BY DEF SlabFits
<1>1. ASSUME NEW j \in Slab!Indices
      PROVE  /\ IsOnce(y.array[j])
             /\ \A r \in Elems(y.array[j]) : h.kind[r] = "zone" /\ y.zone[r].index = j /\ y.zone[r].nfree > 0
  <2>1. Elems(y.array[j]) \subseteq Pg /\ Elems(x.array[j]) \subseteq Pg
    BY StateTypes, ElemsType
  <2>2. IsOnce(x.array[j])
        /\ \A r \in Elems(x.array[j]) : g.kind[r] = "zone" /\ x.zone[r].index = j /\ x.zone[r].nfree > 0
    BY <1>0 DEF ListsFit
  <2>3. CASE j # i
    <3>1. y.array[j] = x.array[j]
      BY <2>3 DEF OneList
    <3>2. p \notin Elems(x.array[j])
      BY <2>2, <2>3 DEF OneList
    <3>3. ASSUME NEW r \in Elems(x.array[j])
          PROVE  h.kind[r] = "zone" /\ y.zone[r].index = j /\ y.zone[r].nfree > 0
      <4>1. r \in Pg /\ r # p
        BY <2>1, <3>2, <3>3
      <4> QED BY <2>2, <3>3, <4>1 DEF OneList
    <3> QED BY <2>2, <3>1, <3>3
  <2>4. CASE j = i
    <3>1. ASSUME NEW r \in Elems(y.array[i])
          PROVE  h.kind[r] = "zone" /\ y.zone[r].index = i /\ y.zone[r].nfree > 0
      <4>1. r \in Pg
        BY <2>1, <2>4, <3>1
      <4>2. CASE r = p
        BY <3>1, <4>2 DEF OneList
      <4>3. CASE r # p
        <5>1. r \in Elems(x.array[i]) /\ h.kind[r] = g.kind[r] /\ y.zone[r] = x.zone[r]
          BY <3>1, <4>1, <4>3 DEF OneList
        <5> QED BY <2>2, <2>4, <5>1
      <4> QED BY <4>2, <4>3
    <3>2. IsOnce(y.array[i])
      BY DEF OneList
    <3> QED BY <2>4, <3>1, <3>2
  <2> QED BY <2>3, <2>4
<1>2. ASSUME NEW r \in Pg, h.kind[r] = "zone", y.zone[r].nfree > 0
      PROVE  r \in Elems(y.array[y.zone[r].index])
  <2>1. CASE r = p
    <3>1. y.zone[p].index = i /\ p \in Elems(y.array[i])
      BY <1>2, <2>1 DEF OneList
    <3> QED BY <2>1, <3>1
  <2>2. CASE r # p
    <3>1. g.kind[r] = "zone" /\ y.zone[r] = x.zone[r]
      BY <1>2, <2>2 DEF OneList
    <3>2. PICK j : j = x.zone[r].index
      OBVIOUS
    <3>3. r \in Elems(x.array[j])
      BY <1>0, <1>2, <3>1, <3>2 DEF ListsFit
    <3>4. CASE j = i
      BY <2>2, <3>1, <3>2, <3>3, <3>4 DEF OneList
    <3>5. CASE j # i
      <4>1. j \in Slab!Indices => y.array[j] = x.array[j]
        BY <3>5 DEF OneList
      <4>2. j \in Slab!Indices
        <5>1. x.zone[r] \in ZoneRec /\ ZoneKind(x.zone[r])
          BY <3>1, StateTypes DEF SlabFits, ZonesFit, ZoneOk
        <5> QED BY <3>2, <5>1, ZoneKindFacts
      <4> QED BY <3>1, <3>2, <3>3, <4>1, <4>2
    <3> QED BY <3>4, <3>5
  <2> QED BY <2>1, <2>2
<1>3. IsOnce(y.spare) /\ Len(y.spare) <= ReleaseThresh
  BY DEF OneList
<1> QED BY <1>1, <1>2, <1>3 DEF ListsFit

(* The zones at other pages stay. *)
OtherZones(x, y, p) == \A r \in Pg : r # p => y.zone[r] = x.zone[r]

(* A zone in use stays in use.                                               *)
LEMMA ZoneChanged ==
    ASSUME NEW x, NEW lv, NEW raw, NEW g, SlabFits(x, lv, raw, g), NEW p \in Pg, g.kind[p] = "zone",
           NEW y \in SlabState, y.pages = x.pages, y.usage = x.usage, y.spare = x.spare,
           OtherZones(x, y, p), y.zone[p].size = x.zone[p].size,
           NEW b \in Addr, Between(p, ZonePages, PageOf(b)), NEW n \in Nat, NEW lw, lw = [lv EXCEPT ![b] = n],
           ZoneOk(y.zone[p], p, lw), ListsFit(y, g)
    PROVE  /\ SlabFits(y, lw, raw, g)
           /\ OthersCount(x, lv, raw, y, lw, raw, b)
<1>1. /\ x \in SlabState /\ g \in Owners /\ lv \in [Addr -> Nat]
      /\ Ordered(x.pages) /\ PagesParted(x.pages, g)
  BY DEF SlabFits
<1>2. g.own[PageOf(b)] = p
  BY OwnedPages, AddrFacts
<1>3. lw \in [Addr -> Nat] /\ \A a \in Addr : a # b => lw[a] = lv[a]
  BY <1>1
<1>4. SameBut(x, y, lv, lw, raw, raw, g, g, p)
  <2>1. \A a \in Addr : g.own[PageOf(a)] # p => lw[a] = lv[a]
    BY <1>2, <1>3
  <2>2. \A q \in Pg : g.own[q] = p => g.own[q] \in {p, -1}
    OBVIOUS
  <2> QED BY <2>1, <2>2 DEF SameBut, OtherZones
<1>5. RunFit(y, lw, raw, g, p)
  <2>1. /\ g.kind[p] = "spare" <=> p \in Elems(x.spare)
        /\ g.len[p] = ZonePages
        /\ \A q \in Pg : Between(p, ZonePages, q) => x.usage[q].type = "small" /\ x.usage[q].size = q - p
        /\ g.kind[p] = "raw" <=> PageAt(p) \in raw
    BY DEF SlabFits, UsesFit
  <2>2. g.kind[p] # "usage" /\ g.kind[p] # "raw" /\ g.kind[p] # "large" /\ g.kind[p] # "spare"
    OBVIOUS
  <2>3. /\ \A q \in Pg : Between(p, ZonePages, q) => y.usage[q].type = "small" /\ y.usage[q].size = q - p
        /\ p \notin Elems(y.spare) /\ PageAt(p) \notin raw
    BY <2>1, <2>2
  <2>4. g.kind[p] # "zone" => y.zone[p] = Slab!NoZone
    OBVIOUS
  <2>5. g.kind[p] = "spare" <=> p \in Elems(y.spare)
    BY <2>2, <2>3
  <2>6. g.kind[p] \in {"zone", "spare"} =>
          /\ g.len[p] = ZonePages
          /\ \A q \in Pg : Between(p, ZonePages, q) => y.usage[q].type = "small" /\ y.usage[q].size = q - p
    BY <2>1, <2>3
  <2>7. g.kind[p] = "raw" <=> PageAt(p) \in raw
    BY <2>2, <2>3
  <2>8. ZoneOk(y.zone[p], p, lw)
    OBVIOUS
  <2> QED BY <2>2, <2>4, <2>5, <2>6, <2>7, <2>8 DEF RunFit
<1>6. LeftEmpty(lw, g, g, p) /\ RawAtPages(raw)
  BY DEF SlabFits, BlocksFit, LeftEmpty, RawAtPages
<1>7. SlabFits(y, lw, raw, g)
  <2>1. g.kind[p] # "usage"
    OBVIOUS
  <2> QED BY <1>1, <1>3, <1>4, <1>5, <1>6, <2>1, FrameFits
<1>8. ASSUME NEW a \in Addr, a # b PROVE CountOf(y, lw, raw, a) = CountOf(x, lv, raw, a)
  <2>1. SameBlock(x, y, lv, lw, raw, raw, g, g, p, a)
    BY <1>3, <1>8 DEF SameBlock
  <2> QED BY <1>4, <1>7, <2>1, FrameCount
<1> QED BY <1>7, <1>8 DEF OthersCount

(* What a live block of a zone counts.                                       *)
LEMMA ZoneCount ==
    ASSUME NEW x, NEW lv, NEW raw, NEW g, SlabFits(x, lv, raw, g), NEW p \in Pg, g.kind[p] = "zone",
           NEW b \in Addr, Between(p, ZonePages, PageOf(b))
    PROVE  /\ b \notin raw /\ g.own[PageOf(b)] = p
           /\ CountOf(x, lv, raw, b) = IF lv[b] > 0 THEN x.zone[p].size ELSE 0
<1>1. g.own[PageOf(b)] = p
  BY OwnedPages, AddrFacts
<1>2. b \notin raw
  <2>1. ASSUME b \in raw PROVE FALSE
    <3>1. PICK r \in Pg : b = PageAt(r)
      BY <2>1 DEF SlabFits, BlocksFit
    <3>2. g.kind[r] = "raw" /\ PageOf(b) = r
      BY <2>1, <3>1, PgFacts, PageAtFacts DEF SlabFits, UsesFit
    <3>3. g.own[r] = r
      BY <3>2, OwnsFirst DEF SlabFits
    <3> QED BY <1>1, <3>2, <3>3
  <2> QED BY <2>1
<1>3. CASE lv[b] > 0
  BY <1>1, <1>2, <1>3, CountIs
<1>4. CASE ~(lv[b] > 0)
  BY <1>1, <1>2, <1>4 DEF CountOf
<1> QED BY <1>1, <1>2, <1>3, <1>4

(* Count adds to used.                                                       *)
LEMMA CountAdds ==
    ASSUME NEW x \in SlabState, NEW n \in Nat, NEW y, y = Slab!Count(x, n)
    PROVE  /\ y \in SlabState /\ y.pages = x.pages /\ y.usage = x.usage /\ y.zone = x.zone
           /\ y.array = x.array /\ y.spare = x.spare /\ y.used = x.used + n /\ y.used <= y.max
<1>1. /\ y.pages = x.pages /\ y.usage = x.usage /\ y.zone = x.zone
      /\ y.array = x.array /\ y.spare = x.spare /\ y.used = x.used + n
      /\ y.max = IF x.used + n > x.max THEN x.used + n ELSE x.max
  BY DEF Slab!Count, SlabState
<1>2. x.used \in Int /\ x.max \in Int
  BY StateTypes
<1>3. y.used \in Int /\ y.max \in Int /\ y.used <= y.max
  BY <1>1, <1>2
<1>4. y = [pages |-> y.pages, usage |-> y.usage, zone |-> y.zone, array |-> y.array, spare |-> y.spare,
           used |-> y.used, max |-> y.max]
  BY <1>1 DEF Slab!Count, SlabState
<1> QED BY <1>1, <1>3, <1>4, StateTypes DEF SlabState

-----------------------------------------------------------------------------
(* What a zone in use is.                                                    *)
LEMMA ZoneIs ==
    ASSUME NEW x, NEW lv, NEW raw, NEW g, SlabFits(x, lv, raw, g), NEW p \in Pg, g.kind[p] = "zone",
           NEW z, z = x.zone[p]
    PROVE  /\ z \in ZoneRec /\ ZoneOk(z, p, lv) /\ ZoneKind(z) /\ p + ZonePages <= Pages
           /\ z.size \in Nat \ {0} /\ z.nmax \in Nat /\ z.uindex \in Nat /\ z.uindex < z.nmax
           /\ z.index \in Slab!Indices /\ z.size = SizeAt(z.index) /\ z.nfree \in Int /\ z.base \in Nat
           /\ z.chunks \in Seq(Addr)
<1>1. z \in ZoneRec /\ ZoneOk(z, p, lv) /\ ZoneKind(z) /\ p + ZonePages <= Pages
  <2>1. x \in SlabState /\ ZonesFit(x, lv, g)
    BY DEF SlabFits
  <2>2. z \in ZoneRec
    BY <2>1, StateTypes
  <2>3. ZoneOk(z, p, lv)
    BY <2>1 DEF ZonesFit
  <2>4. p + ZonePages <= Pages
    BY OwnedPages
  <2> QED BY <2>2, <2>3, <2>4 DEF ZoneOk
<1>2. z.nfree \in Int /\ z.base \in Nat /\ z.chunks \in Seq(Addr)
  BY <1>1 DEF ZoneRec
<1>3. z.size \in Nat \ {0} /\ z.nmax \in Nat /\ z.uindex \in 0..(z.nmax - 1)
      /\ z.index \in Slab!Indices /\ z.size = SizeAt(z.index)
  BY <1>1, ZoneKindFacts
<1> QED BY <1>1, <1>2, <1>3

(* A zone with a chunk less, never used or freed, and with one more.         *)
TakeFresh(z) == [z EXCEPT !.nfree = @ - 1, !.uindex = @ + 1]
TakeFreed(z) == [z EXCEPT !.nfree = @ - 1, !.chunks = Tail(@)]
PutChunk(z, b) == [z EXCEPT !.chunks = <<b>> \o @, !.nfree = @ + 1]
NextFresh(z, p) == ChunkOfZone(z, p, z.uindex + 1)

(* The next chunk of a zone that has one: it is free, and the zone stays what *)
(* it promises when it is handed out.                                        *)
LEMMA FreshChunk ==
    ASSUME NEW z \in ZoneRec, NEW p \in Pg, p + ZonePages <= Pages, NEW lv \in [Addr -> Nat], ZoneOk(z, p, lv),
           Slab!NeverUsed(z), NEW b, b = NextFresh(z, p),
           NEW n \in Nat \ {0}, n <= z.size, NEW lw, lw = [lv EXCEPT ![b] = n],
           NEW w, w = TakeFresh(z)
    PROVE  /\ b \in Addr /\ Between(p, ZonePages, PageOf(b)) /\ lv[b] = 0
           /\ w \in ZoneRec /\ ZoneOk(w, p, lw)
<1>1. /\ ZoneKind(z) /\ z.size \in Nat \ {0} /\ z.nmax \in Nat /\ z.uindex \in 0..(z.nmax - 1)
      /\ z.nfree \in Int /\ z.chunks \in Seq(Addr)
  BY ZoneKindFacts DEF ZoneOk, ZoneRec
<1>2. PICK u : u = z.uindex
  OBVIOUS
<1>3. u \in Nat /\ u + 1 \in 0..(z.nmax - 1) /\ u \in 0..(z.nmax - 1)
  BY <1>1, <1>2 DEF Slab!NeverUsed
<1>4. PICK v : v = u + 1
  OBVIOUS
<1>5. v \in 0..(z.nmax - 1) /\ b = ChunkOfZone(z, p, v)
  BY <1>2, <1>3, <1>4 DEF NextFresh
<1>6. /\ b \in Addr /\ Between(p, ZonePages, PageOf(b))
      /\ \A j \in 0..(z.nmax - 1) : v # j => ChunkOfZone(z, p, j) # b
  BY <1>1, <1>5, ZoneChunks
<1>7. \A j \in 0..u : j \in 0..(z.nmax - 1) /\ v # j
  BY <1>1, <1>3, <1>4
<1>8. \A j \in 0..u : ChunkOfZone(z, p, j) # b
  BY <1>6, <1>7
<1>9. lv[b] = 0
  <2>1. ASSUME lv[b] > 0 PROVE FALSE
    <3>1. \E j \in 0..u : b = ChunkOfZone(z, p, j)
      BY <1>2, <1>6, <2>1 DEF ZoneOk
    <3> QED BY <1>8, <3>1
  <2>2. lv[b] \in Nat
    BY <1>6
  <2> QED BY <2>1, <2>2
<1>10. /\ w.index = z.index /\ w.size = z.size /\ w.nfree = z.nfree - 1 /\ w.nmax = z.nmax
       /\ w.uindex = v /\ w.base = z.base /\ w.chunks = z.chunks
  BY <1>2, <1>4 DEF ZoneRec, TakeFresh
<1>11. w \in ZoneRec
  <2>1. w.nfree \in Int /\ w.uindex \in Int
    BY <1>1, <1>3, <1>4, <1>10
  <2>2. w = [index |-> w.index, size |-> w.size, nfree |-> w.nfree, nmax |-> w.nmax, uindex |-> w.uindex,
             base |-> w.base, chunks |-> w.chunks]
    BY DEF ZoneRec, TakeFresh
  <2>3. /\ w.index \in Int /\ w.size \in Nat /\ w.nmax \in Int /\ w.base \in Nat /\ w.chunks \in Seq(Addr)
    BY <1>10 DEF ZoneRec
  <2> QED BY <2>1, <2>2, <2>3 DEF ZoneRec
<1>12. \A i : ChunkOfZone(w, p, i) = ChunkOfZone(z, p, i)
  BY <1>10 DEF ChunkOfZone
<1>13. lw[b] = n /\ \A a \in Addr : a # b => lw[a] = lv[a]
  BY <1>6
<1>14. ZoneKind(w)
  <2>1. w.uindex \in 0..(w.nmax - 1)
    BY <1>5, <1>10
  <2> QED BY <1>1, <1>10, <2>1 DEF ZoneKind
<1>15. w.nfree = (w.nmax - 1 - w.uindex) + Len(w.chunks)
  <2>1. z.nfree = (z.nmax - 1 - u) + Len(z.chunks) /\ Len(z.chunks) \in Nat
    BY <1>1, <1>2 DEF ZoneOk
  <2>2. PICK l, m, f : l = Len(z.chunks) /\ m = z.nmax /\ f = z.nfree
    OBVIOUS
  <2>3. l \in Nat /\ m \in Nat /\ u \in Nat /\ f = (m - 1 - u) + l
    BY <1>1, <1>3, <2>1, <2>2
  <2>4. f - 1 = (m - 1 - (u + 1)) + l
    BY ONLY <2>3
  <2>5. w.nfree = f - 1 /\ w.nmax = m /\ w.uindex = u + 1 /\ Len(w.chunks) = l
    BY ONLY <1>4, <1>10, <2>2
  <2> QED BY ONLY <2>4, <2>5
<1>16. Elems(z.chunks) \subseteq Addr
  BY <1>1, ElemsType
<1>17. \A c \in Elems(z.chunks) : c # b /\ lv[c] = 0 /\ \E i \in 0..u : c = ChunkOfZone(z, p, i)
  BY <1>2, <1>8 DEF ZoneOk
<1>18. \A i \in 0..u : i \in 0..v
  BY <1>3, <1>4
<1>19. \A i \in 0..v : i = v \/ i \in 0..u
  BY <1>3, <1>4
<1>20. \A c \in Elems(w.chunks) : lw[c] = 0 /\ \E i \in 0..w.uindex : c = ChunkOfZone(w, p, i)
  BY <1>10, <1>12, <1>13, <1>16, <1>17, <1>18
<1>21. ASSUME NEW i \in 0..v PROVE lw[ChunkOfZone(z, p, i)] > 0 \/ ChunkOfZone(z, p, i) \in Elems(z.chunks)
  <2>1. CASE i = v
    BY <1>5, <1>13, <2>1
  <2>2. CASE i \in 0..u
    <3>1. PICK c : c = ChunkOfZone(z, p, i)
      OBVIOUS
    <3>2. c # b /\ c \in Addr
      BY <1>1, <1>7, <1>8, <2>2, <3>1, ZoneChunks
    <3>3. lv[c] > 0 \/ c \in Elems(z.chunks)
      BY <1>2, <2>2, <3>1 DEF ZoneOk
    <3> QED BY <1>13, <3>1, <3>2, <3>3
  <2> QED BY <1>19, <2>1, <2>2
<1>22. ASSUME NEW a \in Addr, lw[a] > 0, Between(p, ZonePages, PageOf(a))
       PROVE  lw[a] <= z.size /\ \E i \in 0..v : a = ChunkOfZone(z, p, i)
  <2>1. CASE a = b
    <3>1. v \in 0..v
      BY <1>3, <1>4
    <3> QED BY <1>5, <1>13, <2>1, <3>1
  <2>2. CASE a # b
    <3>1. lw[a] = lv[a] /\ lv[a] > 0
      BY <1>13, <1>22, <2>2
    <3>2. lv[a] <= z.size /\ \E i \in 0..u : a = ChunkOfZone(z, p, i)
      BY <1>2, <1>22, <3>1 DEF ZoneOk
    <3> QED BY <1>18, <3>1, <3>2
  <2> QED BY <2>1, <2>2
<1>23. IsOnce(w.chunks)
  BY <1>10 DEF ZoneOk
<1>24. \A i \in 0..w.uindex : lw[ChunkOfZone(w, p, i)] > 0 \/ ChunkOfZone(w, p, i) \in Elems(w.chunks)
  BY <1>10, <1>12, <1>21
<1>25. \A a \in Addr : lw[a] > 0 /\ Between(p, ZonePages, PageOf(a)) =>
          lw[a] <= w.size /\ \E i \in 0..w.uindex : a = ChunkOfZone(w, p, i)
  BY <1>10, <1>12, <1>22
<1>26. ZoneOk(w, p, lw)
  BY <1>14, <1>15, <1>20, <1>23, <1>24, <1>25 DEF ZoneOk
<1> QED BY <1>6, <1>9, <1>11, <1>26

LEMMA FreedChunk ==
    ASSUME NEW z \in ZoneRec, NEW p \in Pg, p + ZonePages <= Pages, NEW lv \in [Addr -> Nat], ZoneOk(z, p, lv),
           z.chunks # <<>>, NEW b, b = Head(z.chunks),
           NEW n \in Nat \ {0}, n <= z.size, NEW lw, lw = [lv EXCEPT ![b] = n],
           NEW w, w = TakeFreed(z)
    PROVE  /\ b \in Addr /\ Between(p, ZonePages, PageOf(b)) /\ lv[b] = 0
           /\ w \in ZoneRec /\ ZoneOk(w, p, lw)
<1>1. /\ ZoneKind(z) /\ z.size \in Nat \ {0} /\ z.nmax \in Nat /\ z.uindex \in 0..(z.nmax - 1)
      /\ z.nfree \in Int /\ z.chunks \in Seq(Addr)
  BY ZoneKindFacts DEF ZoneOk, ZoneRec
<1>2. PICK t : t = Tail(z.chunks)
  OBVIOUS
<1>3. /\ t \in Seq(Addr) /\ Len(t) = Len(z.chunks) - 1 /\ b \in Addr
      /\ Elems(z.chunks) = {b} \cup Elems(t) /\ IsOnce(t) /\ b \notin Elems(t)
  BY <1>1, <1>2, TailFacts DEF ZoneOk
<1>4. PICK i \in 0..z.uindex : b = ChunkOfZone(z, p, i)
  BY <1>3 DEF ZoneOk
<1>5. i \in 0..(z.nmax - 1)
  BY <1>1
<1>6. Between(p, ZonePages, PageOf(b)) /\ lv[b] = 0
  BY <1>1, <1>3, <1>4, <1>5, ZoneChunks DEF ZoneOk
<1>7. /\ w.index = z.index /\ w.size = z.size /\ w.nfree = z.nfree - 1 /\ w.nmax = z.nmax
      /\ w.uindex = z.uindex /\ w.base = z.base /\ w.chunks = t
  BY <1>2 DEF ZoneRec, TakeFreed
<1>8. w \in ZoneRec
  <2>1. w.nfree \in Int /\ w.chunks \in Seq(Addr)
    BY <1>1, <1>3, <1>7
  <2>2. w = [index |-> w.index, size |-> w.size, nfree |-> w.nfree, nmax |-> w.nmax, uindex |-> w.uindex,
             base |-> w.base, chunks |-> w.chunks]
    BY DEF ZoneRec, TakeFreed
  <2>3. w.index \in Int /\ w.size \in Nat /\ w.nmax \in Int /\ w.base \in Nat /\ w.uindex \in Int
    BY <1>7 DEF ZoneRec
  <2> QED BY <2>1, <2>2, <2>3 DEF ZoneRec
<1>9. \A j : ChunkOfZone(w, p, j) = ChunkOfZone(z, p, j)
  BY <1>7 DEF ChunkOfZone
<1>10. lw[b] = n /\ \A a \in Addr : a # b => lw[a] = lv[a]
  BY <1>3
<1>11. ZoneKind(w)
  BY <1>1, <1>7 DEF ZoneKind
<1>12. w.nfree = (w.nmax - 1 - w.uindex) + Len(w.chunks)
  <2>1. z.nfree = (z.nmax - 1 - z.uindex) + Len(z.chunks) /\ Len(z.chunks) \in Nat
    BY <1>1 DEF ZoneOk
  <2>2. PICK l, k, m, v, f : l = Len(z.chunks) /\ k = Len(t) /\ m = z.nmax /\ v = z.uindex /\ f = z.nfree
    OBVIOUS
  <2>3. l \in Nat /\ k = l - 1 /\ m \in Nat /\ v \in 0..(m - 1) /\ f = (m - 1 - v) + l
    BY <1>1, <1>3, <2>1, <2>2
  <2>4. f - 1 = (m - 1 - v) + k
    BY ONLY <2>3
  <2>5. w.nfree = f - 1 /\ w.nmax = m /\ w.uindex = v /\ Len(w.chunks) = k
    BY ONLY <1>7, <2>2
  <2> QED BY ONLY <2>4, <2>5
<1>13. Elems(t) \subseteq Addr
  BY <1>3, ElemsType
<1>14. \A c \in Elems(w.chunks) : lw[c] = 0 /\ \E j \in 0..w.uindex : c = ChunkOfZone(w, p, j)
  <2>1. ASSUME NEW c \in Elems(t) PROVE lw[c] = 0 /\ \E j \in 0..z.uindex : c = ChunkOfZone(z, p, j)
    <3>1. c # b /\ c \in Addr /\ c \in Elems(z.chunks)
      BY <1>3, <1>13, <2>1
    <3> QED BY <1>10, <3>1 DEF ZoneOk
  <2> QED BY ONLY <1>7, <1>9, <2>1
<1>15. \A j \in 0..w.uindex : lw[ChunkOfZone(w, p, j)] > 0 \/ ChunkOfZone(w, p, j) \in Elems(w.chunks)
  <2>1. ASSUME NEW j \in 0..z.uindex
        PROVE  lw[ChunkOfZone(z, p, j)] > 0 \/ ChunkOfZone(z, p, j) \in Elems(t)
    <3>1. PICK c : c = ChunkOfZone(z, p, j)
      OBVIOUS
    <3>2. j \in 0..(z.nmax - 1)
      BY <1>1
    <3>3. c \in Addr
      BY <1>1, <3>1, <3>2, ZoneChunks
    <3>4. lv[c] > 0 \/ c \in Elems(z.chunks)
      BY <3>1 DEF ZoneOk
    <3>5. CASE c = b
      BY <1>10, <3>1, <3>5
    <3>6. CASE c # b
      BY <1>3, <1>10, <3>1, <3>3, <3>4, <3>6
    <3> QED BY <3>5, <3>6
  <2> QED BY <1>7, <1>9, <2>1
<1>16. \A a \in Addr : lw[a] > 0 /\ Between(p, ZonePages, PageOf(a)) =>
          lw[a] <= w.size /\ \E j \in 0..w.uindex : a = ChunkOfZone(w, p, j)
  <2>1. ASSUME NEW a \in Addr, lw[a] > 0, Between(p, ZonePages, PageOf(a))
        PROVE  lw[a] <= z.size /\ \E j \in 0..z.uindex : a = ChunkOfZone(z, p, j)
    <3>1. CASE a = b
      BY <1>4, <1>10, <3>1
    <3>2. CASE a # b
      <4>1. lw[a] = lv[a] /\ lv[a] > 0
        BY <1>10, <2>1, <3>2
      <4> QED BY <2>1, <4>1 DEF ZoneOk
    <3> QED BY <3>1, <3>2
  <2> QED BY <1>7, <1>9, <2>1
<1>17. IsOnce(w.chunks)
  BY <1>3, <1>7
<1>18. ZoneOk(w, p, lw)
  BY <1>11, <1>12, <1>14, <1>15, <1>16, <1>17 DEF ZoneOk
<1> QED BY <1>3, <1>6, <1>8, <1>18

(* A chunk comes back to its zone.                                           *)
LEMMA ChunkBack ==
    ASSUME NEW z \in ZoneRec, NEW p \in Pg, p + ZonePages <= Pages, NEW lv \in [Addr -> Nat], ZoneOk(z, p, lv),
           NEW b \in Addr, lv[b] > 0, Between(p, ZonePages, PageOf(b)), NEW lw, lw = [lv EXCEPT ![b] = 0],
           NEW w, w = PutChunk(z, b)
    PROVE  w \in ZoneRec /\ ZoneOk(w, p, lw)
<1>1. /\ ZoneKind(z) /\ z.size \in Nat \ {0} /\ z.nmax \in Nat /\ z.uindex \in 0..(z.nmax - 1)
      /\ z.nfree \in Int /\ z.chunks \in Seq(Addr)
  BY ZoneKindFacts DEF ZoneOk, ZoneRec
<1>2. PICK t : t = PushFront(z.chunks, b)
  OBVIOUS
<1>3. b \notin Elems(z.chunks)
  BY DEF ZoneOk
<1>4. /\ t \in Seq(Addr) /\ Elems(t) = Elems(z.chunks) \cup {b} /\ IsOnce(t)
  <2>1. IsOnce(z.chunks)
    BY DEF ZoneOk
  <2> QED BY <1>1, <1>2, <1>3, <2>1, PushFrontFacts
<1>5. t = <<b>> \o z.chunks /\ Len(t) = Len(z.chunks) + 1
  BY <1>1, <1>2 DEF PushFront
<1>6. PICK i \in 0..z.uindex : b = ChunkOfZone(z, p, i)
  BY DEF ZoneOk
<1>7. /\ w.index = z.index /\ w.size = z.size /\ w.nfree = z.nfree + 1 /\ w.nmax = z.nmax
      /\ w.uindex = z.uindex /\ w.base = z.base /\ w.chunks = t
  BY <1>5 DEF ZoneRec, PutChunk
<1>8. w \in ZoneRec
  <2>1. w.nfree \in Int /\ w.chunks \in Seq(Addr)
    BY <1>1, <1>4, <1>7
  <2>2. w = [index |-> w.index, size |-> w.size, nfree |-> w.nfree, nmax |-> w.nmax, uindex |-> w.uindex,
             base |-> w.base, chunks |-> w.chunks]
    BY DEF ZoneRec, PutChunk
  <2>3. w.index \in Int /\ w.size \in Nat /\ w.nmax \in Int /\ w.base \in Nat /\ w.uindex \in Int
    BY <1>7 DEF ZoneRec
  <2> QED BY <2>1, <2>2, <2>3 DEF ZoneRec
<1>9. \A j : ChunkOfZone(w, p, j) = ChunkOfZone(z, p, j)
  BY <1>7 DEF ChunkOfZone
<1>10. lw[b] = 0 /\ \A a \in Addr : a # b => lw[a] = lv[a]
  OBVIOUS
<1>11. ZoneKind(w)
  BY <1>1, <1>7 DEF ZoneKind
<1>12. w.nfree = (w.nmax - 1 - w.uindex) + Len(w.chunks)
  <2>1. z.nfree = (z.nmax - 1 - z.uindex) + Len(z.chunks) /\ Len(z.chunks) \in Nat
    BY <1>1 DEF ZoneOk
  <2>2. PICK l, k, m, v, f : l = Len(z.chunks) /\ k = Len(t) /\ m = z.nmax /\ v = z.uindex /\ f = z.nfree
    OBVIOUS
  <2>3. l \in Nat /\ k = l + 1 /\ m \in Nat /\ v \in 0..(m - 1) /\ f = (m - 1 - v) + l
    BY <1>1, <1>5, <2>1, <2>2
  <2>4. f + 1 = (m - 1 - v) + k
    BY ONLY <2>3
  <2>5. w.nfree = f + 1 /\ w.nmax = m /\ w.uindex = v /\ Len(w.chunks) = k
    BY ONLY <1>7, <2>2
  <2> QED BY ONLY <2>4, <2>5
<1>13. Elems(z.chunks) \subseteq Addr
  BY <1>1, ElemsType
<1>14. \A c \in Elems(w.chunks) : lw[c] = 0 /\ \E j \in 0..w.uindex : c = ChunkOfZone(w, p, j)
  <2>1. ASSUME NEW c \in Elems(t) PROVE lw[c] = 0 /\ \E j \in 0..z.uindex : c = ChunkOfZone(z, p, j)
    <3>1. CASE c = b
      BY <1>6, <1>10, <3>1
    <3>2. CASE c # b
      BY <1>4, <1>10, <1>13, <2>1, <3>2 DEF ZoneOk
    <3> QED BY <3>1, <3>2
  <2> QED BY <1>7, <1>9, <2>1
<1>15. \A j \in 0..w.uindex : lw[ChunkOfZone(w, p, j)] > 0 \/ ChunkOfZone(w, p, j) \in Elems(w.chunks)
  <2>1. ASSUME NEW j \in 0..z.uindex
        PROVE  lw[ChunkOfZone(z, p, j)] > 0 \/ ChunkOfZone(z, p, j) \in Elems(t)
    <3>1. PICK c : c = ChunkOfZone(z, p, j)
      OBVIOUS
    <3>2. j \in 0..(z.nmax - 1)
      BY <1>1
    <3>3. c \in Addr
      BY <1>1, <3>1, <3>2, ZoneChunks
    <3>4. lv[c] > 0 \/ c \in Elems(z.chunks)
      BY <3>1 DEF ZoneOk
    <3> QED BY <1>4, <1>10, <3>1, <3>3, <3>4
  <2> QED BY <1>7, <1>9, <2>1
<1>16. \A a \in Addr : lw[a] > 0 /\ Between(p, ZonePages, PageOf(a)) =>
          lw[a] <= w.size /\ \E j \in 0..w.uindex : a = ChunkOfZone(w, p, j)
  <2>1. ASSUME NEW a \in Addr, lw[a] > 0, Between(p, ZonePages, PageOf(a))
        PROVE  lw[a] <= z.size /\ \E j \in 0..z.uindex : a = ChunkOfZone(z, p, j)
    <3>1. a # b
      BY <1>10, <2>1
    <3>2. lw[a] = lv[a] /\ lv[a] > 0
      BY <1>10, <2>1, <3>1
    <3> QED BY <2>1, <3>2 DEF ZoneOk
  <2> QED BY <1>7, <1>9, <2>1
<1>17. IsOnce(w.chunks)
  BY <1>4, <1>7
<1>18. ZoneOk(w, p, lw)
  BY <1>11, <1>12, <1>14, <1>15, <1>16, <1>17 DEF ZoneOk
<1> QED BY <1>8, <1>18

-----------------------------------------------------------------------------
(* The head of a list of zones has a free chunk.                             *)
LEMMA HeadZone ==
    ASSUME NEW x, NEW lv, NEW raw, NEW g, SlabFits(x, lv, raw, g), NEW i \in Slab!Indices, x.array[i] # <<>>,
           NEW p, p = Slab!FirstZone(x, i)
    PROVE  /\ p \in Pg /\ g.kind[p] = "zone" /\ x.zone[p].index = i /\ x.zone[p].nfree > 0
           /\ p \in Elems(x.array[i]) /\ Tail(x.array[i]) \in Seq(Pg) /\ IsOnce(Tail(x.array[i]))
           /\ Elems(Tail(x.array[i])) = Elems(x.array[i]) \ {p}
<1>1. x.array[i] \in Seq(Pg) /\ p = Head(x.array[i]) /\ IsOnce(x.array[i])
  BY StateTypes DEF SlabFits, ListsFit, Slab!FirstZone
<1>2. /\ Tail(x.array[i]) \in Seq(Pg) /\ p \in Pg /\ Elems(x.array[i]) = {p} \cup Elems(Tail(x.array[i]))
      /\ IsOnce(Tail(x.array[i])) /\ p \notin Elems(Tail(x.array[i]))
  BY <1>1, TailFacts
<1>3. g.kind[p] = "zone" /\ x.zone[p].index = i /\ x.zone[p].nfree > 0
  BY <1>2 DEF SlabFits, ListsFit
<1> QED BY <1>2, <1>3

ZoneTaken(z) == IF Slab!NeverUsed(z) THEN TakeFresh(z) ELSE TakeFreed(z)

(* A block is handed out at b; lw records it.                               *)
HandedOut(y, lv, lw, raw, b) ==
    /\ b \in Addr /\ lv[b] = 0 /\ b \notin raw
    /\ UsedFits(y, lw, raw) /\ \E h : SlabFits(y, lw, raw, h)

(* rt_slab_alloc of n bytes from a zone that has a chunk.                    *)
OfChunk(x, y, lv, lw, b, i, n) ==
    /\ i \in Slab!Indices /\ x.array[i] # <<>> /\ n \in Nat \ {0} /\ n <= SizeAt(i)
    /\ b = Slab!NextChunk(x, Slab!FirstZone(x, i)) /\ lw = [lv EXCEPT ![b] = n] /\ y = Slab!TakeChunk(x, i)

LEMMA TakeChunkKeeps ==
    ASSUME NEW x, NEW lv, NEW raw, NEW g, SlabFits(x, lv, raw, g), UsedFits(x, lv, raw), NEW y, NEW lw, NEW b,
           NEW i, NEW n, OfChunk(x, y, lv, lw, b, i, n)
    PROVE  HandedOut(y, lv, lw, raw, b)
<1> /\ i \in Slab!Indices /\ x.array[i] # <<>> /\ n \in Nat \ {0} /\ n <= SizeAt(i)
    /\ b = Slab!NextChunk(x, Slab!FirstZone(x, i)) /\ lw = [lv EXCEPT ![b] = n] /\ y = Slab!TakeChunk(x, i)
  BY DEF OfChunk
<1>1. PICK p : p = Slab!FirstZone(x, i)
  OBVIOUS
<1>2. PICK z : z = x.zone[p]
  OBVIOUS
<1>3. PICK w : w = ZoneTaken(z)
  OBVIOUS
<1>4. /\ b \in Addr /\ Between(p, ZonePages, PageOf(b)) /\ lv[b] = 0
      /\ w \in ZoneRec /\ ZoneOk(w, p, lw)
      /\ w.nfree = z.nfree - 1 /\ w.index = z.index /\ w.size = z.size
  <2>1. p \in Pg /\ g.kind[p] = "zone" /\ z.index = i /\ z.nfree > 0
    BY <1>1, <1>2, HeadZone
  <2>2. /\ z \in ZoneRec /\ ZoneOk(z, p, lv) /\ p + ZonePages <= Pages
        /\ z.size = SizeAt(i) /\ z.uindex \in Nat /\ z.nmax \in Nat /\ z.nfree \in Int /\ z.chunks \in Seq(Addr)
    BY <1>2, <2>1, ZoneIs
  <2>3. n <= z.size /\ lv \in [Addr -> Nat]
    BY <2>2 DEF SlabFits
  <2>4. w.nfree = z.nfree - 1 /\ w.index = z.index /\ w.size = z.size
    BY <1>3, <2>2 DEF ZoneRec, ZoneTaken, TakeFresh, TakeFreed
  <2>5. CASE Slab!NeverUsed(z)
    <3>1. b = p * PageSize + z.base + (z.uindex + 1) * z.size
      BY <1>1, <1>2, <2>5, Zenon DEF Slab!NextChunk
    <3>2. b = NextFresh(z, p)
      BY <3>1, Zenon DEF NextFresh, ChunkOfZone, ChunkAt, PageAt
    <3>3. w = TakeFresh(z)
      BY <1>3, <2>5 DEF ZoneTaken
    <3>4. /\ b \in Addr /\ Between(p, ZonePages, PageOf(b)) /\ lv[b] = 0
          /\ w \in ZoneRec /\ ZoneOk(w, p, lw)
      <4>1. lw = [lv EXCEPT ![b] = n] /\ n \in Nat \ {0} /\ n <= z.size
        BY <2>3
      <4>2. z \in ZoneRec /\ p \in Pg /\ p + ZonePages <= Pages /\ lv \in [Addr -> Nat] /\ ZoneOk(z, p, lv)
        BY <2>1, <2>2, <2>3
      <4> QED BY ONLY <2>5, <3>2, <3>3, <4>1, <4>2, FreshChunk
    <3> QED BY <2>4, <3>4
  <2>6. CASE ~Slab!NeverUsed(z)
    <3>1. z.chunks # <<>>
      <4>1. z.nfree = (z.nmax - 1 - z.uindex) + Len(z.chunks)
        BY <2>2 DEF ZoneOk
      <4>2. z.uindex + 1 = z.nmax
        BY <2>6 DEF Slab!NeverUsed
      <4>3. Len(z.chunks) # 0
        BY <2>1, <2>2, <4>1, <4>2
      <4> QED BY <4>3
    <3>2. b = Head(z.chunks)
      BY <1>1, <1>2, <2>6 DEF Slab!NextChunk
    <3>3. w = TakeFreed(z)
      BY <1>3, <2>6 DEF ZoneTaken
    <3>4. /\ b \in Addr /\ Between(p, ZonePages, PageOf(b)) /\ lv[b] = 0
          /\ w \in ZoneRec /\ ZoneOk(w, p, lw)
      <4>1. lw = [lv EXCEPT ![b] = n] /\ n \in Nat \ {0} /\ n <= z.size
        BY <2>3
      <4>2. z \in ZoneRec /\ p \in Pg /\ p + ZonePages <= Pages /\ lv \in [Addr -> Nat] /\ ZoneOk(z, p, lv)
        BY <2>1, <2>2, <2>3
      <4> QED BY ONLY <3>1, <3>2, <3>3, <4>1, <4>2, FreedChunk
    <3> QED BY <2>4, <3>4
  <2> QED BY <2>5, <2>6
<1>5. PICK A : A = IF w.nfree = 0 THEN Tail(x.array[i]) ELSE x.array[i]
  OBVIOUS
<1>6. PICK v : v = [x EXCEPT !.zone[p] = w, !.array[i] = IF w.nfree = 0 THEN Tail(@) ELSE @]
  OBVIOUS
<1>7. y = Slab!Count(v, z.size)
  BY <1>1, <1>2, <1>3, <1>6 DEF Slab!TakeChunk, ZoneTaken, TakeFresh, TakeFreed
<1>8. x \in SlabState
  BY DEF SlabFits
<1>9. /\ p \in Pg /\ g.kind[p] = "zone" /\ z.index = i /\ z.nfree > 0
      /\ p \in Elems(x.array[i]) /\ Tail(x.array[i]) \in Seq(Pg) /\ IsOnce(Tail(x.array[i]))
      /\ Elems(Tail(x.array[i])) = Elems(x.array[i]) \ {p}
  BY <1>1, <1>2, HeadZone
<1>10. /\ v.pages = x.pages /\ v.usage = x.usage /\ v.spare = x.spare /\ v.used = x.used /\ v.max = x.max
       /\ v.zone = [x.zone EXCEPT ![p] = w] /\ v.array = [x.array EXCEPT ![i] = A]
  BY <1>5, <1>6, <1>8, <1>9 DEF SlabState
<1>11. x.array \in [Slab!Indices -> Seq(Pg)] /\ x.zone \in [Pg -> ZoneRec]
  BY <1>8, StateTypes
<1>12. A \in Seq(Pg)
  BY <1>5, <1>9, <1>11
<1>13. v \in SlabState
  <2>1. v.zone \in [Pg -> ZoneRec]
    BY <1>4, <1>10, <1>11
  <2>2. v.array \in [Slab!Indices -> Seq(Pg)]
    BY <1>10, <1>11, <1>12
  <2>3. v = [pages |-> v.pages, usage |-> v.usage, zone |-> v.zone, array |-> v.array, spare |-> v.spare,
             used |-> v.used, max |-> v.max]
    BY <1>6, <1>8 DEF SlabState
  <2>4. /\ v.pages \in Seq(FreeRun) /\ v.usage \in [Pg -> [type : {"free", "small", "large"}, size : Nat]]
        /\ v.spare \in Seq(Pg) /\ v.used \in Int /\ v.max \in Int
    BY <1>8, <1>10, StateTypes
  <2> QED BY <2>1, <2>2, <2>3, <2>4 DEF SlabState
<1>14. z.size \in Nat \ {0} /\ z.nfree \in Int
  BY <1>2, <1>9, ZoneIs
<1>15. /\ y \in SlabState /\ y.pages = x.pages /\ y.usage = x.usage /\ y.zone = v.zone
       /\ y.array = v.array /\ y.spare = x.spare /\ y.used = x.used + z.size /\ y.used <= y.max
  <2>1. z.size \in Nat
    BY <1>14
  <2>2. /\ y \in SlabState /\ y.pages = v.pages /\ y.usage = v.usage /\ y.zone = v.zone
        /\ y.array = v.array /\ y.spare = v.spare /\ y.used = v.used + z.size /\ y.used <= y.max
    BY <1>7, <1>13, <2>1, CountAdds
  <2> QED BY <1>10, <2>2
<1>16. y.zone[p] = w /\ (\A r \in Pg : r # p => y.zone[r] = x.zone[r]) /\ y.array[i] = A
       /\ \A j \in Slab!Indices : j # i => y.array[j] = x.array[j]
  BY <1>9, <1>10, <1>11, <1>15
<1>17. ListsFit(y, g)
  <2>1. IsOnce(x.array[i]) /\ IsOnce(x.spare) /\ Len(x.spare) <= ReleaseThresh
    BY DEF SlabFits, ListsFit
  <2>2. IsOnce(A)
    BY <1>5, <1>9, <2>1
  <2>3. \A r \in Pg : r # p => (r \in Elems(A) <=> r \in Elems(x.array[i]))
    BY <1>5, <1>9
  <2>4. p \in Elems(A) <=> w.nfree > 0
    <3>1. w.nfree > 0 <=> w.nfree # 0
      BY <1>4, <1>9, <1>14
    <3> QED BY <1>5, <1>9, <3>1
  <2>5. OneList(x, y, g, g, p, i)
    BY <1>2, <1>4, <1>9, <1>15, <1>16, <2>1, <2>2, <2>3, <2>4 DEF OneList
  <2> QED BY <1>8, <1>9, <1>15, <2>5, ListsMove
<1>18. y.zone[p].size = x.zone[p].size /\ ZoneOk(y.zone[p], p, lw) /\ n \in Nat
  BY <1>2, <1>4, <1>16
<1>19. /\ SlabFits(y, lw, raw, g)
       /\ OthersCount(x, lv, raw, y, lw, raw, b)
  <2>1. OtherZones(x, y, p)
    BY <1>16 DEF OtherZones
  <2> QED BY <1>4, <1>9, <1>15, <1>17, <1>18, <2>1, ZoneChanged
<1>20. b \notin raw /\ CountOf(x, lv, raw, b) = 0
  BY <1>4, <1>9, ZoneCount
<1>21. CountOf(y, lw, raw, b) = z.size
  <2>1. lw[b] = n /\ n > 0
    BY <1>4 DEF SlabFits
  <2>2. CountOf(y, lw, raw, b) = IF lw[b] > 0 THEN y.zone[p].size ELSE 0
    BY ONLY <1>4, <1>9, <1>19, ZoneCount
  <2> QED BY <1>4, <1>16, <2>1, <2>2
<1>22. UsedFollows(x, lv, raw, y, lw, raw, b)
  <2>1. x.used \in Int
    BY <1>8, StateTypes
  <2> QED BY <1>14, <1>15, <1>20, <1>21, <2>1 DEF UsedFollows
<1>23. UsedFits(y, lw, raw)
  BY <1>4, <1>19, <1>22, UsedMoves
<1> QED BY <1>4, <1>19, <1>20, <1>23 DEF HandedOut

-----------------------------------------------------------------------------
(* rt_slab_free of a chunk, but for what becomes of a zone that is empty.    *)
PutBack(x, a, p) ==
    [x EXCEPT !.zone[p] = PutChunk(@, a),
              !.array[x.zone[p].index] = IF x.zone[p].nfree = 0 THEN <<p>> \o @ ELSE @,
              !.used = @ - x.zone[p].size]

LEMMA FreeChunkIs ==
    ASSUME NEW x, NEW a, NEW p, p = Slab!ZoneOf(x, a), NEW i, i = x.zone[p].index, NEW y, y = PutBack(x, a, p)
    PROVE  Slab!FreeChunk(x, a) = IF y.zone[p].nfree = y.zone[p].nmax /\ Len(y.array[i]) > 1
                                  THEN Slab!Retire(y, p) ELSE y
<1>1. y = [x EXCEPT !.zone[p] = [x.zone[p] EXCEPT !.chunks = <<a>> \o @, !.nfree = @ + 1],
                    !.array[i] = IF x.zone[p].nfree = 0 THEN <<p>> \o @ ELSE @,
                    !.used = @ - x.zone[p].size]
  BY DEF PutBack, PutChunk
<1> QED BY <1>1 DEF Slab!FreeChunk

LEMMA PutBackKeeps ==
    ASSUME NEW x, NEW lv, NEW raw, NEW g, SlabFits(x, lv, raw, g), UsedFits(x, lv, raw),
           NEW p \in Pg, g.kind[p] = "zone", NEW b \in Addr, lv[b] > 0, Between(p, ZonePages, PageOf(b)),
           NEW lw, lw = [lv EXCEPT ![b] = 0], NEW y, y = PutBack(x, b, p)
    PROVE  SlabFits(y, lw, raw, g) /\ UsedFits(y, lw, raw)
<1>1. PICK z : z = x.zone[p]
  OBVIOUS
<1>2. PICK i : i = z.index
  OBVIOUS
<1>3. PICK w : w = PutChunk(z, b)
  OBVIOUS
<1>4. /\ z \in ZoneRec /\ ZoneOk(z, p, lv) /\ p + ZonePages <= Pages
      /\ z.size \in Nat \ {0} /\ i \in Slab!Indices /\ z.nfree \in Int
  BY <1>1, <1>2, ZoneIs
<1>5. lv \in [Addr -> Nat] /\ x \in SlabState
  BY DEF SlabFits
<1>6. w \in ZoneRec /\ ZoneOk(w, p, lw)
  BY <1>3, <1>4, <1>5, ChunkBack
<1>7. w.nfree = z.nfree + 1 /\ w.index = i /\ w.size = z.size
  BY <1>2, <1>3, <1>4 DEF PutChunk, ZoneRec
<1>8. x.array \in [Slab!Indices -> Seq(Pg)] /\ x.zone \in [Pg -> ZoneRec] /\ x.used \in Int
  BY <1>5, StateTypes
<1>9. PICK A : A = IF z.nfree = 0 THEN PushFront(x.array[i], p) ELSE x.array[i]
  OBVIOUS
<1>10. /\ y.pages = x.pages /\ y.usage = x.usage /\ y.spare = x.spare /\ y.used = x.used - z.size
       /\ y.max = x.max /\ y.zone = [x.zone EXCEPT ![p] = w] /\ y.array = [x.array EXCEPT ![i] = A]
  <2>1. /\ y.pages = x.pages /\ y.usage = x.usage /\ y.spare = x.spare /\ y.used = x.used - z.size
        /\ y.max = x.max
    BY <1>1, <1>5 DEF PutBack, SlabState
  <2>2. y.zone = [x.zone EXCEPT ![p] = PutChunk(z, b)]
    <3>1. y.zone = [x.zone EXCEPT ![p] = PutChunk(x.zone[p], b)]
      BY <1>5 DEF PutBack, SlabState
    <3> QED BY ONLY <1>1, <3>1
  <2>3. y.array = [x.array EXCEPT ![i] = IF z.nfree = 0 THEN <<p>> \o @ ELSE @]
    BY <1>1, <1>2, <1>4, <1>5, <1>8 DEF PutBack, SlabState
  <2>4. y.array = [x.array EXCEPT ![i] = A]
    BY <1>4, <1>8, <1>9, <2>3 DEF PushFront
  <2> QED BY <1>3, <2>1, <2>2, <2>4
<1>11. 0 <= z.nfree
  <2>1. z.nfree = (z.nmax - 1 - z.uindex) + Len(z.chunks)
    BY <1>4 DEF ZoneOk
  <2>2. PICK l, m, u : l = Len(z.chunks) /\ m = z.nmax /\ u = z.uindex
    OBVIOUS
  <2>3. l \in Nat /\ m \in Nat /\ u \in Nat /\ u < m
    BY <1>1, <1>4, <2>2, ZoneIs
  <2> QED BY <2>1, <2>2, <2>3
<1>12. /\ IsOnce(x.array[i]) /\ (p \in Elems(x.array[i]) => z.nfree > 0)
       /\ (z.nfree > 0 => p \in Elems(x.array[i]))
       /\ IsOnce(x.spare) /\ Len(x.spare) <= ReleaseThresh
  BY <1>1, <1>2, <1>4 DEF SlabFits, ListsFit
<1>13. A \in Seq(Pg) /\ IsOnce(A) /\ Elems(A) = Elems(x.array[i]) \cup {p}
  <2>1. x.array[i] \in Seq(Pg)
    BY <1>4, <1>8
  <2>2. CASE z.nfree = 0
    <3>1. p \notin Elems(x.array[i])
      BY <1>12, <2>2
    <3>2. A = PushFront(x.array[i], p)
      BY <1>9, <2>2
    <3>3. IsOnce(x.array[i])
      BY <1>12
    <3> QED BY ONLY <2>1, <3>1, <3>2, <3>3, p \in Pg, PushFrontFacts
  <2>3. CASE z.nfree # 0
    <3>1. z.nfree > 0
      BY <1>4, <1>11, <2>3
    <3> QED BY <1>9, <1>12, <2>1, <2>3, <3>1
  <2> QED BY <2>2, <2>3
<1>14. y \in SlabState
  <2>1. y.zone \in [Pg -> ZoneRec]
    BY <1>6, <1>8, <1>10
  <2>2. y.array \in [Slab!Indices -> Seq(Pg)]
    BY <1>8, <1>10, <1>13
  <2>3. y = [pages |-> y.pages, usage |-> y.usage, zone |-> y.zone, array |-> y.array, spare |-> y.spare,
             used |-> y.used, max |-> y.max]
    BY <1>5 DEF SlabState, PutBack
  <2>4. /\ y.pages \in Seq(FreeRun) /\ y.usage \in [Pg -> [type : {"free", "small", "large"}, size : Nat]]
        /\ y.spare \in Seq(Pg) /\ y.max \in Int
    BY <1>5, <1>10, StateTypes
  <2>5. y.used \in Int
    BY <1>4, <1>8, <1>10
  <2> QED BY <2>1, <2>2, <2>3, <2>4, <2>5 DEF SlabState
<1>15. y.zone[p] = w /\ (\A r \in Pg : r # p => y.zone[r] = x.zone[r]) /\ y.array[i] = A
       /\ \A j \in Slab!Indices : j # i => y.array[j] = x.array[j]
  BY <1>4, <1>8, <1>10
<1>16. ListsFit(y, g)
  <2>1. \A r \in Pg : r # p => (r \in Elems(A) <=> r \in Elems(x.array[i]))
    BY <1>13
  <2>2. p \in Elems(A) /\ w.nfree > 0
    BY <1>4, <1>7, <1>11, <1>13
  <2>3. OneList(x, y, g, g, p, i)
    BY <1>1, <1>2, <1>7, <1>10, <1>12, <1>13, <1>15, <2>1, <2>2 DEF OneList
  <2> QED BY <1>4, <1>5, <1>14, <2>3, ListsMove
<1>17. SlabFits(y, lw, raw, g) /\ OthersCount(x, lv, raw, y, lw, raw, b)
  <2>1. OtherZones(x, y, p) /\ y.zone[p].size = x.zone[p].size /\ ZoneOk(y.zone[p], p, lw) /\ 0 \in Nat
    BY <1>1, <1>6, <1>7, <1>15 DEF OtherZones
  <2> QED BY <1>10, <1>14, <1>16, <2>1, ZoneChanged
<1>18. CountOf(x, lv, raw, b) = z.size
  BY <1>1, ZoneCount
<1>19. CountOf(y, lw, raw, b) = 0
  <2>1. lw[b] = 0
    BY <1>5
  <2> QED BY <2>1 DEF CountOf
<1>20. UsedFollows(x, lv, raw, y, lw, raw, b)
  <2>1. x.used <= x.max /\ x.max \in Int
    BY <1>5, StateTypes DEF UsedFits
  <2>2. PICK u, s, m : u = x.used /\ s = z.size /\ m = x.max
    OBVIOUS
  <2>3. u \in Int /\ s \in Nat /\ m \in Int /\ u <= m /\ y.used = u - s /\ y.max = m
    BY <1>4, <1>8, <1>10, <2>1, <2>2
  <2>4. u - s = u + (0 - s) /\ u - s <= m
    BY ONLY <2>3
  <2>5. y.used = u + (0 - s) /\ y.used <= y.max
    BY <2>3, <2>4
  <2> QED BY <1>18, <1>19, <2>2, <2>5 DEF UsedFollows
<1> QED BY <1>17, <1>20, UsedMoves

LEMMA FromZeroTo ==
    ASSUME NEW u \in Nat
    PROVE  /\ IsFiniteSet(0..u) /\ Cardinality(0..u) = u + 1
           /\ IsFiniteSet(1..(u + 1)) /\ Cardinality(1..(u + 1)) = u + 1
<1>1. PICK a, b, c : a = 0 /\ b = 1 /\ c = u + 1
  OBVIOUS
<1>2. a \in Int /\ b \in Int /\ c \in Int /\ u \in Int
  BY <1>1
<1>3. IsFiniteSet(a..u) /\ Cardinality(a..u) = IF a > u THEN 0 ELSE u - a + 1
  BY ONLY <1>2, FS_Interval
<1>4. IsFiniteSet(b..c) /\ Cardinality(b..c) = IF b > c THEN 0 ELSE c - b + 1
  BY ONLY <1>2, FS_Interval
<1> QED BY <1>1, <1>3, <1>4

(* A zone whose chunks are all free has no block in anybody's hands: its     *)
(* list of freed chunks has as many as were ever used, none of them twice.   *)
LEMMA AllChunksFree ==
    ASSUME NEW z \in ZoneRec, NEW p \in Pg, p + ZonePages <= Pages, NEW lv, ZoneOk(z, p, lv), z.nfree = z.nmax,
           NEW a \in Addr, Between(p, ZonePages, PageOf(a))
    PROVE  ~(lv[a] > 0)
<1> SUFFICES ASSUME lv[a] > 0 PROVE FALSE
  OBVIOUS
<1>1. /\ ZoneKind(z) /\ z.nmax \in Nat /\ z.uindex \in 0..(z.nmax - 1) /\ z.chunks \in Seq(Addr)
  BY ZoneKindFacts DEF ZoneOk, ZoneRec
<1>2. PICK u : u = z.uindex
  OBVIOUS
<1>3. u \in Nat /\ Len(z.chunks) = u + 1
  <2>1. z.nfree = (z.nmax - 1 - z.uindex) + Len(z.chunks)
    BY DEF ZoneOk
  <2> QED BY <1>1, <1>2, <2>1
<1>4. PICK i \in 0..u : a = ChunkOfZone(z, p, i)
  BY <1>2 DEF ZoneOk
<1>5. DOMAIN z.chunks = 1..(u + 1)
  BY <1>1, <1>3
<1>6. PICK T : T = (0..u) \ {i}
  OBVIOUS
<1>7. ASSUME NEW k \in 1..(u + 1) PROVE \E j \in T : z.chunks[k] = ChunkOfZone(z, p, j)
  <2>1. z.chunks[k] \in Elems(z.chunks)
    BY <1>5 DEF Elems
  <2>2. lv[z.chunks[k]] = 0 /\ \E j \in 0..u : z.chunks[k] = ChunkOfZone(z, p, j)
    BY <1>2, <2>1 DEF ZoneOk
  <2>3. PICK j \in 0..u : z.chunks[k] = ChunkOfZone(z, p, j)
    BY <2>2
  <2>4. j # i
    BY <1>4, <2>2, <2>3
  <2> QED BY <1>6, <2>3, <2>4
<1>8. PICK f : f = [k \in 1..(u + 1) |-> CHOOSE j \in T : z.chunks[k] = ChunkOfZone(z, p, j)]
  OBVIOUS
<1>9. f \in [1..(u + 1) -> T] /\ \A k \in 1..(u + 1) : z.chunks[k] = ChunkOfZone(z, p, f[k])
  BY <1>7, <1>8
<1>10. \A j, k \in 1..(u + 1) : f[j] = f[k] => j = k
  <2>1. IsOnce(z.chunks)
    BY DEF ZoneOk
  <2> QED BY <1>5, <1>9, <2>1 DEF IsOnce
<1>11. /\ IsFiniteSet(0..u) /\ Cardinality(0..u) = u + 1
       /\ IsFiniteSet(1..(u + 1)) /\ Cardinality(1..(u + 1)) = u + 1
  BY <1>3, FromZeroTo
<1>12. IsFiniteSet(T) /\ Cardinality(T) = u
  <2>1. PICK I : I = 0..u
    OBVIOUS
  <2>2. i \in I /\ IsFiniteSet(I) /\ Cardinality(I) = u + 1
    BY <1>4, <1>11, <2>1
  <2>3. IsFiniteSet(I \ {i}) /\ Cardinality(I \ {i}) = Cardinality(I) - 1
    BY ONLY <2>2, FS_RemoveElement
  <2> QED BY <1>3, <1>6, <2>1, <2>2, <2>3
<1>13. PICK K : K = 1..(u + 1)
  OBVIOUS
<1>14. IsFiniteSet(K) /\ f \in [K -> T] /\ Cardinality(T) < Cardinality(K)
  BY <1>3, <1>9, <1>11, <1>12, <1>13
<1>15. \E j, k \in K : j # k /\ f[j] = f[k]
  BY ONLY <1>12, <1>14, FS_PigeonHole
<1> QED BY <1>10, <1>13, <1>15

-----------------------------------------------------------------------------
(* A zone that retires.                                                      *)
LEMMA NoZoneIs == Slab!NoZone \in ZoneRec
<1>1. <<>> \in Seq(Addr)
  OBVIOUS
<1> QED BY <1>1 DEF Slab!NoZone, ZoneRec

UsageOf == [Pg -> [type : {"free", "small", "large"}, size : Nat]]

(* Nothing but zones, lists, spare zones and pages: no block changes what it *)
(* counts, and used stays.                                                   *)
LEMMA UsedStays ==
    ASSUME NEW x, NEW lv, NEW raw, NEW g, SlabFits(x, lv, raw, g), UsedFits(x, lv, raw),
           NEW y, NEW h, SlabFits(y, lv, raw, h), NEW p \in Pg, SameBut(x, y, lv, lv, raw, raw, g, h, p),
           \A a \in Addr : g.own[PageOf(a)] = p => ~(lv[a] > 0), y.used = x.used, y.max = x.max
    PROVE  UsedFits(y, lv, raw)
<1>1. ASSUME NEW a \in Addr PROVE CountOf(y, lv, raw, a) = CountOf(x, lv, raw, a)
  <2>1. SameBlock(x, y, lv, lv, raw, raw, g, h, p, a)
    BY DEF SameBlock
  <2> QED BY <2>1, FrameCount
<1>2. PICK b \in Addr : TRUE
  BY AddrFacts
<1>3. OthersCount(x, lv, raw, y, lv, raw, b)
  BY <1>1 DEF OthersCount
<1>4. UsedFollows(x, lv, raw, y, lv, raw, b)
  <2>1. PICK c : c = CountOf(x, lv, raw, b)
    OBVIOUS
  <2>2. c \in Int
    <3>1. CASE lv[b] > 0 /\ b \notin raw
      BY <2>1, <3>1, CountIs
    <3>2. CASE ~(lv[b] > 0 /\ b \notin raw)
      BY <2>1, <3>2 DEF CountOf
    <3> QED BY <3>1, <3>2
  <2>3. x.used \in Int /\ x.max \in Int /\ x.used <= x.max
    BY StateTypes DEF SlabFits, UsedFits
  <2>4. CountOf(y, lv, raw, b) = c
    BY <1>1, <2>1
  <2>5. y.used = x.used + (c - c) /\ y.used <= y.max
    BY <2>2, <2>3
  <2> QED BY <2>1, <2>4, <2>5 DEF UsedFollows
<1> QED BY <1>3, <1>4, UsedMoves

(* What the zone's place looks like afterwards.                              *)
Retired(x, y, p, i) ==
    /\ y \in SlabState
    /\ y.zone = [x.zone EXCEPT ![p] = Slab!NoZone]
    /\ y.array = [x.array EXCEPT ![i] = Unlink(x.array[i], p)]
    /\ y.used = x.used /\ y.max = x.max

LEMMA RetiredLists ==
    ASSUME NEW x, NEW lv, NEW raw, NEW g, SlabFits(x, lv, raw, g), NEW p \in Pg, g.kind[p] = "zone",
           NEW i, i = x.zone[p].index, NEW y, Retired(x, y, p, i), NEW h, h.kind[p] # "zone",
           \A r \in Pg : r # p => h.kind[r] = g.kind[r], IsOnce(y.spare), Len(y.spare) <= ReleaseThresh
    PROVE  ListsFit(y, h) /\ y.zone[p] = Slab!NoZone /\ \A r \in Pg : r # p => y.zone[r] = x.zone[r]
<1>1. x \in SlabState /\ x.array \in [Slab!Indices -> Seq(Pg)] /\ x.zone \in [Pg -> ZoneRec]
  BY StateTypes DEF SlabFits
<1>2. i \in Slab!Indices
  BY ZoneIs
<1>3. PICK A : A = Unlink(x.array[i], p)
  OBVIOUS
<1>4. x.array[i] \in Seq(Pg) /\ IsOnce(x.array[i])
  BY <1>1, <1>2 DEF SlabFits, ListsFit
<1>5. IsOnce(A) /\ Elems(A) = Elems(x.array[i]) \ {p}
  BY <1>3, <1>4, UnlinkFacts
<1>6. y.zone[p] = Slab!NoZone /\ (\A r \in Pg : r # p => y.zone[r] = x.zone[r]) /\ y.array[i] = A
      /\ \A j \in Slab!Indices : j # i => y.array[j] = x.array[j]
  BY <1>1, <1>2, <1>3 DEF Retired
<1>7. OneList(x, y, g, h, p, i)
  BY <1>5, <1>6 DEF OneList
<1> QED BY <1>1, <1>2, <1>6, <1>7, ListsMove DEF Retired

(* It is kept for any size. *)
LEMMA RetireKept ==
    ASSUME NEW x, NEW lv, NEW raw, NEW g, SlabFits(x, lv, raw, g), UsedFits(x, lv, raw),
           NEW p \in Pg, g.kind[p] = "zone", x.zone[p].nfree = x.zone[p].nmax,
           NEW i, i = x.zone[p].index, NEW y, Retired(x, y, p, i),
           y.pages = x.pages, y.usage = x.usage, y.spare = PushFront(x.spare, p), Len(y.spare) <= ReleaseThresh,
           NEW h, h = Becomes(g, p, "spare")
    PROVE  SlabFits(y, lv, raw, h) /\ UsedFits(y, lv, raw)
<1>1. /\ x \in SlabState /\ g \in Owners /\ lv \in [Addr -> Nat] /\ y \in SlabState
      /\ Ordered(x.pages) /\ PagesParted(x.pages, g) /\ x.spare \in Seq(Pg)
  BY StateTypes DEF SlabFits, Retired
<1>2. /\ h \in Owners /\ PagesParted(x.pages, h)
      /\ h.kind[p] = "spare" /\ (\A q \in Pg : q # p => h.kind[q] = g.kind[q])
      /\ h.len = g.len /\ h.own = g.own
  <2>1. PICK k : k = "spare"
    OBVIOUS
  <2>2. k \in Kinds /\ k # "none" /\ h = Becomes(g, p, k) /\ g.kind[p] # "none"
    BY <2>1 DEF Kinds
  <2>3. /\ h \in Owners /\ PagesParted(x.pages, h)
        /\ h.kind[p] = k /\ (\A q \in Pg : q # p => h.kind[q] = g.kind[q])
        /\ h.len = g.len /\ h.own = g.own
    BY <1>1, <2>2, BecomesParts
  <2> QED BY <2>1, <2>3
<1>3. p \notin Elems(x.spare) /\ IsOnce(x.spare)
  BY DEF SlabFits, UsesFit, ListsFit
<1>4. IsOnce(y.spare) /\ Elems(y.spare) = Elems(x.spare) \cup {p}
  <2>1. PICK t : t = x.spare
    OBVIOUS
  <2>2. t \in Seq(Pg) /\ IsOnce(t) /\ p \notin Elems(t)
    BY <1>1, <1>3, <2>1
  <2>3. IsOnce(PushFront(t, p)) /\ Elems(PushFront(t, p)) = Elems(t) \cup {p}
    BY ONLY <2>2, p \in Pg, PushFrontFacts
  <2> QED BY <2>1, <2>3
<1>5. ListsFit(y, h) /\ y.zone[p] = Slab!NoZone /\ \A r \in Pg : r # p => y.zone[r] = x.zone[r]
  <2>1. h.kind[p] # "zone" /\ \A r \in Pg : r # p => h.kind[r] = g.kind[r]
    BY <1>2
  <2> QED BY <1>4, <2>1, RetiredLists
<1>6. SameBut(x, y, lv, lv, raw, raw, g, h, p)
  BY <1>2, <1>4, <1>5 DEF SameBut
<1>7. \A a \in Addr : g.own[PageOf(a)] = p => ~(lv[a] > 0)
  <2>1. ASSUME NEW a \in Addr, g.own[PageOf(a)] = p PROVE ~(lv[a] > 0)
    <3>1. PICK z : z = x.zone[p]
      OBVIOUS
    <3>2. z \in ZoneRec /\ ZoneOk(z, p, lv) /\ p + ZonePages <= Pages /\ z.nfree = z.nmax
      BY <3>1, ZoneIs
    <3>3. Between(p, ZonePages, PageOf(a))
      BY <2>1, OwnedPages, AddrFacts
    <3> QED BY <3>2, <3>3, AllChunksFree
  <2> QED BY <2>1
<1>8. RunFit(y, lv, raw, h, p)
  <2>1. /\ g.len[p] = ZonePages
        /\ \A q \in Pg : Between(p, ZonePages, q) => x.usage[q].type = "small" /\ x.usage[q].size = q - p
        /\ PageAt(p) \notin raw
    BY DEF SlabFits, UsesFit
  <2>2. \A a \in Addr : h.own[PageOf(a)] = p => ~(lv[a] > 0)
    BY <1>2, <1>7
  <2> QED BY <1>2, <1>4, <1>5, <2>1, <2>2 DEF RunFit
<1>9. LeftEmpty(lv, g, h, p) /\ RawAtPages(raw)
  BY <1>2 DEF LeftEmpty, RawAtPages, SlabFits, BlocksFit
<1>10. SlabFits(y, lv, raw, h)
  <2>1. g.kind[p] # "usage"
    OBVIOUS
  <2> QED BY <1>1, <1>2, <1>5, <1>6, <1>8, <1>9, <2>1, FrameFits
<1>11. UsedFits(y, lv, raw)
  BY <1>6, <1>7, <1>10, UsedStays DEF Retired
<1> QED BY <1>10, <1>11

(* Or its pages go back.                                                     *)
LEMMA RetireGiven ==
    ASSUME NEW x, NEW lv, NEW raw, NEW g, SlabFits(x, lv, raw, g), UsedFits(x, lv, raw),
           NEW p \in Pg, g.kind[p] = "zone", x.zone[p].nfree = x.zone[p].nmax,
           NEW i, i = x.zone[p].index, NEW y, Retired(x, y, p, i), y.spare = x.spare,
           y.pages = Slab!PageFree(x.pages, p, ZonePages),
           \A q \in Pg : ~Between(p, ZonePages, q) => y.usage[q] = x.usage[q],
           NEW h, h = Drop(g, p)
    PROVE  SlabFits(y, lv, raw, h) /\ UsedFits(y, lv, raw)
<1>1. /\ x \in SlabState /\ g \in Owners /\ lv \in [Addr -> Nat] /\ y \in SlabState
      /\ Ordered(x.pages) /\ PagesParted(x.pages, g) /\ x.spare \in Seq(Pg)
  BY StateTypes DEF SlabFits, Retired
<1>2. PICK M : M = y.pages
  OBVIOUS
<1>3. /\ p + ZonePages <= Pages /\ g.len[p] = ZonePages
      /\ \A q \in Pg : g.own[q] = p <=> Between(p, ZonePages, q)
  BY OwnedPages
<1>4. ZonePages \in 1..Pages /\ p \in 0..Pages /\ p \in Nat
  BY <1>3, SlabNats, PgFacts
<1>5. \A q \in p..(p + ZonePages - 1) : ~IsFree(x.pages, q)
  <2>1. ASSUME NEW q \in p..(p + ZonePages - 1) PROVE ~IsFree(x.pages, q)
    <3>1. q \in Pg /\ Between(p, ZonePages, q)
      BY <1>3, <1>4, SlabNats DEF Pg, Between
    <3>2. g.own[q] # -1
      BY <1>3, <3>1, PgFacts
    <3> QED BY <1>1, <3>1, <3>2 DEF PagesParted
  <2> QED BY <2>1
<1>6. Ordered(M) /\ More(M, x.pages, p, ZonePages)
  <2>1. PICK n : n = ZonePages
    OBVIOUS
  <2>2. /\ n \in 1..Pages /\ p + n <= Pages /\ M = Slab!PageFree(x.pages, p, n)
        /\ \A q \in p..(p + n - 1) : ~IsFree(x.pages, q)
    BY <1>2, <1>3, <1>4, <1>5, <2>1
  <2>3. Ordered(M) /\ \A q \in Int : IsFree(M, q) <=> IsFree(x.pages, q) \/ Between(p, n, q)
    BY ONLY <1>1, <1>4, <2>2, PageFreeKeeps
  <2> QED BY <2>1, <2>3 DEF More
<1>7. x.zone \in [Pg -> ZoneRec]
  BY <1>1, StateTypes
<1>8. y.zone[p] = Slab!NoZone /\ \A r \in Pg : r # p => y.zone[r] = x.zone[r]
  BY <1>7 DEF Retired
<1>9. Outside(x, y, lv, lv, raw, raw, p, ZonePages)
  BY <1>8 DEF Outside
<1>10. /\ h \in Owners /\ PagesParted(M, h) /\ h.kind[p] = "none"
       /\ SameBut(x, y, lv, lv, raw, raw, g, h, p)
       /\ \A q \in Pg : q # p => h.kind[q] = g.kind[q]
       /\ \A q \in Pg : (g.own[q] = p <=> Between(p, ZonePages, q)) /\ h.own[q] # p
  <2>1. PICK n : n = ZonePages
    OBVIOUS
  <2>2. n = g.len[p] /\ More(M, x.pages, p, n) /\ Outside(x, y, lv, lv, raw, raw, p, n) /\ g.kind[p] # "none"
    BY <1>3, <1>6, <1>9, <2>1
  <2>3. PagesGiven(x, y, lv, lv, raw, raw, M, g, h, p, n)
    BY <2>2, DropFrame
  <2> QED BY <2>1, <2>3 DEF PagesGiven
<1>11. ListsFit(y, h)
  <2>1. h.kind[p] # "zone" /\ \A r \in Pg : r # p => h.kind[r] = g.kind[r]
    BY <1>10
  <2>2. IsOnce(y.spare) /\ Len(y.spare) <= ReleaseThresh
    BY DEF SlabFits, ListsFit
  <2> QED BY <2>1, <2>2, RetiredLists
<1>12. \A a \in Addr : g.own[PageOf(a)] = p => ~(lv[a] > 0)
  <2>1. ASSUME NEW a \in Addr, g.own[PageOf(a)] = p PROVE ~(lv[a] > 0)
    <3>1. PICK z : z = x.zone[p]
      OBVIOUS
    <3>2. z \in ZoneRec /\ ZoneOk(z, p, lv) /\ p + ZonePages <= Pages /\ z.nfree = z.nmax
      BY <3>1, ZoneIs
    <3>3. Between(p, ZonePages, PageOf(a))
      BY <1>3, <2>1, AddrFacts
    <3> QED BY <3>2, <3>3, AllChunksFree
  <2> QED BY <2>1
<1>13. RunFit(y, lv, raw, h, p)
  <2>1. PageAt(p) \notin raw /\ p \notin Elems(x.spare)
    BY DEF SlabFits, UsesFit
  <2>2. \A a \in Addr : h.own[PageOf(a)] # p
    BY <1>10, AddrFacts
  <2> QED BY <1>8, <1>10, <2>1, <2>2 DEF RunFit
<1>14. LeftEmpty(lv, g, h, p) /\ RawAtPages(raw)
  <2>1. \A a \in Addr : lv[a] \in Nat
    BY <1>1
  <2> QED BY <1>12, <2>1 DEF LeftEmpty, RawAtPages, SlabFits, BlocksFit
<1>15. SlabFits(y, lv, raw, h)
  <2>1. g.kind[p] # "usage"
    OBVIOUS
  <2> QED BY <1>1, <1>2, <1>6, <1>10, <1>11, <1>13, <1>14, <2>1, FrameFits
<1>16. UsedFits(y, lv, raw)
  BY <1>10, <1>12, <1>15, UsedStays DEF Retired
<1> QED BY <1>15, <1>16

-----------------------------------------------------------------------------
(* rt_slab_free.                                                             *)
LEMMA RetireKeeps ==
    ASSUME NEW x, NEW lv, NEW raw, NEW g, SlabFits(x, lv, raw, g), UsedFits(x, lv, raw),
           NEW p \in Pg, g.kind[p] = "zone", x.zone[p].nfree = x.zone[p].nmax, NEW y, y = Slab!Retire(x, p)
    PROVE  UsedFits(y, lv, raw) /\ \E h : SlabFits(y, lv, raw, h)
<1>1. PICK i : i = x.zone[p].index
  OBVIOUS
<1>2. PICK v : v = [x EXCEPT !.array[i] = Slab!Unlink(@, p), !.zone[p] = Slab!NoZone, !.spare = <<p>> \o @]
  OBVIOUS
<1>3. /\ x \in SlabState /\ x.array \in [Slab!Indices -> Seq(Pg)] /\ x.zone \in [Pg -> ZoneRec]
      /\ x.spare \in Seq(Pg) /\ i \in Slab!Indices
  BY <1>1, ZoneIs, StateTypes DEF SlabFits
<1>4. PICK A : A = Unlink(x.array[i], p)
  OBVIOUS
<1>5. A = Slab!Unlink(x.array[i], p) /\ A \in Seq(Pg)
  <2>1. A = Slab!Unlink(x.array[i], p)
    BY <1>4 DEF Unlink, Slab!Unlink, Elems, Slab!Elems
  <2>2. x.array[i] \in Seq(Pg)
    BY <1>3
  <2> QED BY <1>4, <2>1, <2>2, UnlinkFacts
<1>6. /\ v.pages = x.pages /\ v.usage = x.usage /\ v.used = x.used /\ v.max = x.max
      /\ v.array = [x.array EXCEPT ![i] = A] /\ v.zone = [x.zone EXCEPT ![p] = Slab!NoZone]
      /\ v.spare = PushFront(x.spare, p)
  BY <1>2, <1>3, <1>5 DEF SlabState, PushFront
<1>7. v.spare \in Seq(Pg) /\ v.spare = <<p>> \o x.spare
  BY <1>3, <1>6 DEF PushFront
<1>8. v.zone \in [Pg -> ZoneRec] /\ v.array \in [Slab!Indices -> Seq(Pg)]
  BY <1>3, <1>5, <1>6, NoZoneIs
<1>9. /\ v.pages \in Seq(FreeRun) /\ v.usage \in UsageOf /\ v.used \in Int /\ v.max \in Int
  BY <1>3, <1>6, StateTypes DEF UsageOf
<1>10. v = [pages |-> v.pages, usage |-> v.usage, zone |-> v.zone, array |-> v.array, spare |-> v.spare,
            used |-> v.used, max |-> v.max]
  BY <1>2, <1>3 DEF SlabState
<1>11. v \in SlabState
  BY <1>7, <1>8, <1>9, <1>10 DEF SlabState, UsageOf
<1>12. CASE Len(v.spare) <= ReleaseThresh
  <2>1. y = v
    BY <1>1, <1>2, <1>12 DEF Slab!Retire
  <2>2. Retired(x, y, p, i)
    BY <1>4, <1>6, <1>11, <2>1 DEF Retired
  <2>3. PICK h : h = Becomes(g, p, "spare")
    OBVIOUS
  <2>4. y.pages = x.pages /\ y.usage = x.usage /\ y.spare = PushFront(x.spare, p) /\ Len(y.spare) <= ReleaseThresh
    BY <1>6, <1>12, <2>1
  <2>5. SlabFits(y, lv, raw, h) /\ UsedFits(y, lv, raw)
    BY <1>1, <2>2, <2>3, <2>4, RetireKept
  <2> QED BY <2>5
<1>13. CASE ~(Len(v.spare) <= ReleaseThresh)
  <2>1. y = [v EXCEPT !.spare = Tail(@),
                      !.usage = [q \in Slab!Page |-> IF q \in p..(p + ZonePages - 1) THEN Slab!Unused ELSE @[q]],
                      !.pages = Slab!PageFree(@, p, ZonePages)]
    BY <1>1, <1>2, <1>13 DEF Slab!Retire
  <2>2. PICK U : U = [q \in Pg |-> IF q \in p..(p + ZonePages - 1) THEN Slab!Unused ELSE x.usage[q]]
    OBVIOUS
  <2>3. Tail(v.spare) = x.spare
    BY <1>3, <1>7
  <2>4. /\ y.pages = Slab!PageFree(x.pages, p, ZonePages) /\ y.usage = U /\ y.spare = x.spare
        /\ y.zone = v.zone /\ y.array = v.array /\ y.used = v.used /\ y.max = v.max
    BY <1>6, <1>11, <2>1, <2>2, <2>3, PgFacts DEF SlabState
  <2>5. U \in UsageOf /\ \A q \in Pg : ~Between(p, ZonePages, q) => U[q] = x.usage[q]
    <3>1. x.usage \in UsageOf /\ Slab!Unused \in [type : {"free", "small", "large"}, size : Nat]
      BY <1>6, <1>9 DEF Slab!Unused
    <3>2. \A q \in Pg : ~Between(p, ZonePages, q) => q \notin p..(p + ZonePages - 1)
      BY PgFacts, SlabNats DEF Between
    <3> QED BY <2>2, <3>1, <3>2 DEF UsageOf
  <2>6. y.pages \in Seq(FreeRun) /\ Ordered(y.pages)
    <3>1. PICK n, M : n = ZonePages /\ M = y.pages
      OBVIOUS
    <3>2. /\ p + n <= Pages /\ Ordered(x.pages) /\ PagesParted(x.pages, g)
          /\ \A q \in Pg : g.own[q] = p <=> Between(p, n, q)
      BY <3>1, OwnedPages DEF SlabFits
    <3>3. n \in 1..Pages /\ p \in 0..Pages
      BY <3>1, <3>2, SlabNats, PgFacts
    <3>4. ASSUME NEW q \in p..(p + n - 1) PROVE ~IsFree(x.pages, q)
      <4>1. q \in Pg /\ Between(p, n, q)
        BY <3>2, <3>3, <3>4, SlabNats, PgFacts DEF Pg, Between
      <4>2. g.own[q] # -1
        BY <3>2, <4>1, PgFacts
      <4> QED BY <3>2, <4>1, <4>2 DEF PagesParted
    <3>5. M = Slab!PageFree(x.pages, p, n) /\ \A q \in p..(p + n - 1) : ~IsFree(x.pages, q)
      BY <2>4, <3>1, <3>4
    <3>6. Ordered(M)
      BY ONLY <3>2, <3>3, <3>5, PageFreeKeeps
    <3> QED BY <3>1, <3>6 DEF Ordered
  <2>7. y = [pages |-> y.pages, usage |-> y.usage, zone |-> y.zone, array |-> y.array, spare |-> y.spare,
             used |-> y.used, max |-> y.max]
    BY <1>11, <2>1 DEF SlabState
  <2>8. y \in SlabState
    BY <1>3, <1>8, <1>9, <2>4, <2>5, <2>6, <2>7 DEF SlabState, UsageOf
  <2>9. Retired(x, y, p, i)
    BY <1>4, <1>6, <2>4, <2>8 DEF Retired
  <2>10. PICK h : h = Drop(g, p)
    OBVIOUS
  <2>11. \A q \in Pg : ~Between(p, ZonePages, q) => y.usage[q] = x.usage[q]
    BY <2>4, <2>5
  <2>12. y.spare = x.spare /\ y.pages = Slab!PageFree(x.pages, p, ZonePages)
    BY <2>4
  <2>13. SlabFits(y, lv, raw, h) /\ UsedFits(y, lv, raw)
    BY <1>1, <2>9, <2>10, <2>11, <2>12, RetireGiven
  <2> QED BY <2>13
<1> QED BY <1>12, <1>13

LEMMA FreeLargeKeeps ==
    ASSUME NEW x, NEW lv, NEW raw, NEW g, SlabFits(x, lv, raw, g), UsedFits(x, lv, raw),
           NEW p \in Pg, g.kind[p] = "large", NEW b, b = PageAt(p),
           NEW lw, lw = [lv EXCEPT ![b] = 0], NEW y, y = Slab!FreeLarge(x, p)
    PROVE  UsedFits(y, lw, raw) /\ \E h : SlabFits(y, lw, raw, h)
<1>1. PICK t : t = g.len[p]
  OBVIOUS
<1>2. /\ x.usage[p].size = t /\ x.usage[p].type = "large" /\ t = Slab!LargePages(lv[b]) /\ lv[b] > 0
  BY <1>1 DEF SlabFits, UsesFit
<1>3. x \in SlabState /\ x.usage \in UsageOf /\ lv \in [Addr -> Nat] /\ b \in Addr /\ x.used \in Int /\ x.max \in Int
  BY StateTypes, AddrFacts DEF SlabFits, UsageOf
<1>4. PICK c : c = t * PageSize
  OBVIOUS
<1>5. PICK n : n = lv[b]
  OBVIOUS
<1>6. n \in Nat \ {0} /\ t = Slab!LargePages(n)
  BY <1>2, <1>3, <1>5
<1>7. t \in Nat \ {0} /\ Slab!UpTo(n, PageSize) = PageAt(t)
  BY ONLY <1>6, LargeFacts
<1>8. PageAt(t) = c /\ c \in Nat
  <2>1. PageAt(t) \in Nat
    BY ONLY <1>7, PageAtFacts
  <2> QED BY <1>4, <2>1 DEF PageAt
<1>9. /\ y.pages = Slab!PageFree(x.pages, p, t) /\ y.usage = [x.usage EXCEPT ![p].size = 0] /\ y.used = x.used - c
      /\ y.zone = x.zone /\ y.array = x.array /\ y.spare = x.spare /\ y.max = x.max
  BY <1>2, <1>3, <1>4 DEF Slab!FreeLarge, SlabState
<1>10. y.usage \in UsageOf /\ \A q \in Pg : q # p => y.usage[q] = x.usage[q]
  <2>1. [x.usage[p] EXCEPT !.size = 0] \in [type : {"free", "small", "large"}, size : Nat]
    BY <1>3 DEF UsageOf
  <2> QED BY <1>3, <1>9, <2>1 DEF UsageOf
<1>11. Ordered(y.pages)
  <2>1. PICK M : M = y.pages
    OBVIOUS
  <2>2. /\ p + t <= Pages /\ Ordered(x.pages) /\ PagesParted(x.pages, g)
        /\ \A q \in Pg : g.own[q] = p <=> Between(p, t, q)
    BY <1>1 DEF SlabFits, PagesParted
  <2>3. t \in 1..Pages /\ p \in 0..Pages
    BY <1>7, <2>2, SlabNats, PgFacts
  <2>4. ASSUME NEW q \in p..(p + t - 1) PROVE ~IsFree(x.pages, q)
    <3>1. q \in Pg /\ Between(p, t, q)
      BY <2>2, <2>3, <2>4, SlabNats, PgFacts DEF Pg, Between
    <3>2. g.own[q] # -1
      BY <2>2, <3>1, PgFacts
    <3> QED BY <2>2, <3>1, <3>2 DEF PagesParted
  <2>5. M = Slab!PageFree(x.pages, p, t) /\ \A q \in p..(p + t - 1) : ~IsFree(x.pages, q)
    BY <1>9, <2>1, <2>4
  <2>6. Ordered(M)
    BY ONLY <2>2, <2>3, <2>5, PageFreeKeeps
  <2> QED BY <2>1, <2>6
<1>12. y \in SlabState
  <2>1. y = [pages |-> y.pages, usage |-> y.usage, zone |-> y.zone, array |-> y.array, spare |-> y.spare,
             used |-> y.used, max |-> y.max]
    BY <1>3 DEF SlabState, Slab!FreeLarge
  <2>2. y.used \in Int /\ y.max \in Int /\ y.pages \in Seq(FreeRun)
    BY <1>3, <1>8, <1>9, <1>11 DEF Ordered
  <2>3. y.zone \in [Pg -> ZoneRec] /\ y.array \in [Slab!Indices -> Seq(Pg)] /\ y.spare \in Seq(Pg)
    BY <1>3, <1>9, StateTypes
  <2> QED BY <1>10, <2>1, <2>2, <2>3 DEF SlabState, UsageOf
<1>13. b \notin raw
  BY DEF SlabFits, UsesFit
<1>14. PICK h : h = Drop(g, p)
  OBVIOUS
<1>15. PICK rw : rw = RawWithout(raw, b)
  OBVIOUS
<1>16. rw = raw
  BY <1>13, <1>15 DEF RawWithout
<1>17. SlabFits(y, lw, rw, h) /\ OthersCount(x, lv, raw, y, lw, rw, b) /\ lw[b] = 0
  <2>1. g.kind[p] \in {"large", "raw"} /\ OtherUsage(x, y, p)
    BY <1>10 DEF OtherUsage
  <2>2. y.pages = Slab!PageFree(x.pages, p, g.len[p]) /\ y.zone = x.zone /\ y.array = x.array /\ y.spare = x.spare
    BY <1>1, <1>9
  <2>3. PagesBack(x, y, lv, lw, raw, rw, g, h, p, b)
    BY <1>12, <1>14, <1>15, <2>1, <2>2 DEF PagesBack
  <2>4. SlabFits(x, lv, raw, g)
    OBVIOUS
  <2> QED BY ONLY <2>3, <2>4, RunGiven
<1>18. CountOf(y, lw, raw, b) = 0
  BY <1>17 DEF CountOf
<1>19. CountOf(x, lv, raw, b) = c
  <2>1. PageOf(b) = p
    BY PgFacts, PageAtFacts
  <2> QED BY <1>2, <1>5, <1>7, <1>8, <1>13, <2>1 DEF CountOf, CountedAt
<1>20. UsedFollows(x, lv, raw, y, lw, raw, b)
  <2>1. x.used <= x.max
    BY DEF UsedFits
  <2>2. PICK u, m : u = x.used /\ m = x.max
    OBVIOUS
  <2>3. u \in Int /\ m \in Int /\ u <= m /\ y.used = u - c /\ y.max = m
    BY <1>3, <1>9, <2>1, <2>2
  <2>4. u - c = u + (0 - c) /\ u - c <= m
    BY ONLY <1>8, <2>3
  <2>5. y.used = u + (0 - c) /\ y.used <= y.max
    BY <2>3, <2>4
  <2> QED BY <1>18, <1>19, <2>2, <2>5 DEF UsedFollows
<1>21. UsedFits(y, lw, raw)
  BY <1>3, <1>16, <1>17, <1>20, UsedMoves
<1> QED BY <1>16, <1>17, <1>21

LEMMA FreeKeeps ==
    ASSUME NEW x, NEW lv, NEW raw, NEW g, SlabFits(x, lv, raw, g), UsedFits(x, lv, raw),
           NEW b \in Addr, lv[b] > 0, b \notin raw,
           NEW lw, lw = [lv EXCEPT ![b] = 0], NEW y, y = Slab!AfterFree(x, b)
    PROVE  UsedFits(y, lw, raw) /\ \E h : SlabFits(y, lw, raw, h)
<1>1. PICK p : p = g.own[PageOf(b)]
  OBVIOUS
<1>2. /\ p \in Pg /\ g.kind[p] \in {"zone", "large"}
      /\ g.kind[p] = "zone" => /\ x.usage[PageOf(b)].type = "small"
                               /\ PageOf(b) - x.usage[PageOf(b)].size = p
      /\ g.kind[p] = "large" => /\ x.usage[PageOf(b)].type = "large" /\ b = PageAt(p) /\ PageOf(b) = p
  BY <1>1, CountIs
<1>3. CASE g.kind[p] = "large"
  <2>1. y = Slab!FreeLarge(x, p)
    BY <1>2, <1>3 DEF Slab!AfterFree, PageOf
  <2>2. b = PageAt(p)
    BY <1>2, <1>3
  <2> QED BY <1>2, <1>3, <2>1, <2>2, FreeLargeKeeps
<1>4. CASE g.kind[p] = "zone"
  <2>1. y = Slab!FreeChunk(x, b)
    BY <1>2, <1>4 DEF Slab!AfterFree, PageOf
  <2>2. p = Slab!ZoneOf(x, b)
    BY <1>2, <1>4 DEF Slab!ZoneOf, PageOf
  <2>3. PICK i : i = x.zone[p].index
    OBVIOUS
  <2>4. PICK v : v = PutBack(x, b, p)
    OBVIOUS
  <2>5. y = IF v.zone[p].nfree = v.zone[p].nmax /\ Len(v.array[i]) > 1 THEN Slab!Retire(v, p) ELSE v
    BY <2>1, <2>2, <2>3, <2>4, FreeChunkIs
  <2>6. Between(p, ZonePages, PageOf(b))
    BY <1>1, <1>2, <1>4, OwnedPages, AddrFacts
  <2>7. SlabFits(v, lw, raw, g) /\ UsedFits(v, lw, raw)
    BY <1>2, <1>4, <2>4, <2>6, PutBackKeeps
  <2>8. CASE v.zone[p].nfree = v.zone[p].nmax /\ Len(v.array[i]) > 1
    <3>1. y = Slab!Retire(v, p)
      BY <2>5, <2>8
    <3> QED BY ONLY <1>2, <1>4, <2>7, <2>8, <3>1, RetireKeeps
  <2>9. CASE ~(v.zone[p].nfree = v.zone[p].nmax /\ Len(v.array[i]) > 1)
    BY <2>5, <2>7, <2>9
  <2> QED BY <2>8, <2>9
<1> QED BY <1>2, <1>3, <1>4

-----------------------------------------------------------------------------
(* rt_slab_alloc.  A request of w bytes of which n are asked for.            *)
OfLarge(x, y, lv, lw, b, w, n) ==
    /\ w \in Nat \ {0} /\ n \in Nat \ {0} /\ Slab!LargePages(n) = Slab!LargePages(w)
    /\ Slab!HasPages(x.pages, Slab!LargePages(w))
    /\ b = PageAt(x.pages[Slab!PageRun(x.pages, Slab!LargePages(w))].first)
    /\ lw = [lv EXCEPT ![b] = n] /\ y = Slab!TakeLarge(x, w)

LEMMA TakeLargeKeeps ==
    ASSUME NEW x, NEW lv, NEW raw, NEW g, SlabFits(x, lv, raw, g), UsedFits(x, lv, raw), NEW y, NEW lw, NEW b,
           NEW w, NEW n, OfLarge(x, y, lv, lw, b, w, n)
    PROVE  HandedOut(y, lv, lw, raw, b)
<1>0. PICK t, p : t = Slab!LargePages(w) /\ p = x.pages[Slab!PageRun(x.pages, Slab!LargePages(w))].first
  OBVIOUS
<1> /\ w \in Nat \ {0} /\ n \in Nat \ {0} /\ Slab!LargePages(n) = Slab!LargePages(w)
    /\ t = Slab!LargePages(w) /\ Slab!HasPages(x.pages, t)
    /\ p = x.pages[Slab!PageRun(x.pages, t)].first /\ b = PageAt(p)
    /\ lw = [lv EXCEPT ![b] = n] /\ y = Slab!TakeLarge(x, w)
  BY <1>0 DEF OfLarge
<1>1. t \in Nat \ {0} /\ Slab!UpTo(w, PageSize) = PageAt(t) /\ Slab!UpTo(n, PageSize) = PageAt(t)
  BY LargeFacts
<1>2. PICK c : c = PageAt(t)
  OBVIOUS
<1>3. c \in Nat
  <2>1. t \in Nat
    BY <1>1
  <2> QED BY ONLY <1>2, <2>1, PageAtFacts
<1>4. x \in SlabState /\ Ordered(x.pages) /\ x.usage \in UsageOf /\ lv \in [Addr -> Nat]
      /\ x.used \in Int /\ x.max \in Int
  BY StateTypes DEF SlabFits, UsageOf
<1>5. PICK M : M = Slab!PageTake(x.pages, t)
  OBVIOUS
<1>6. p \in Pg /\ Ordered(M)
  <2>0. Slab!HasPages(x.pages, t) /\ p = x.pages[Slab!PageRun(x.pages, t)].first
    OBVIOUS
  <2>1. t \in Nat
    BY <1>1
  <2>2. Ordered(M) /\ p \in 0..(Pages - 1)
    BY ONLY <1>4, <1>5, <2>1, <2>0, PageTakeKeeps
  <2> QED BY <2>2 DEF Pg
<1>7. PICK v : v = [x EXCEPT !.pages = M, !.usage[p] = [type |-> "large", size |-> t]]
  OBVIOUS
<1>8. y = Slab!Count(v, c)
  BY <1>1, <1>2, <1>5, <1>7 DEF Slab!TakeLarge
<1>9. PICK e : e = [type |-> "large", size |-> t]
  OBVIOUS
<1>10. e \in [type : {"free", "small", "large"}, size : Nat] /\ e.type = "large" /\ e.size = t
  BY <1>1, <1>9
<1>11. /\ v.pages = M /\ v.usage = [x.usage EXCEPT ![p] = e] /\ v.zone = x.zone /\ v.array = x.array
       /\ v.spare = x.spare /\ v.used = x.used /\ v.max = x.max
       /\ v = [pages |-> v.pages, usage |-> v.usage, zone |-> v.zone, array |-> v.array, spare |-> v.spare,
               used |-> v.used, max |-> v.max]
  BY <1>4, <1>7, <1>9 DEF SlabState
<1>12. v.usage \in UsageOf /\ v.usage[p] = e /\ \A q \in Pg : q # p => v.usage[q] = x.usage[q]
  BY <1>4, <1>6, <1>10, <1>11 DEF UsageOf
<1>13. v \in SlabState
  <2>1. v.pages \in Seq(FreeRun)
    BY <1>6, <1>11 DEF Ordered
  <2>2. v.zone \in [Pg -> ZoneRec] /\ v.array \in [Slab!Indices -> Seq(Pg)] /\ v.spare \in Seq(Pg)
        /\ v.used \in Int /\ v.max \in Int
    BY <1>4, <1>11, StateTypes
  <2> QED BY <1>11, <1>12, <2>1, <2>2 DEF SlabState, UsageOf
<1>14. /\ y \in SlabState /\ y.pages = M /\ y.usage = v.usage /\ y.zone = x.zone
       /\ y.array = x.array /\ y.spare = x.spare /\ y.used = x.used + c /\ y.used <= y.max
  <2>1. /\ y \in SlabState /\ y.pages = v.pages /\ y.usage = v.usage /\ y.zone = v.zone
        /\ y.array = v.array /\ y.spare = v.spare /\ y.used = v.used + c /\ y.used <= y.max
    BY ONLY <1>3, <1>8, <1>13, CountAdds
  <2> QED BY <1>11, <2>1
<1>15. PICK h : h = Claim(g, p, t, "large")
  OBVIOUS
<1>16. PICK rw : rw = RawWith(raw, b, "large")
  OBVIOUS
<1>17. rw = raw
  BY <1>16 DEF RawWith
<1>18. PagesHad(x, y, lv, lw, raw, rw, g, h, p, b, t, n, "large")
  <2>1. OtherUsage(x, y, p) /\ y.usage[p].type = "large" /\ y.usage[p].size = t
    BY <1>10, <1>12, <1>14 DEF OtherUsage
  <2>2. y.pages = Slab!PageTake(x.pages, t)
    BY <1>5, <1>14
  <2>3. t \in Nat /\ t = Slab!LargePages(n)
    BY <1>1
  <2> QED BY <1>14, <1>15, <1>16, <2>1, <2>2, <2>3 DEF PagesHad
<1>19. /\ b \in Addr /\ lv[b] = 0 /\ p \in Pg /\ b \notin raw
       /\ SlabFits(y, lw, rw, h) /\ h.own[p] = p /\ h.kind[p] = "large"
       /\ OthersCount(x, lv, raw, y, lw, rw, b)
  <2>1. SlabFits(x, lv, raw, g)
    OBVIOUS
  <2> QED BY ONLY <1>18, <2>1, RunTaken
<1>20. CountOf(x, lv, raw, b) = 0
  BY <1>19 DEF CountOf
<1>21. CountOf(y, lw, raw, b) = c
  <2>1. PageOf(b) = p /\ lw[b] = n
    BY <1>4, <1>6, <1>19, PgFacts, PageAtFacts
  <2>2. y.usage[PageOf(b)].type = "large"
    BY <1>10, <1>12, <1>14, <2>1
  <2> QED BY <1>1, <1>2, <1>19, <2>1, <2>2 DEF CountOf, CountedAt
<1>22. UsedFollows(x, lv, raw, y, lw, raw, b)
  BY <1>3, <1>4, <1>14, <1>20, <1>21 DEF UsedFollows
<1>23. UsedFits(y, lw, raw)
  <2>1. SlabFits(y, lw, raw, h) /\ OthersCount(x, lv, raw, y, lw, raw, b)
    BY <1>17, <1>19
  <2> QED BY <1>19, <1>22, <2>1, UsedMoves
<1> QED BY <1>17, <1>19, <1>23 DEF HandedOut

(* rt_page_alloc(1) and rt_page_free.                                        *)
OfPage(x, y, lv, lw, raw, rw, b) ==
    /\ Slab!HasPages(x.pages, 1) /\ b = PageAt(x.pages[Slab!PageRun(x.pages, 1)].first)
    /\ lw = [lv EXCEPT ![b] = PageSize] /\ rw = raw \cup {b}
    /\ y = [x EXCEPT !.pages = Slab!PageTake(@, 1)]
PageHandedOut(y, lv, lw, rw, b) ==
    /\ b \in Addr /\ lv[b] = 0
    /\ UsedFits(y, lw, rw) /\ \E h : SlabFits(y, lw, rw, h)

LEMMA PageAllocKeeps ==
    ASSUME NEW x, NEW lv, NEW raw, NEW g, SlabFits(x, lv, raw, g), UsedFits(x, lv, raw),
           NEW y, NEW lw, NEW rw, NEW b, OfPage(x, y, lv, lw, raw, rw, b)
    PROVE  PageHandedOut(y, lv, lw, rw, b)
<1>0. PICK p : p = x.pages[Slab!PageRun(x.pages, 1)].first
  OBVIOUS
<1> /\ Slab!HasPages(x.pages, 1) /\ p = x.pages[Slab!PageRun(x.pages, 1)].first /\ b = PageAt(p)
    /\ lw = [lv EXCEPT ![b] = PageSize] /\ rw = raw \cup {b}
    /\ y = [x EXCEPT !.pages = Slab!PageTake(@, 1)]
  BY <1>0 DEF OfPage
<1>1. x \in SlabState /\ Ordered(x.pages) /\ lv \in [Addr -> Nat] /\ x.used \in Int
  BY StateTypes DEF SlabFits
<1>2. PICK M : M = Slab!PageTake(x.pages, 1)
  OBVIOUS
<1>3. Ordered(M) /\ p \in Pg
  <2>1. Ordered(M) /\ p \in 0..(Pages - 1)
    BY <1>1, <1>2, PageTakeKeeps
  <2> QED BY <2>1 DEF Pg
<1>4. /\ y.pages = M /\ y.usage = x.usage /\ y.zone = x.zone /\ y.array = x.array
      /\ y.spare = x.spare /\ y.used = x.used /\ y.max = x.max
      /\ y = [pages |-> y.pages, usage |-> y.usage, zone |-> y.zone, array |-> y.array, spare |-> y.spare,
              used |-> y.used, max |-> y.max]
  BY <1>1, <1>2 DEF SlabState
<1>5. y \in SlabState
  <2>1. y.pages \in Seq(FreeRun)
    BY <1>3, <1>4 DEF Ordered
  <2> QED BY <1>1, <1>4, <2>1, StateTypes DEF SlabState
<1>6. PICK h : h = Claim(g, p, 1, "raw")
  OBVIOUS
<1>7. rw = RawWith(raw, b, "raw")
  BY DEF RawWith
<1>8. PagesHad(x, y, lv, lw, raw, rw, g, h, p, b, 1, PageSize, "raw")
  <2>1. OtherUsage(x, y, p) /\ y.pages = Slab!PageTake(x.pages, 1)
    BY <1>2, <1>4 DEF OtherUsage
  <2>2. PageSize \in Nat \ {0}
    BY SlabNats
  <2> QED BY <1>4, <1>5, <1>6, <1>7, <2>1, <2>2 DEF PagesHad
<1>9. /\ b \in Addr /\ lv[b] = 0 /\ b \notin raw
      /\ SlabFits(y, lw, rw, h) /\ OthersCount(x, lv, raw, y, lw, rw, b)
  <2>1. SlabFits(x, lv, raw, g)
    OBVIOUS
  <2> QED BY ONLY <1>8, <2>1, RunTaken
<1>10. CountOf(x, lv, raw, b) = 0 /\ CountOf(y, lw, rw, b) = 0
  BY <1>9 DEF CountOf
<1>11. UsedFollows(x, lv, raw, y, lw, rw, b)
  <2>1. y.used <= y.max
    BY <1>4 DEF UsedFits
  <2> QED BY <1>1, <1>4, <1>10, <2>1 DEF UsedFollows
<1>12. UsedFits(y, lw, rw)
  BY <1>9, <1>11, UsedMoves
<1> QED BY <1>9, <1>12 DEF PageHandedOut

PageBack(x, y, lv, lw, raw, rw, b) ==
    /\ b \in raw /\ lw = [lv EXCEPT ![b] = 0] /\ rw = raw \ {b}
    /\ y = [x EXCEPT !.pages = Slab!PageFree(@, PageOf(b), lv[b] \div PageSize)]

LEMMA PageGiveBackKeeps ==
    ASSUME NEW x, NEW lv, NEW raw, NEW g, SlabFits(x, lv, raw, g), UsedFits(x, lv, raw),
           NEW y, NEW lw, NEW rw, NEW b, PageBack(x, y, lv, lw, raw, rw, b)
    PROVE  b \in Addr /\ UsedFits(y, lw, rw) /\ \E h : SlabFits(y, lw, rw, h)
<1> /\ b \in raw /\ lw = [lv EXCEPT ![b] = 0] /\ rw = raw \ {b}
    /\ y = [x EXCEPT !.pages = Slab!PageFree(@, PageOf(b), lv[b] \div PageSize)]
  BY DEF PageBack
<1>1. x \in SlabState /\ Ordered(x.pages) /\ lv \in [Addr -> Nat] /\ x.used \in Int
  BY StateTypes DEF SlabFits
<1>2. PICK p \in Pg : b = PageAt(p)
  BY DEF SlabFits, BlocksFit
<1>3. g.kind[p] = "raw" /\ g.len[p] = 1 /\ lv[b] = PageSize /\ PageOf(b) = p
  BY <1>2, PgFacts, PageAtFacts DEF SlabFits, UsesFit
<1>4. lv[b] \div PageSize = 1
  <2>1. PageSize \div PageSize = 1
    <3>1. PageSize \in Nat \ {0} /\ 1 * PageSize <= PageSize /\ PageSize < 1 * PageSize + PageSize
      BY SlabNats
    <3> QED BY <3>1, DivIs
  <2> QED BY <1>3, <2>1
<1>5. PICK M : M = Slab!PageFree(x.pages, p, 1)
  OBVIOUS
<1>6. Ordered(M)
  <2>1. 1 \in 1..Pages /\ p \in 0..Pages /\ p + 1 <= Pages
    BY SlabNats, PgFacts DEF Pg
  <2>2. PagesParted(x.pages, g) /\ g.own[p] = p /\ g.kind[p] # "none"
    BY <1>3, OwnsFirst DEF SlabFits
  <2>3. ~IsFree(x.pages, p)
    BY <2>2, PgFacts DEF PagesParted
  <2>4. \A q \in p..(p + 1 - 1) : ~IsFree(x.pages, q)
    BY <2>1, <2>3
  <2> QED BY <1>1, <1>5, <2>1, <2>4, PageFreeKeeps
<1>7. /\ y.pages = M /\ y.usage = x.usage /\ y.zone = x.zone /\ y.array = x.array
      /\ y.spare = x.spare /\ y.used = x.used /\ y.max = x.max
      /\ y = [pages |-> y.pages, usage |-> y.usage, zone |-> y.zone, array |-> y.array, spare |-> y.spare,
              used |-> y.used, max |-> y.max]
  BY <1>1, <1>3, <1>4, <1>5 DEF SlabState
<1>8. y \in SlabState
  <2>1. y.pages \in Seq(FreeRun)
    BY <1>6, <1>7 DEF Ordered
  <2> QED BY <1>1, <1>7, <2>1, StateTypes DEF SlabState
<1>9. PICK h : h = Drop(g, p)
  OBVIOUS
<1>10. PagesBack(x, y, lv, lw, raw, rw, g, h, p, b)
  <2>1. OtherUsage(x, y, p) /\ y.pages = Slab!PageFree(x.pages, p, g.len[p])
    BY <1>3, <1>5, <1>7 DEF OtherUsage
  <2>2. rw = RawWithout(raw, b)
    BY DEF RawWithout
  <2> QED BY <1>2, <1>3, <1>7, <1>8, <1>9, <2>1, <2>2 DEF PagesBack
<1>11. b \in Addr /\ SlabFits(y, lw, rw, h) /\ lw[b] = 0 /\ OthersCount(x, lv, raw, y, lw, rw, b)
  <2>1. SlabFits(x, lv, raw, g)
    OBVIOUS
  <2> QED BY ONLY <1>10, <2>1, RunGiven
<1>12. CountOf(x, lv, raw, b) = 0 /\ CountOf(y, lw, rw, b) = 0
  BY <1>11 DEF CountOf
<1>13. UsedFollows(x, lv, raw, y, lw, rw, b)
  <2>1. y.used <= y.max
    BY <1>7 DEF UsedFits
  <2> QED BY <1>1, <1>7, <1>12, <2>1 DEF UsedFollows
<1>14. UsedFits(y, lw, rw)
  BY <1>11, <1>13, UsedMoves
<1> QED BY <1>11, <1>14

-----------------------------------------------------------------------------
(* A new zone, for requests of w bytes; its first chunk is in use at once.   *)
ZoneFor(w, m) ==
    [index |-> Slab!ZoneIndex(w), size |-> Slab!ChunkSize(w), nfree |-> m - 1, nmax |-> m, uindex |-> 0,
     base |-> Slab!BaseOf(Slab!ChunkSize(w)), chunks |-> <<>>]

LEMMA NewZone ==
    ASSUME NEW w \in Slab!Sizes \ {0}, w < ZoneLimit,
           NEW m, m = ChunksIn(Slab!ChunkSize(w), Slab!BaseOf(Slab!ChunkSize(w))), NEW z, z = ZoneFor(w, m)
    PROVE  /\ z \in ZoneRec /\ ZoneKind(z) /\ z.nfree > 0 /\ z.index \in Slab!Indices
           /\ z.nfree = z.nmax - 1 /\ z.uindex = 0 /\ z.chunks = <<>> /\ z.nmax \in Nat /\ 2 <= z.nmax
           /\ z.size \in Nat \ {0} /\ z.base \in Nat
<1>1. PICK s : s = Slab!ChunkSize(w)
  OBVIOUS
<1>2. PICK c : c = Slab!BaseOf(s)
  OBVIOUS
<1>3. /\ s \in Nat \ {0} /\ s % 8 = 0 /\ c \in Nat /\ c % 8 = 0 /\ m \in Nat /\ 2 <= m /\ m = ChunksIn(s, c)
  BY <1>1, <1>2, ZoneShape
<1>4. w \in Nat \ {0} /\ w < 16384
  <2>1. w \in Nat
    <3>1. PICK e \in Callers : w \in e.sizes
      BY DEF Slab!Sizes
    <3> QED BY <3>1, SlabAssumption
  <2>2. ZoneLimit \in 0..16384
    BY SlabAssumption
  <2> QED BY <2>1, <2>2
<1>5. PICK i : i = Slab!ZoneIndex(w)
  OBVIOUS
<1>6. i \in Nat /\ i \in Slab!Indices
  <2>1. i \in Nat
    BY <1>4, <1>5, ZoneIndexFacts
  <2> QED BY <1>4, <1>5, <2>1 DEF Slab!Indices
<1>7. /\ z.index = i /\ z.size = s /\ z.nfree = m - 1 /\ z.nmax = m /\ z.uindex = 0 /\ z.base = c /\ z.chunks = <<>>
  BY <1>1, <1>2, <1>5 DEF ZoneFor
<1>8. z \in ZoneRec
  <2>1. z = [index |-> z.index, size |-> z.size, nfree |-> z.nfree, nmax |-> z.nmax, uindex |-> z.uindex,
             base |-> z.base, chunks |-> z.chunks]
    BY DEF ZoneFor
  <2>2. z.index \in Int /\ z.size \in Nat /\ z.nfree \in Int /\ z.nmax \in Int /\ z.uindex \in Int
        /\ z.base \in Nat /\ z.chunks \in Seq(Addr)
    <3>1. m - 1 \in Int /\ m \in Int /\ 0 \in Int /\ s \in Nat /\ c \in Nat /\ i \in Int
      BY <1>3, <1>6
    <3>2. <<>> \in Seq(Addr)
      OBVIOUS
    <3> QED BY <1>7, <3>1, <3>2
  <2> QED BY <2>1, <2>2 DEF ZoneRec
<1>9. ZoneKind(z)
  <2>1. w < ZoneLimit /\ z.index = Slab!ZoneIndex(w) /\ z.size = Slab!ChunkSize(w)
    BY <1>1, <1>5, <1>7
  <2>2. z.base = Slab!BaseOf(z.size) /\ z.nmax = ChunksIn(z.size, z.base)
    BY <1>2, <1>3, <1>7
  <2>3. z.uindex \in 0..(z.nmax - 1)
    BY <1>3, <1>7
  <2> QED BY <2>1, <2>2, <2>3 DEF ZoneKind
<1>10. z.nfree > 0
  BY <1>3, <1>7
<1> QED BY <1>3, <1>6, <1>7, <1>8, <1>9, <1>10

(* It keeps its promises, when n bytes at its first chunk are handed out. *)
LEMMA NewZoneOk ==
    ASSUME NEW z \in ZoneRec, ZoneKind(z), z.nfree = z.nmax - 1, z.uindex = 0, z.chunks = <<>>,
           NEW p \in Pg, p + ZonePages <= Pages, NEW lv \in [Addr -> Nat],
           \A a \in Addr : Between(p, ZonePages, PageOf(a)) => lv[a] = 0,
           NEW n \in Nat \ {0}, n <= z.size, NEW b, b = PageAt(p) + z.base, NEW lw, lw = [lv EXCEPT ![b] = n]
    PROVE  /\ ZoneOk(z, p, lw) /\ b \in Addr /\ Between(p, ZonePages, PageOf(b)) /\ lv[b] = 0
<1>1. /\ z.size \in Nat \ {0} /\ z.base \in Nat /\ z.nmax \in Nat /\ 2 <= z.nmax
  BY ZoneKindFacts
<1>2. ChunkOfZone(z, p, 0) = b
  <2>1. PICK k, s, c : k = PageAt(p) /\ s = z.size /\ c = z.base
    OBVIOUS
  <2>2. k \in Nat /\ s \in Nat /\ c \in Nat
    BY <1>1, <2>1, PgFacts, PageAtFacts
  <2>3. k + c + 0 * s = k + c
    BY ONLY <2>2
  <2> QED BY <2>1, <2>3 DEF ChunkOfZone, ChunkAt
<1>3. b \in Addr /\ Between(p, ZonePages, PageOf(b))
  <2>1. 0 \in 0..(z.nmax - 1)
    BY <1>1
  <2>2. b = ChunkOfZone(z, p, 0)
    BY <1>2
  <2> QED BY ONLY <2>1, <2>2, ZoneKind(z), z \in ZoneRec, p \in Pg, p + ZonePages <= Pages, ZoneChunks
<1>4. lv[b] = 0 /\ lw[b] = n /\ n > 0
  BY <1>3
<1>5. ZoneOk(z, p, lw)
  <2>1. Elems(z.chunks) = {} /\ IsOnce(z.chunks) /\ Len(z.chunks) = 0
    BY DEF Elems, IsOnce
  <2>2. z.nfree = (z.nmax - 1 - z.uindex) + Len(z.chunks)
    BY <1>1, <2>1
  <2>3. ASSUME NEW k \in 0..z.uindex PROVE lw[ChunkOfZone(z, p, k)] > 0
    <3>1. k = 0
      OBVIOUS
    <3> QED BY <1>2, <1>4, <3>1
  <2>4. ASSUME NEW a \in Addr, lw[a] > 0, Between(p, ZonePages, PageOf(a))
        PROVE  lw[a] <= z.size /\ \E k \in 0..z.uindex : a = ChunkOfZone(z, p, k)
    <3>1. a = b
      BY <2>4
    <3>2. 0 \in 0..z.uindex
      OBVIOUS
    <3> QED BY <1>2, <1>4, <3>1, <3>2
  <2> QED BY <2>1, <2>2, <2>3, <2>4 DEF ZoneOk
<1> QED BY <1>3, <1>4, <1>5

(* The pages of the zone, and its place in the lists.                        *)
ZoneReady(x, y, lv, raw, g, h, p, i, z) ==
    /\ p \in Pg /\ y \in SlabState /\ h \in Owners /\ Ordered(y.pages) /\ PagesParted(y.pages, h)
    /\ g.kind[p] \in {"none", "spare"} /\ h.kind[p] = "zone" /\ h.len[p] = ZonePages
    /\ \A r \in Pg : r # p => h.kind[r] = g.kind[r] /\ h.len[r] = g.len[r]
    /\ \A q \in Pg : h.own[q] = p <=> Between(p, ZonePages, q)
    /\ \A q \in Pg : g.own[q] = p => h.own[q] = p
    /\ \A q \in Pg : h.own[q] # p => h.own[q] = g.own[q] /\ y.usage[q] = x.usage[q]
    /\ \A q \in Pg : Between(p, ZonePages, q) => y.usage[q].type = "small" /\ y.usage[q].size = q - p
    /\ PageAt(p) \notin raw
    /\ p \notin Elems(y.spare) /\ IsOnce(y.spare) /\ Len(y.spare) <= ReleaseThresh
    /\ \A r \in Pg : r # p => (r \in Elems(y.spare) <=> r \in Elems(x.spare))
    /\ y.zone = [x.zone EXCEPT ![p] = z] /\ y.array = [x.array EXCEPT ![i] = <<p>>]
    /\ \A a \in Addr : Between(p, ZonePages, PageOf(a)) => lv[a] = 0

(* Its first chunk goes to a caller.                                         *)
FirstChunk(x, lv, lw, p, i, z, b, n) ==
    /\ i \in Slab!Indices /\ x.array[i] = <<>> /\ z.index = i /\ z.nfree > 0
    /\ b \in Addr /\ Between(p, ZonePages, PageOf(b)) /\ n \in Nat \ {0}
    /\ lw = [lv EXCEPT ![b] = n] /\ ZoneOk(z, p, lw)

LEMMA ZoneMade ==
    ASSUME NEW x, NEW lv, NEW raw, NEW g, SlabFits(x, lv, raw, g), NEW y, NEW h, NEW p, NEW i, NEW z, NEW lw,
           NEW b, NEW n, ZoneReady(x, y, lv, raw, g, h, p, i, z), FirstChunk(x, lv, lw, p, i, z, b, n)
    PROVE  /\ SlabFits(y, lw, raw, h)
           /\ OthersCount(x, lv, raw, y, lw, raw, b)
           /\ b \notin raw /\ CountOf(x, lv, raw, b) = 0 /\ CountOf(y, lw, raw, b) = z.size
<1> /\ i \in Slab!Indices /\ x.array[i] = <<>> /\ z.index = i /\ z.nfree > 0
    /\ b \in Addr /\ Between(p, ZonePages, PageOf(b)) /\ n \in Nat \ {0}
    /\ lw = [lv EXCEPT ![b] = n] /\ ZoneOk(z, p, lw)
  BY DEF FirstChunk
<1>1. /\ p \in Pg /\ y \in SlabState /\ h \in Owners /\ Ordered(y.pages) /\ PagesParted(y.pages, h)
      /\ g.kind[p] \in {"none", "spare"} /\ h.kind[p] = "zone" /\ h.len[p] = ZonePages
      /\ \A r \in Pg : r # p => h.kind[r] = g.kind[r] /\ h.len[r] = g.len[r]
      /\ \A q \in Pg : h.own[q] = p <=> Between(p, ZonePages, q)
      /\ \A q \in Pg : g.own[q] = p => h.own[q] = p
  BY DEF ZoneReady
<1>2. /\ \A q \in Pg : h.own[q] # p => h.own[q] = g.own[q] /\ y.usage[q] = x.usage[q]
      /\ \A q \in Pg : Between(p, ZonePages, q) => y.usage[q].type = "small" /\ y.usage[q].size = q - p
      /\ PageAt(p) \notin raw
  BY DEF ZoneReady
<1>3. /\ p \notin Elems(y.spare) /\ IsOnce(y.spare) /\ Len(y.spare) <= ReleaseThresh
      /\ \A r \in Pg : r # p => (r \in Elems(y.spare) <=> r \in Elems(x.spare))
      /\ y.zone = [x.zone EXCEPT ![p] = z] /\ y.array = [x.array EXCEPT ![i] = <<p>>]
      /\ \A a \in Addr : Between(p, ZonePages, PageOf(a)) => lv[a] = 0
  BY DEF ZoneReady
<1>4. /\ x \in SlabState /\ lv \in [Addr -> Nat] /\ x.zone \in [Pg -> ZoneRec]
      /\ x.array \in [Slab!Indices -> Seq(Pg)]
  BY StateTypes DEF SlabFits
<1>5. lw \in [Addr -> Nat] /\ lw[b] = n /\ n > 0 /\ \A a \in Addr : a # b => lw[a] = lv[a]
  BY <1>4
<1>6. y.zone[p] = z /\ \A r \in Pg : r # p => y.zone[r] = x.zone[r]
  BY <1>1, <1>3, <1>4
<1>7. h.own[PageOf(b)] = p /\ PageOf(b) \in Pg
  BY <1>1, AddrFacts
<1>8. SameBut(x, y, lv, lw, raw, raw, g, h, p)
  <2>1. \A q \in Pg : g.own[q] = p => h.own[q] \in {p, -1}
    BY <1>1
  <2>2. \A a \in Addr : h.own[PageOf(a)] # p => lw[a] = lv[a]
    BY <1>5, <1>7
  <2> QED BY <1>1, <1>2, <1>3, <1>6, <2>1, <2>2 DEF SameBut
<1>9. RunFit(y, lw, raw, h, p)
  BY <1>1, <1>2, <1>3, <1>6 DEF RunFit
<1>10. LeftEmpty(lw, g, h, p) /\ RawAtPages(raw)
  <2>1. \A a \in Addr : g.own[PageOf(a)] = p => h.own[PageOf(a)] = p
    BY <1>1, AddrFacts
  <2> QED BY <2>1 DEF LeftEmpty, RawAtPages, SlabFits, BlocksFit
<1>11. ListsFit(y, h)
  <2>1. y.array[i] = <<p>> /\ \A j \in Slab!Indices : j # i => y.array[j] = x.array[j]
    BY <1>3, <1>4
  <2>2. IsOnce(<<p>>) /\ Elems(<<p>>) = {p} /\ Elems(x.array[i]) = {}
    BY DEF IsOnce, Elems
  <2>3. OneList(x, y, g, h, p, i)
    BY <1>1, <1>3, <1>6, <2>1, <2>2 DEF OneList
  <2> QED BY <1>1, <1>4, <2>3, ListsMove
<1>12. SlabFits(y, lw, raw, h)
  <2>1. g.kind[p] # "usage"
    BY <1>1
  <2> QED BY <1>1, <1>5, <1>8, <1>9, <1>10, <1>11, <2>1, FrameFits
<1>13. ASSUME NEW a \in Addr, a # b PROVE CountOf(y, lw, raw, a) = CountOf(x, lv, raw, a)
  <2>1. lw[a] = lv[a]
    BY <1>5, <1>13
  <2>2. ~(lv[a] > 0 /\ g.own[PageOf(a)] = p)
    <3>1. ASSUME lv[a] > 0, g.own[PageOf(a)] = p PROVE FALSE
      <4>1. PageOf(a) \in Pg
        BY AddrFacts
      <4>2. lv[a] = 0
        BY <1>1, <1>3, <3>1, <4>1
      <4> QED BY <3>1, <4>2
    <3> QED BY <3>1
  <2>3. SameBlock(x, y, lv, lw, raw, raw, g, h, p, a)
    BY <2>1, <2>2 DEF SameBlock
  <2> QED BY <1>1, <1>8, <1>12, <2>3, FrameCount
<1>14. b \notin raw /\ CountOf(y, lw, raw, b) = z.size
  <2>1. /\ b \notin raw
        /\ CountOf(y, lw, raw, b) = IF lw[b] > 0 THEN y.zone[p].size ELSE 0
    <3>1. p \in Pg /\ h.kind[p] = "zone"
      BY <1>1
    <3> QED BY ONLY <1>12, <3>1, b \in Addr, Between(p, ZonePages, PageOf(b)), ZoneCount
  <2> QED BY <1>5, <1>6, <2>1
<1>15. CountOf(x, lv, raw, b) = 0
  BY <1>3 DEF CountOf
<1> QED BY <1>12, <1>13, <1>14, <1>15 DEF OthersCount

-----------------------------------------------------------------------------
(* What the new zone changes in either case.                                 *)
ZonePlaced(x, y, p, i, z) ==
    /\ y \in SlabState /\ Ordered(y.pages)
    /\ y.zone = [x.zone EXCEPT ![p] = z] /\ y.array = [x.array EXCEPT ![i] = <<p>>]

(* A spare zone is used again. *)
LEMMA SpareReady ==
    ASSUME NEW x, NEW lv, NEW raw, NEW g, SlabFits(x, lv, raw, g), x.spare # <<>>, NEW p, p = Head(x.spare),
           NEW y, NEW i, NEW z, ZonePlaced(x, y, p, i, z),
           y.pages = x.pages, y.usage = x.usage, y.spare = Tail(x.spare), NEW h, h = Becomes(g, p, "zone")
    PROVE  ZoneReady(x, y, lv, raw, g, h, p, i, z)
<1>1. /\ x \in SlabState /\ g \in Owners /\ PagesParted(x.pages, g) /\ x.spare \in Seq(Pg) /\ IsOnce(x.spare)
      /\ Len(x.spare) <= ReleaseThresh /\ lv \in [Addr -> Nat]
  BY StateTypes DEF SlabFits, ListsFit
<1>2. PICK t : t = x.spare
  OBVIOUS
<1>3. /\ Tail(t) \in Seq(Pg) /\ p \in Pg /\ Elems(t) = {p} \cup Elems(Tail(t))
      /\ IsOnce(Tail(t)) /\ p \notin Elems(Tail(t)) /\ Len(Tail(t)) <= Len(t)
  <2>1. t \in Seq(Pg) /\ t # <<>> /\ p = Head(t) /\ IsOnce(t)
    BY <1>1, <1>2
  <2>2. Len(Tail(t)) = Len(t) - 1 /\ Len(t) \in Nat
    BY <2>1
  <2> QED BY <2>1, <2>2, TailFacts
<1>4. g.kind[p] = "spare" /\ g.len[p] = ZonePages
      /\ \A q \in Pg : Between(p, ZonePages, q) => x.usage[q].type = "small" /\ x.usage[q].size = q - p
  BY <1>2, <1>3 DEF SlabFits, UsesFit
<1>5. /\ h \in Owners /\ PagesParted(x.pages, h)
      /\ h.kind[p] = "zone" /\ (\A q \in Pg : q # p => h.kind[q] = g.kind[q])
      /\ h.len = g.len /\ h.own = g.own
  <2>1. PICK k : k = "zone"
    OBVIOUS
  <2>2. k \in Kinds /\ k # "none" /\ h = Becomes(g, p, k) /\ g.kind[p] # "none"
    BY <1>4, <2>1 DEF Kinds
  <2>3. /\ h \in Owners /\ PagesParted(x.pages, h)
        /\ h.kind[p] = k /\ (\A q \in Pg : q # p => h.kind[q] = g.kind[q])
        /\ h.len = g.len /\ h.own = g.own
    BY <1>1, <1>3, <2>2, BecomesParts
  <2> QED BY <2>1, <2>3
<1>6. \A q \in Pg : g.own[q] = p <=> Between(p, ZonePages, q)
  BY <1>3, <1>4, OwnedPages
<1>7. ASSUME NEW a \in Addr, Between(p, ZonePages, PageOf(a)) PROVE lv[a] = 0
  <2>1. g.own[PageOf(a)] = p /\ lv[a] \in Nat
    BY <1>1, <1>6, <1>7, AddrFacts
  <2>2. ASSUME lv[a] > 0 PROVE FALSE
    <3>1. g.kind[p] = "zone" \/ g.kind[p] \in {"large", "raw"}
      BY <2>1, <2>2, OwnerOf
    <3> QED BY <1>4, <3>1
  <2> QED BY <2>1, <2>2
<1>8. PageAt(p) \notin raw
  BY <1>3, <1>4 DEF SlabFits, UsesFit
<1>9. \A r \in Pg : r # p => (r \in Elems(y.spare) <=> r \in Elems(x.spare))
  BY <1>2, <1>3
<1>10. p \notin Elems(y.spare) /\ IsOnce(y.spare) /\ Len(y.spare) <= ReleaseThresh
  <2>1. Len(Tail(t)) \in Nat /\ Len(t) \in Nat
    BY <1>1, <1>2, <1>3
  <2> QED BY <1>1, <1>2, <1>3, <2>1, SlabNats
<1> QED BY <1>3, <1>4, <1>5, <1>6, <1>7, <1>8, <1>9, <1>10 DEF ZoneReady, ZonePlaced

(* The pages of a new zone. *)
ZoneUsage(U, p) == [q \in Slab!Page |-> IF q \in p..(p + ZonePages - 1) THEN [type |-> "small", size |-> q - p]
                                        ELSE U[q]]

LEMMA ZoneUsageFacts ==
    ASSUME NEW U \in UsageOf, NEW p \in Pg, p + ZonePages <= Pages, NEW V, V = ZoneUsage(U, p)
    PROVE  /\ V \in UsageOf
           /\ \A q \in Pg : Between(p, ZonePages, q) => V[q].type = "small" /\ V[q].size = q - p
           /\ \A q \in Pg : ~Between(p, ZonePages, q) => V[q] = U[q]
<1>1. \A q \in Pg : q \in p..(p + ZonePages - 1) <=> Between(p, ZonePages, q)
  BY SlabNats, PgFacts DEF Between
<1>2. ASSUME NEW q \in Pg, Between(p, ZonePages, q)
      PROVE  /\ V[q] = [type |-> "small", size |-> q - p]
             /\ q - p \in Nat
  BY <1>1, <1>2, SlabNats, PgFacts DEF Between, ZoneUsage
<1>3. ASSUME NEW q \in Pg, ~Between(p, ZonePages, q) PROVE V[q] = U[q]
  BY <1>1, <1>3, PgFacts DEF ZoneUsage
<1>4. ASSUME NEW q \in Pg PROVE V[q] \in [type : {"free", "small", "large"}, size : Nat]
  <2>1. CASE Between(p, ZonePages, q)
    <3>1. PICK d : d = q - p
      OBVIOUS
    <3>2. d \in Nat /\ V[q] = [type |-> "small", size |-> d]
      BY <1>2, <2>1, <3>1
    <3> QED BY <3>2
  <2>2. CASE ~Between(p, ZonePages, q)
    BY <1>3, <2>2 DEF UsageOf
  <2> QED BY <2>1, <2>2
<1>5. V = [q \in Pg |-> V[q]]
  BY PgFacts DEF ZoneUsage
<1>6. V \in UsageOf
  BY <1>4, <1>5 DEF UsageOf
<1>7. ASSUME NEW q \in Pg, Between(p, ZonePages, q) PROVE V[q].type = "small" /\ V[q].size = q - p
  <2>1. PICK d : d = q - p
    OBVIOUS
  <2>2. V[q] = [type |-> "small", size |-> d]
    BY <1>2, <1>7, <2>1
  <2>3. V[q].type = "small" /\ V[q].size = d
    BY <2>2
  <2> QED BY <2>1, <2>3
<1> QED BY <1>3, <1>6, <1>7

LEMMA PagesReady ==
    ASSUME NEW x, NEW lv, NEW raw, NEW g, SlabFits(x, lv, raw, g), Slab!HasPages(x.pages, ZonePages),
           NEW p, p = x.pages[Slab!PageRun(x.pages, ZonePages)].first,
           NEW y, NEW i, NEW z, ZonePlaced(x, y, p, i, z),
           y.pages = Slab!PageTake(x.pages, ZonePages), y.usage = ZoneUsage(x.usage, p), y.spare = x.spare,
           NEW h, h = Claim(g, p, ZonePages, "zone")
    PROVE  ZoneReady(x, y, lv, raw, g, h, p, i, z) /\ p + ZonePages <= Pages
<1>1. /\ x \in SlabState /\ g \in Owners /\ lv \in [Addr -> Nat]
      /\ Ordered(x.pages) /\ PagesParted(x.pages, g) /\ x.usage \in UsageOf
      /\ x.zone \in [Pg -> ZoneRec]
  BY StateTypes DEF SlabFits, UsageOf
<1>2. PICK M, t : M = y.pages /\ t = ZonePages
  OBVIOUS
<1>3. /\ Ordered(M) /\ p \in 0..(Pages - 1) /\ t \in 1..Pages /\ p + t <= Pages
      /\ \A q \in Int : Between(p, t, q) => IsFree(x.pages, q)
      /\ \A q \in Int : IsFree(M, q) <=> IsFree(x.pages, q) /\ ~Between(p, t, q)
  <2>1. t \in Nat /\ Slab!HasPages(x.pages, t) /\ p = x.pages[Slab!PageRun(x.pages, t)].first
        /\ M = Slab!PageTake(x.pages, t)
    BY <1>2, SlabNats
  <2> QED BY ONLY <1>1, <2>1, PageTakeKeeps
<1>4. PICK k : k = "zone"
  OBVIOUS
<1>5. p \in Pg /\ k \in Kinds /\ k # "none" /\ InHeap(p, t) /\ h = Claim(g, p, t, k)
      /\ AllFree(x.pages, p, t) /\ Less(M, x.pages, p, t)
  BY <1>2, <1>3, <1>4, SlabNats DEF Pg, Kinds, InHeap, AllFree, Less
<1>6. /\ \A q \in Pg : Between(p, t, q) => y.usage[q].type = "small" /\ y.usage[q].size = q - p
      /\ \A q \in Pg : ~Between(p, t, q) => y.usage[q] = x.usage[q]
  BY <1>1, <1>2, <1>3, <1>5, ZoneUsageFacts
<1>7. Outside(x, y, lv, lv, raw, raw, p, t)
  <2>1. \A r \in Pg : r # p => y.zone[r] = x.zone[r]
    BY <1>1, <1>5 DEF ZonePlaced
  <2> QED BY <1>6, <2>1 DEF Outside
<1>8. /\ h \in Owners /\ PagesParted(M, h) /\ h.kind[p] = k /\ h.len[p] = t
      /\ SameBut(x, y, lv, lv, raw, raw, g, h, p)
      /\ g.kind[p] = "none" /\ p \notin Elems(x.spare) /\ PageAt(p) \notin raw
      /\ \A q \in Pg : q # p => h.kind[q] = g.kind[q]
      /\ \A q \in Pg : (h.own[q] = p <=> Between(p, t, q)) /\ g.own[q] # p
      /\ \A a \in Addr : h.own[PageOf(a)] = p => lv[a] = 0
  <2>1. PagesTaken(x, y, lv, lv, raw, raw, M, g, h, p, t, k)
    BY <1>5, <1>7, ClaimFrame
  <2> QED BY <2>1 DEF PagesTaken
<1>9. \A r \in Pg : r # p => h.len[r] = g.len[r]
  BY <1>8 DEF SameBut
<1>10. \A q \in Pg : h.own[q] # p => h.own[q] = g.own[q] /\ y.usage[q] = x.usage[q]
  BY <1>8 DEF SameBut
<1>11. \A a \in Addr : Between(p, t, PageOf(a)) => lv[a] = 0
  BY <1>8, AddrFacts
<1>12. IsOnce(y.spare) /\ Len(y.spare) <= ReleaseThresh /\ p \notin Elems(y.spare)
  BY <1>8 DEF SlabFits, ListsFit
<1>13. ZoneReady(x, y, lv, raw, g, h, p, i, z)
  BY <1>2, <1>4, <1>5, <1>6, <1>8, <1>9, <1>10, <1>11, <1>12 DEF ZoneReady, ZonePlaced
<1> QED BY <1>2, <1>3, <1>13

-----------------------------------------------------------------------------
(* rt_slab_alloc of a chunk where no zone of its size has one.               *)
NewPlace(x, p) ==
    IF x.spare # <<>> THEN [x EXCEPT !.spare = Tail(@)]
    ELSE [x EXCEPT !.pages = Slab!PageTake(@, ZonePages), !.usage = ZoneUsage(@, p)]

LEMMA NewPlaceFacts ==
    ASSUME NEW x, NEW lv, NEW raw, NEW g, SlabFits(x, lv, raw, g), Slab!CanMakeZone(x), NEW p, p = Slab!NewZoneAt(x),
           NEW u, u = NewPlace(x, p)
    PROVE  /\ p \in Pg /\ p + ZonePages <= Pages /\ u \in SlabState /\ Ordered(u.pages)
           /\ u.zone = x.zone /\ u.array = x.array /\ u.used = x.used /\ u.max = x.max
           /\ x.spare # <<>> => u.pages = x.pages /\ u.usage = x.usage /\ u.spare = Tail(x.spare)
           /\ x.spare = <<>> => /\ Slab!HasPages(x.pages, ZonePages)
                                /\ p = x.pages[Slab!PageRun(x.pages, ZonePages)].first
                                /\ u.pages = Slab!PageTake(x.pages, ZonePages)
                                /\ u.usage = ZoneUsage(x.usage, p) /\ u.spare = x.spare
<1>1. /\ x \in SlabState /\ Ordered(x.pages) /\ x.usage \in UsageOf /\ x.spare \in Seq(Pg)
      /\ x.zone \in [Pg -> ZoneRec] /\ x.array \in [Slab!Indices -> Seq(Pg)] /\ x.used \in Int /\ x.max \in Int
      /\ x.pages \in Seq(FreeRun)
  BY StateTypes DEF SlabFits, UsageOf
<1>2. CASE x.spare # <<>>
  <2>1. p = Head(x.spare) /\ u = [x EXCEPT !.spare = Tail(@)]
    BY <1>2 DEF Slab!NewZoneAt, NewPlace
  <2>2. /\ u.pages = x.pages /\ u.usage = x.usage /\ u.zone = x.zone /\ u.array = x.array
        /\ u.spare = Tail(x.spare) /\ u.used = x.used /\ u.max = x.max
        /\ u = [pages |-> u.pages, usage |-> u.usage, zone |-> u.zone, array |-> u.array, spare |-> u.spare,
                used |-> u.used, max |-> u.max]
    BY <1>1, <2>1 DEF SlabState
  <2>3. p \in Pg /\ Tail(x.spare) \in Seq(Pg) /\ p \in Elems(x.spare)
    <3>1. PICK t : t = x.spare
      OBVIOUS
    <3>2. t \in Seq(Pg) /\ t # <<>> /\ p = Head(t)
      BY <1>1, <1>2, <2>1, <3>1
    <3>3. p \in Pg /\ Tail(t) \in Seq(Pg)
      BY <3>2
    <3>4. p \in Elems(t)
      BY <3>2 DEF Elems
    <3> QED BY <3>1, <3>3, <3>4
  <2>4. p + ZonePages <= Pages
    <3>1. g.kind[p] = "spare"
      BY <2>3 DEF SlabFits, UsesFit
    <3> QED BY <2>3, <3>1, OwnedPages
  <2>5. u \in SlabState
    BY <1>1, <2>2, <2>3 DEF SlabState, UsageOf
  <2> QED BY <1>1, <1>2, <2>2, <2>3, <2>4, <2>5
<1>3. CASE x.spare = <<>>
  <2>1. p = x.pages[Slab!PageRun(x.pages, ZonePages)].first /\ Slab!HasPages(x.pages, ZonePages)
        /\ u = [x EXCEPT !.pages = Slab!PageTake(@, ZonePages), !.usage = ZoneUsage(@, p)]
    BY <1>3 DEF Slab!NewZoneAt, NewPlace, Slab!CanMakeZone
  <2>2. /\ u.pages = Slab!PageTake(x.pages, ZonePages) /\ u.usage = ZoneUsage(x.usage, p) /\ u.zone = x.zone
        /\ u.array = x.array /\ u.spare = x.spare /\ u.used = x.used /\ u.max = x.max
        /\ u = [pages |-> u.pages, usage |-> u.usage, zone |-> u.zone, array |-> u.array, spare |-> u.spare,
                used |-> u.used, max |-> u.max]
    BY <1>1, <2>1 DEF SlabState
  <2>3. Ordered(u.pages) /\ p \in Pg /\ p + ZonePages <= Pages
    <3>1. PICK M, t : M = u.pages /\ t = ZonePages
      OBVIOUS
    <3>2. t \in Nat /\ Slab!HasPages(x.pages, t) /\ p = x.pages[Slab!PageRun(x.pages, t)].first
          /\ M = Slab!PageTake(x.pages, t)
      BY <2>1, <2>2, <3>1, SlabNats
    <3>3. Ordered(M) /\ p \in 0..(Pages - 1) /\ p + t <= Pages
      BY ONLY <1>1, <3>2, PageTakeKeeps
    <3> QED BY <3>1, <3>3 DEF Pg
  <2>4. u.usage \in UsageOf
    BY <1>1, <2>2, <2>3, ZoneUsageFacts
  <2>5. u.pages \in Seq(FreeRun)
    BY <2>3 DEF Ordered
  <2>6. u \in SlabState
    BY <1>1, <2>2, <2>4, <2>5 DEF SlabState, UsageOf
  <2> QED BY <1>3, <2>1, <2>2, <2>3, <2>6
<1> QED BY <1>2, <1>3

OfZone(x, y, lv, lw, b, w, n) ==
    /\ w \in Slab!Sizes \ {0} /\ w < ZoneLimit /\ x.array[Slab!ZoneIndex(w)] = <<>> /\ Slab!CanMakeZone(x)
    /\ n \in Nat \ {0} /\ n <= Slab!ChunkSize(w)
    /\ b = PageAt(Slab!NewZoneAt(x)) + Slab!BaseOf(Slab!ChunkSize(w)) /\ lw = [lv EXCEPT ![b] = n]
    /\ y = Slab!MakeZone(x, Slab!ZoneIndex(w), Slab!ChunkSize(w))

LEMMA MakeZoneKeeps ==
    ASSUME NEW x, NEW lv, NEW raw, NEW g, SlabFits(x, lv, raw, g), UsedFits(x, lv, raw), NEW y, NEW lw, NEW b,
           NEW w, NEW n, OfZone(x, y, lv, lw, b, w, n)
    PROVE  HandedOut(y, lv, lw, raw, b)
<1>0. PICK i, s : i = Slab!ZoneIndex(w) /\ s = Slab!ChunkSize(w)
  OBVIOUS
<1> /\ i = Slab!ZoneIndex(w) /\ s = Slab!ChunkSize(w)
    /\ w \in Slab!Sizes \ {0} /\ w < ZoneLimit /\ x.array[i] = <<>> /\ Slab!CanMakeZone(x)
    /\ n \in Nat \ {0} /\ n <= s
    /\ b = PageAt(Slab!NewZoneAt(x)) + Slab!BaseOf(s) /\ lw = [lv EXCEPT ![b] = n]
    /\ y = Slab!MakeZone(x, i, s)
  BY <1>0 DEF OfZone
<1>1. PICK p : p = Slab!NewZoneAt(x)
  OBVIOUS
<1>2. PICK u : u = NewPlace(x, p)
  OBVIOUS
<1>3. PICK m : m = ChunksIn(s, Slab!BaseOf(s))
  OBVIOUS
<1>4. PICK z : z = ZoneFor(w, m)
  OBVIOUS
<1>5. PICK v : v = [u EXCEPT !.zone[p] = z, !.array[i] = <<p>> \o @]
  OBVIOUS
<1>6. y = Slab!Count(v, s)
  <2>1. y = Slab!Count([u EXCEPT !.zone[p] = z, !.array[i] = <<p>> \o @], s)
    BY <1>1, <1>2, <1>3, <1>4 DEF Slab!MakeZone, ZoneFor, ChunksIn, NewPlace, ZoneUsage
  <2> QED BY <1>5, <2>1
<1>7. /\ z \in ZoneRec /\ ZoneKind(z) /\ z.nfree > 0 /\ z.index \in Slab!Indices
      /\ z.nfree = z.nmax - 1 /\ z.uindex = 0 /\ z.chunks = <<>> /\ z.size \in Nat \ {0}
      /\ z.index = i /\ z.size = s /\ z.base = Slab!BaseOf(s)
  <2>1. /\ z \in ZoneRec /\ ZoneKind(z) /\ z.nfree > 0 /\ z.index \in Slab!Indices
        /\ z.nfree = z.nmax - 1 /\ z.uindex = 0 /\ z.chunks = <<>> /\ z.size \in Nat \ {0}
    BY <1>3, <1>4, NewZone
  <2>2. z.index = i /\ z.size = s /\ z.base = Slab!BaseOf(s)
    BY <1>4 DEF ZoneFor
  <2> QED BY <2>1, <2>2
<1>8. /\ p \in Pg /\ p + ZonePages <= Pages /\ u \in SlabState /\ Ordered(u.pages)
      /\ u.zone = x.zone /\ u.array = x.array /\ u.used = x.used /\ u.max = x.max
      /\ x.spare # <<>> => u.pages = x.pages /\ u.usage = x.usage /\ u.spare = Tail(x.spare)
      /\ x.spare = <<>> => /\ Slab!HasPages(x.pages, ZonePages)
                           /\ p = x.pages[Slab!PageRun(x.pages, ZonePages)].first
                           /\ u.pages = Slab!PageTake(x.pages, ZonePages)
                           /\ u.usage = ZoneUsage(x.usage, p) /\ u.spare = x.spare
  BY <1>1, <1>2, NewPlaceFacts
<1>9. /\ x \in SlabState /\ lv \in [Addr -> Nat] /\ x.zone \in [Pg -> ZoneRec] /\ x.used \in Int
      /\ x.array \in [Slab!Indices -> Seq(Pg)]
  BY StateTypes DEF SlabFits
<1>10. /\ v.pages = u.pages /\ v.usage = u.usage /\ v.zone = [x.zone EXCEPT ![p] = z]
       /\ v.array = [x.array EXCEPT ![i] = <<p>>] /\ v.spare = u.spare /\ v.used = x.used /\ v.max = x.max
       /\ v = [pages |-> v.pages, usage |-> v.usage, zone |-> v.zone, array |-> v.array, spare |-> v.spare,
               used |-> v.used, max |-> v.max]
  <2>1. <<p>> \o x.array[i] = <<p>>
    OBVIOUS
  <2>2. /\ v.pages = u.pages /\ v.usage = u.usage /\ v.zone = [u.zone EXCEPT ![p] = z]
        /\ v.array = [u.array EXCEPT ![i] = <<p>> \o u.array[i]] /\ v.spare = u.spare /\ v.used = u.used
        /\ v.max = u.max
        /\ v = [pages |-> v.pages, usage |-> v.usage, zone |-> v.zone, array |-> v.array, spare |-> v.spare,
                used |-> v.used, max |-> v.max]
    BY <1>5, <1>8 DEF SlabState
  <2> QED BY <1>8, <2>1, <2>2
<1>11. v \in SlabState
  <2>1. v.zone \in [Pg -> ZoneRec]
    BY <1>7, <1>8, <1>9, <1>10
  <2>2. v.array \in [Slab!Indices -> Seq(Pg)]
    <3>1. <<p>> \in Seq(Pg)
      BY <1>8
    <3> QED BY <1>9, <1>10, <3>1
  <2>3. /\ v.pages \in Seq(FreeRun) /\ v.usage \in [Pg -> [type : {"free", "small", "large"}, size : Nat]]
        /\ v.spare \in Seq(Pg) /\ v.used \in Int /\ v.max \in Int
    BY <1>8, <1>9, <1>10, StateTypes
  <2> QED BY <1>10, <2>1, <2>2, <2>3 DEF SlabState
<1>12. /\ y \in SlabState /\ y.pages = u.pages /\ y.usage = u.usage /\ y.zone = [x.zone EXCEPT ![p] = z]
       /\ y.array = [x.array EXCEPT ![i] = <<p>>] /\ y.spare = u.spare /\ y.used = x.used + s /\ y.used <= y.max
  <2>1. s \in Nat
    BY <1>7
  <2>2. /\ y \in SlabState /\ y.pages = v.pages /\ y.usage = v.usage /\ y.zone = v.zone
        /\ y.array = v.array /\ y.spare = v.spare /\ y.used = v.used + s /\ y.used <= y.max
    BY ONLY <1>6, <1>11, <2>1, CountAdds
  <2> QED BY <1>10, <2>2
<1>13. ZonePlaced(x, y, p, i, z)
  BY <1>8, <1>12 DEF ZonePlaced
<1>14. PICK h : ZoneReady(x, y, lv, raw, g, h, p, i, z)
  <2>1. SlabFits(x, lv, raw, g)
    OBVIOUS
  <2>2. CASE x.spare # <<>>
    <3>1. p = Head(x.spare)
      BY <1>1, <2>2 DEF Slab!NewZoneAt
    <3>2. y.pages = x.pages /\ y.usage = x.usage /\ y.spare = Tail(x.spare)
      BY <1>8, <1>12, <2>2
    <3> QED BY ONLY <1>13, <2>1, <2>2, <3>1, <3>2, SpareReady
  <2>3. CASE x.spare = <<>>
    <3>1. /\ Slab!HasPages(x.pages, ZonePages) /\ p = x.pages[Slab!PageRun(x.pages, ZonePages)].first
          /\ y.pages = Slab!PageTake(x.pages, ZonePages) /\ y.usage = ZoneUsage(x.usage, p) /\ y.spare = x.spare
      BY <1>8, <1>12, <2>3
    <3> QED BY ONLY <1>13, <2>1, <3>1, PagesReady
  <2> QED BY <2>2, <2>3
<1>15. \A a \in Addr : Between(p, ZonePages, PageOf(a)) => lv[a] = 0
  BY <1>14 DEF ZoneReady
<1>16. ZoneOk(z, p, lw) /\ b \in Addr /\ Between(p, ZonePages, PageOf(b)) /\ lv[b] = 0
  <2>1. n <= z.size /\ b = PageAt(p) + z.base /\ lw = [lv EXCEPT ![b] = n] /\ n \in Nat \ {0}
    BY <1>1, <1>7
  <2> QED BY ONLY <1>7, <1>8, <1>9, <1>15, <2>1, NewZoneOk
<1>17. /\ SlabFits(y, lw, raw, h)
       /\ OthersCount(x, lv, raw, y, lw, raw, b)
       /\ b \notin raw /\ CountOf(x, lv, raw, b) = 0 /\ CountOf(y, lw, raw, b) = z.size
  <2>1. FirstChunk(x, lv, lw, p, i, z, b, n)
    BY <1>7, <1>16 DEF FirstChunk
  <2>2. SlabFits(x, lv, raw, g)
    OBVIOUS
  <2> QED BY ONLY <1>14, <2>1, <2>2, ZoneMade
<1>18. UsedFollows(x, lv, raw, y, lw, raw, b)
  BY <1>7, <1>9, <1>12, <1>17 DEF UsedFollows
<1>19. UsedFits(y, lw, raw)
  BY <1>16, <1>17, <1>18, UsedMoves
<1> QED BY <1>16, <1>17, <1>19 DEF HandedOut

-----------------------------------------------------------------------------
LEMMA SizesAreNats == Slab!Sizes \subseteq Nat
<1>1. ASSUME NEW n \in Slab!Sizes PROVE n \in Nat
  <2>1. PICK e \in Callers : n \in e.sizes
    BY DEF Slab!Sizes
  <2> QED BY <2>1, SlabAssumption
<1> QED BY <1>1

(* rt_slab_realloc asks for the size of a chunk where a block of a chunk     *)
(* moves: that takes as much as the request itself would.                    *)
LEMMA WantedFacts ==
    ASSUME NEW n \in Slab!Sizes \ {0}, NEW w \in {n, Slab!ChunkSize(n)}
    PROVE  /\ n \in Nat \ {0} /\ w \in Nat \ {0} /\ n <= Slab!ChunkSize(n)
           /\ Slab!LargePages(w) = Slab!LargePages(n)
           /\ w < ZoneLimit => /\ n < ZoneLimit /\ n < 16384
                               /\ Slab!ZoneIndex(w) = Slab!ZoneIndex(n) /\ Slab!ChunkSize(w) = Slab!ChunkSize(n)
                               /\ Slab!ZoneIndex(n) \in Slab!Indices
                               /\ Slab!ChunkSize(n) = SizeAt(Slab!ZoneIndex(n))
<1>1. n \in Nat \ {0}
  BY SizesAreNats
<1>2. PICK c, i : c = Slab!ChunkSize(n) /\ i = Slab!ZoneIndex(n)
  OBVIOUS
<1>3. n < 16384 => /\ c \in Nat \ {0} /\ n <= c /\ c = SizeAt(i)
                   /\ c < 16384 => Slab!ChunkSize(c) = c /\ Slab!ZoneIndex(c) = i
  BY <1>1, <1>2, ZoneIndexFacts
<1>4. ~(n < 16384) => c = n
  BY <1>2 DEF Slab!ChunkSize
<1>5. c \in Nat \ {0} /\ n <= c
  <2>1. n <= n
    BY <1>1
  <2> QED BY <1>1, <1>3, <1>4, <2>1
<1>6. w \in Nat \ {0} /\ n <= w /\ w \in {n, c}
  <2>1. n <= n
    BY <1>1
  <2> QED BY <1>1, <1>2, <1>5, <2>1
<1>7. Slab!LargePages(w) = Slab!LargePages(n)
  BY SlabChunkAssumption
<1>8. ASSUME w < ZoneLimit
      PROVE  /\ n < ZoneLimit /\ n < 16384 /\ Slab!ZoneIndex(w) = i /\ Slab!ChunkSize(w) = c
             /\ i \in Slab!Indices /\ c = SizeAt(i)
  <2>1. ZoneLimit \in 0..16384
    BY SlabAssumption
  <2>2. n < ZoneLimit /\ n < 16384 /\ w < 16384
    BY <1>1, <1>6, <1>8, <2>1
  <2>5. i \in Slab!Indices
    BY <1>1, <1>2, <2>2 DEF Slab!Indices
  <2>6. c = SizeAt(i)
    BY <1>3, <2>2
  <2>7. Slab!ZoneIndex(w) = i /\ Slab!ChunkSize(w) = c
    BY <1>2, <1>3, <1>6, <2>2
  <2> QED BY <2>2, <2>5, <2>6, <2>7
<1> QED BY <1>1, <1>2, <1>5, <1>6, <1>7, <1>8

(* rt_slab_alloc, of a block that is recorded with the size asked for.       *)
LEMMA AllocKeeps ==
    ASSUME NEW x, NEW lv, NEW raw, NEW g, SlabFits(x, lv, raw, g), UsedFits(x, lv, raw),
           NEW n \in Slab!Sizes \ {0}, NEW w \in {n, Slab!ChunkSize(n)}, Slab!CanAlloc(x, w),
           NEW b, b = Slab!AllocAt(x, w), NEW lw, lw = [lv EXCEPT ![b] = n], NEW y, y = Slab!AfterAlloc(x, w)
    PROVE  HandedOut(y, lv, lw, raw, b)
<1>1. /\ n \in Nat \ {0} /\ w \in Nat \ {0} /\ n <= Slab!ChunkSize(n)
      /\ Slab!LargePages(w) = Slab!LargePages(n)
      /\ w < ZoneLimit => /\ n < ZoneLimit /\ n < 16384
                          /\ Slab!ZoneIndex(w) = Slab!ZoneIndex(n) /\ Slab!ChunkSize(w) = Slab!ChunkSize(n)
                          /\ Slab!ZoneIndex(n) \in Slab!Indices
                          /\ Slab!ChunkSize(n) = SizeAt(Slab!ZoneIndex(n))
  BY WantedFacts
<1>2. SlabFits(x, lv, raw, g) /\ UsedFits(x, lv, raw) /\ lw = [lv EXCEPT ![b] = n] /\ n \in Nat \ {0}
  BY <1>1
<1>3. PICK i, s : i = Slab!ZoneIndex(n) /\ s = Slab!ChunkSize(n)
  OBVIOUS
<1>4. CASE Slab!Large(w)
  <2>1. PICK t : t = Slab!LargePages(w)
    OBVIOUS
  <2>2. PICK p : p = x.pages[Slab!PageRun(x.pages, t)].first
    OBVIOUS
  <2>3. Slab!HasPages(x.pages, t) /\ b = PageSize * p /\ y = Slab!TakeLarge(x, w)
    BY <1>4, <2>1, <2>2 DEF Slab!CanAlloc, Slab!AllocAt, Slab!AfterAlloc
  <2>4. t \in Nat
    BY <1>1, <2>1, LargeFacts
  <2>5. Ordered(x.pages)
    BY DEF SlabFits
  <2>6. p \in 0..(Pages - 1)
    BY ONLY <2>2, <2>3, <2>4, <2>5, PageTakeKeeps
  <2>7. b = PageAt(p)
    <3>1. p \in Nat
      BY <2>6, SlabNats
    <3> QED BY <2>3, <3>1, PageAtFacts
  <2>8. OfLarge(x, y, lv, lw, b, w, n)
    BY <1>1, <2>1, <2>2, <2>3, <2>7 DEF OfLarge
  <2> QED BY ONLY <1>2, <2>8, TakeLargeKeeps
<1>5. CASE ~Slab!Large(w)
  <2>1. w < ZoneLimit
    BY <1>1, <1>5, SlabNats DEF Slab!Large
  <2>2. /\ i \in Slab!Indices /\ s = SizeAt(i) /\ n <= s /\ n < ZoneLimit
        /\ Slab!ZoneIndex(w) = i /\ Slab!ChunkSize(w) = s
    BY <1>1, <1>3, <2>1
  <2>3. CASE x.array[i] # <<>>
    <3>1. b = Slab!NextChunk(x, Slab!FirstZone(x, i)) /\ y = Slab!TakeChunk(x, i) /\ n <= SizeAt(i)
      BY <1>5, <2>2, <2>3 DEF Slab!AllocAt, Slab!AfterAlloc
    <3>2. OfChunk(x, y, lv, lw, b, i, n)
      BY <1>2, <2>2, <2>3, <3>1 DEF OfChunk
    <3> QED BY ONLY <1>2, <3>2, TakeChunkKeeps
  <2>4. CASE x.array[i] = <<>>
    <3>1. /\ Slab!CanMakeZone(x) /\ b = PageSize * Slab!NewZoneAt(x) + Slab!BaseOf(s)
          /\ y = Slab!MakeZone(x, i, s)
      BY <1>5, <2>2, <2>4 DEF Slab!AllocAt, Slab!AfterAlloc, Slab!CanAlloc
    <3>2. b = PageAt(Slab!NewZoneAt(x)) + Slab!BaseOf(s)
      <4>1. PICK p : p = Slab!NewZoneAt(x)
        OBVIOUS
      <4>2. p \in Pg
        <5>1. PICK u : u = NewPlace(x, p)
          OBVIOUS
        <5> QED BY <3>1, <4>1, <5>1, NewPlaceFacts
      <4>3. PageSize * p = PageAt(p)
        BY <4>2, PgFacts, PageAtFacts
      <4> QED BY <3>1, <4>1, <4>3
    <3>3. n \in Slab!Sizes \ {0}
      OBVIOUS
    <3>4. OfZone(x, y, lv, lw, b, n, n)
      BY <1>2, <1>3, <2>2, <2>4, <3>1, <3>2, <3>3 DEF OfZone
    <3> QED BY ONLY <1>2, <3>4, MakeZoneKeeps
  <2> QED BY <2>3, <2>4
<1> QED BY <1>4, <1>5

(* A block that grows or shrinks in its chunk.                               *)
LEMMA KeepKeeps ==
    ASSUME NEW x, NEW lv, NEW raw, NEW g, SlabFits(x, lv, raw, g), UsedFits(x, lv, raw),
           NEW b \in Addr, lv[b] > 0, b \notin raw, NEW p, p = g.own[PageOf(b)], g.kind[p] = "zone",
           NEW n \in Nat \ {0}, n <= x.zone[p].size, NEW lw, lw = [lv EXCEPT ![b] = n]
    PROVE  UsedFits(x, lw, raw) /\ SlabFits(x, lw, raw, g)
<1>1. p \in Pg /\ PageOf(b) \in Pg
  BY CountIs, AddrFacts
<1>2. Between(p, ZonePages, PageOf(b))
  BY <1>1, OwnedPages
<1>3. PICK z : z = x.zone[p]
  OBVIOUS
<1>4. z \in ZoneRec /\ ZoneOk(z, p, lv) /\ z.size \in Nat \ {0} /\ n <= z.size
  BY <1>1, <1>3, ZoneIs
<1>5. /\ lv \in [Addr -> Nat] /\ lw[b] = n /\ n > 0 /\ (\A a \in Addr : a # b => lw[a] = lv[a])
      /\ x \in SlabState /\ ListsFit(x, g) /\ x.used \in Int
  BY StateTypes DEF SlabFits
<1>6. ZoneOk(z, p, lw)
  <2>1. ASSUME NEW c \in Elems(z.chunks) PROVE lw[c] = 0 /\ \E i \in 0..z.uindex : c = ChunkOfZone(z, p, i)
    <3>1. lv[c] = 0 /\ \E i \in 0..z.uindex : c = ChunkOfZone(z, p, i)
      BY <1>4, <2>1 DEF ZoneOk
    <3>2. c # b /\ c \in Addr
      <4>1. z.chunks \in Seq(Addr)
        BY <1>4 DEF ZoneRec
      <4>2. c \in Addr
        BY <2>1, <4>1, ElemsType
      <4> QED BY <3>1, <4>2
    <3> QED BY <1>5, <3>1, <3>2
  <2>2. ASSUME NEW i \in 0..z.uindex
        PROVE  lw[ChunkOfZone(z, p, i)] > 0 \/ ChunkOfZone(z, p, i) \in Elems(z.chunks)
    <3>1. PICK a : a = ChunkOfZone(z, p, i)
      OBVIOUS
    <3>2. lv[a] > 0 \/ a \in Elems(z.chunks)
      BY <1>4, <3>1 DEF ZoneOk
    <3>3. a \in Addr
      <4>1. p + ZonePages <= Pages
        BY <1>1, OwnedPages
      <4>2. z.uindex \in 0..(z.nmax - 1) /\ z.nmax \in Nat /\ ZoneKind(z)
        BY <1>4, ZoneKindFacts DEF ZoneOk
      <4>3. i \in 0..(z.nmax - 1)
        BY <4>2
      <4> QED BY ONLY <1>1, <1>4, <3>1, <4>1, <4>2, <4>3, ZoneChunks
    <3>4. lw[a] > 0 \/ lw[a] = lv[a]
      BY <1>5, <3>3
    <3> QED BY <3>1, <3>2, <3>4
  <2>3. ASSUME NEW a \in Addr, lw[a] > 0, Between(p, ZonePages, PageOf(a))
        PROVE  lw[a] <= z.size /\ \E i \in 0..z.uindex : a = ChunkOfZone(z, p, i)
    <3>1. lv[a] > 0
      BY <1>5, <2>3
    <3>2. lv[a] <= z.size /\ \E i \in 0..z.uindex : a = ChunkOfZone(z, p, i)
      BY <1>4, <2>3, <3>1 DEF ZoneOk
    <3> QED BY <1>4, <1>5, <3>2
  <2> QED BY <1>4, <2>1, <2>2, <2>3 DEF ZoneOk
<1>7. /\ SlabFits(x, lw, raw, g)
      /\ OthersCount(x, lv, raw, x, lw, raw, b)
  <2>1. OtherZones(x, x, p) /\ n \in Nat /\ ZoneOk(x.zone[p], p, lw)
    BY <1>3, <1>6 DEF OtherZones
  <2> QED BY <1>1, <1>2, <1>5, <2>1, ZoneChanged
<1>8. CountOf(x, lv, raw, b) = z.size
  BY <1>1, <1>2, <1>3, ZoneCount
<1>9. CountOf(x, lw, raw, b) = z.size
  <2>1. CountOf(x, lw, raw, b) = IF lw[b] > 0 THEN x.zone[p].size ELSE 0
    BY ONLY <1>1, <1>2, <1>7, g.kind[p] = "zone", b \in Addr, ZoneCount
  <2> QED BY <1>3, <1>5, <2>1
<1>10. UsedFollows(x, lv, raw, x, lw, raw, b)
  <2>1. x.used <= x.max
    BY DEF UsedFits
  <2>2. x.used = x.used + (z.size - z.size)
    BY <1>4, <1>5
  <2> QED BY <1>8, <1>9, <2>1, <2>2 DEF UsedFollows
<1>11. UsedFits(x, lw, raw)
  BY <1>7, <1>10, UsedMoves
<1> QED BY <1>7, <1>11

-----------------------------------------------------------------------------
(* The invariant of slab.c: the caller b has one block of pages at most.     *)
CallerOk(b) ==
    /\ b = [sizes |-> b.sizes, max |-> b.max, raw |-> b.raw]
    /\ b.sizes \subseteq Slab!Sizes
    /\ \A c, d \in b.raw : c = d

SlabInv(x, lv, b) ==
    /\ \E g : SlabFits(x, lv, b.raw, g)
    /\ UsedFits(x, lv, b.raw) /\ CallerOk(b)

LEMMA SlabShape ==
    ASSUME config = "slab"
    PROVE  Shape[config].size = PageAt(Pages) /\ Shape[config].record = 0
<1>1. Shape["slab"] = [size |-> Pages * PageSize, record |-> 0]
  BY DEF Shape
<1> QED BY <1>1 DEF PageAt

(* A block that is in nobody else's hands after a call was unused before it. *)
LEMMA SlabRegionUnused ==
    ASSUME config = "slab", NEW y, NEW lw, NEW raw, NEW h, SlabFits(y, lw, raw, h), NEW X,
           live \in [Addr -> Nat], \A k \in Addr : k \notin X => live[k] = lw[k],
           NEW i \in Addr, lw[i] > 0, live[i] > 0 => i \in X, NEW n, n = lw[i]
    PROVE  Abs!Unused(i, n, X)
<1>1. Shape[config].size = PageAt(Pages) /\ Shape[config].record = 0
  BY SlabShape
<1>2. lw \in [Addr -> Nat] /\ n \in Nat /\ i \in Nat /\ Pages \in Nat
  BY AddrFacts, SlabNats DEF SlabFits
<1>3. ASSUME NEW a \in Nat, NEW m \in Nat PROVE Abs!Extent(a, m) = Bytesof(a, m)
  <2>1. a + 0 + m - 1 = a + m - 1
    OBVIOUS
  <2> QED BY <1>1, <2>1 DEF Abs!Extent, Bytesof
<1>4. ASSUME NEW q \in Bytesof(i, n) PROVE q \in 0..(PageAt(Pages) - 1)
  <2>1. q \in Nat /\ PageOf(q) \in Pg
    BY <1>4, BlockBytes
  <2>2. PageAt(Pages) \in Nat
    BY <1>2, PageAtFacts
  <2>3. PICK p : p = PageOf(q)
    OBVIOUS
  <2>4. q < PageAt(p) + PageSize /\ p \in Nat
    BY <2>1, <2>3, PageOfFacts
  <2>5. p < Pages
    BY <2>1, <2>3, <1>2 DEF Pg
  <2>6. PageAt(p) + PageSize <= PageAt(Pages)
    BY <2>4, <2>5, <1>2, PageAtFacts
  <2>7. PageAt(p) \in Nat /\ PageSize \in Nat
    BY <2>4, PageAtFacts, SlabNats
  <2> QED BY <2>1, <2>2, <2>4, <2>6, <2>7
<1>5. Abs!Extent(i, n) \subseteq 0..(Shape[config].size - 1)
  BY <1>1, <1>2, <1>3, <1>4
<1>6. ASSUME NEW b \in Addr, b \notin X, live[b] > 0
      PROVE  Abs!Extent(i, n) \cap Abs!Extent(b, live[b]) = {}
  <2>1. lw[b] = live[b] /\ b # i /\ lw[b] > 0 /\ lw[b] \in Nat /\ b \in Nat
    BY <1>2, <1>6, AddrFacts
  <2>2. Bytesof(i, lw[i]) \cap Bytesof(b, lw[b]) = {}
    BY <2>1, BlocksApart
  <2>3. Abs!Extent(i, n) = Bytesof(i, n) /\ Abs!Extent(b, lw[b]) = Bytesof(b, lw[b])
    BY <2>1, <1>2, <1>3
  <2> QED BY <2>1, <2>2, <2>3
<1>7. DOMAIN live = Addr
  OBVIOUS
<1> QED BY <1>5, <1>6, <1>7 DEF Abs!Unused

(* The block handed out is unused; so a call that hands out a block, moves   *)
(* one there, or changes one in place, is a step of an allocator.            *)
LEMMA SlabPlaceUnused ==
    ASSUME config = "slab", live \in [Addr -> Nat], NEW y, NEW raw, NEW h, NEW b \in Addr, NEW n \in Nat \ {0},
           live[b] = 0, NEW lw, lw = [live EXCEPT ![b] = n], SlabFits(y, lw, raw, h)
    PROVE  Abs!Unused(b, n, {})
<1>1. PICK Y : Y = {b}
  OBVIOUS
<1>2. /\ (\A k \in Addr : k \notin Y => live[k] = lw[k]) /\ (live[b] > 0 => b \in Y)
      /\ n = lw[b] /\ lw[b] > 0
  BY <1>1
<1>3. SlabFits(y, lw, raw, h)
  OBVIOUS
<1>4. Abs!Unused(b, n, Y)
  BY <1>2, <1>3, SlabRegionUnused
<1>5. ~(live[b] > 0) /\ DOMAIN live = Addr
  OBVIOUS
<1> QED BY <1>1, <1>4, <1>5 DEF Abs!Unused

LEMMA SlabAllocates ==
    ASSUME live \in [Addr -> Nat], NEW b \in Addr, NEW n \in Nat \ {0}, live[b] = 0,
           live' = [live EXCEPT ![b] = n], Abs!Unused(b, n, {})
    PROVE  Abs!Allocate
<1>1. b \in DOMAIN live /\ live'[b] = n /\ n > 0 /\ live' = [live EXCEPT ![b] = live'[b]]
  OBVIOUS
<1> QED BY <1>1 DEF Abs!Allocate

LEMMA SlabMoves ==
    ASSUME live \in [Addr -> Nat], NEW a \in Addr, NEW b \in Addr, a # b, NEW n \in Nat \ {0}, live[a] > 0,
           live' = [live EXCEPT ![a] = 0, ![b] = n], Abs!Unused(b, n, {})
    PROVE  Abs!Resize
<1>1. /\ a \in DOMAIN live /\ b \in DOMAIN live /\ live'[b] = n /\ n > 0
      /\ live' = [live EXCEPT ![a] = 0, ![b] = live'[b]]
  OBVIOUS
<1>2. Abs!Unused(b, live'[b], IF a = b THEN {a} ELSE {})
  BY <1>1
<1> QED BY <1>1, <1>2 DEF Abs!Resize

LEMMA SlabStays ==
    ASSUME config = "slab", live \in [Addr -> Nat], NEW y, NEW raw, NEW h, NEW a \in Addr, NEW n \in Nat \ {0},
           live[a] > 0, live' = [live EXCEPT ![a] = n], SlabFits(y, live', raw, h)
    PROVE  Abs!Resize
<1>1. PICK lw : lw = live'
  OBVIOUS
<1>2. PICK Y : Y = {a}
  OBVIOUS
<1>3. /\ (\A k \in Addr : k \notin Y => live[k] = lw[k]) /\ (live[a] > 0 => a \in Y)
      /\ n = lw[a] /\ lw[a] > 0
  BY <1>1, <1>2
<1>4. SlabFits(y, lw, raw, h)
  BY <1>1
<1>5. Abs!Unused(a, n, Y)
  BY <1>3, <1>4, SlabRegionUnused
<1>6. a \in DOMAIN live /\ live'[a] = n /\ n > 0 /\ live' = [live EXCEPT ![a] = 0, ![a] = live'[a]]
  BY <1>1, <1>3
<1>7. Abs!Unused(a, live'[a], IF a = a THEN {a} ELSE {})
  BY <1>2, <1>5, <1>6
<1> QED BY <1>6, <1>7 DEF Abs!Resize

-----------------------------------------------------------------------------
(* The calls of slab.c.                                                      *)
LEMMA SlabMallocStep ==
    ASSUME config = "slab", SlabInv(heap, live, aside), NEW n \in aside.sizes, Slab!Malloc(n)
    PROVE  SlabInv(heap, live, aside)' /\ Abs!Allocate
<1>1. PICK x, lv, raw : x = heap /\ lv = live /\ raw = aside.raw
  OBVIOUS
<1>2. PICK y, lw : y = heap' /\ lw = live'
  OBVIOUS
<1>3. PICK b : b = Slab!AllocAt(x, n)
  OBVIOUS
<1>4. /\ Slab!CanAlloc(x, n) /\ y = Slab!AfterAlloc(x, n) /\ lw = [lv EXCEPT ![b] = n] /\ aside' = aside
  BY <1>1, <1>2, <1>3 DEF Slab!Malloc
<1>5. PICK g : SlabFits(x, lv, raw, g)
  BY <1>1 DEF SlabInv
<1>6. UsedFits(x, lv, raw) /\ CallerOk(aside)
  BY <1>1 DEF SlabInv
<1>7. n \in Slab!Sizes \ {0} /\ n \in {n, Slab!ChunkSize(n)}
  BY <1>4, <1>6, SizesAreNats DEF CallerOk, Slab!CanAlloc
<1>8. HandedOut(y, lv, lw, raw, b)
  BY ONLY <1>3, <1>4, <1>5, <1>6, <1>7, AllocKeeps
<1>9. b \in Addr /\ lv[b] = 0 /\ UsedFits(y, lw, raw)
  BY <1>8 DEF HandedOut
<1>10. PICK h : SlabFits(y, lw, raw, h)
  BY <1>8 DEF HandedOut
<1>11. SlabInv(heap', live', aside')
  BY <1>1, <1>2, <1>4, <1>6, <1>9, <1>10 DEF SlabInv
<1>12. n \in Nat \ {0} /\ lv \in [Addr -> Nat]
  BY <1>5, <1>7, SizesAreNats DEF SlabFits
<1>13. Abs!Unused(b, n, {})
  BY <1>1, <1>4, <1>9, <1>10, <1>12, SlabPlaceUnused
<1>14. Abs!Allocate
  BY <1>1, <1>2, <1>4, <1>9, <1>12, <1>13, SlabAllocates
<1> QED BY <1>11, <1>14

LEMMA SlabFreeStep ==
    ASSUME config = "slab", SlabInv(heap, live, aside), NEW b \in Addr, Slab!Free(b)
    PROVE  SlabInv(heap, live, aside)' /\ Abs!Release
<1>1. PICK x, lv, raw : x = heap /\ lv = live /\ raw = aside.raw
  OBVIOUS
<1>2. PICK y, lw : y = heap' /\ lw = live'
  OBVIOUS
<1>3. /\ lv[b] > 0 /\ b \notin raw /\ y = Slab!AfterFree(x, b) /\ lw = [lv EXCEPT ![b] = 0] /\ aside' = aside
  BY <1>1, <1>2 DEF Slab!Free, Slab!Owned
<1>4. PICK g : SlabFits(x, lv, raw, g)
  BY <1>1 DEF SlabInv
<1>5. UsedFits(x, lv, raw) /\ CallerOk(aside) /\ b \in Addr
  BY <1>1 DEF SlabInv
<1>6. UsedFits(y, lw, raw) /\ \E h : SlabFits(y, lw, raw, h)
  BY ONLY <1>3, <1>4, <1>5, FreeKeeps
<1>7. SlabInv(heap', live', aside')
  BY <1>1, <1>2, <1>3, <1>5, <1>6 DEF SlabInv
<1>8. b \in DOMAIN live
  <2>1. lv \in [Addr -> Nat]
    BY <1>4 DEF SlabFits
  <2> QED BY <1>1, <2>1
<1>9. Abs!Release
  BY <1>1, <1>2, <1>3, <1>8 DEF Abs!Release
<1> QED BY <1>7, <1>9

LEMMA SlabKeepStep ==
    ASSUME config = "slab", SlabInv(heap, live, aside), NEW b \in Addr, NEW n \in aside.sizes, Slab!ReallocKeep(b, n)
    PROVE  SlabInv(heap, live, aside)' /\ Abs!Resize
<1>1. PICK x, lv, raw : x = heap /\ lv = live /\ raw = aside.raw
  OBVIOUS
<1>2. PICK lw : lw = live'
  OBVIOUS
<1>3. /\ lv[b] > 0 /\ b \notin raw /\ n > 0 /\ lw = [lv EXCEPT ![b] = n] /\ aside' = aside /\ heap' = x
      /\ x.usage[PageOf(b)].type = "small" /\ x.zone[PageOf(b) - x.usage[PageOf(b)].size].size = Slab!ChunkSize(n)
  BY <1>1, <1>2 DEF Slab!ReallocKeep, Slab!Owned, Slab!Keeps, Slab!ZoneOf, PageOf
<1>4. PICK g : SlabFits(x, lv, raw, g)
  BY <1>1 DEF SlabInv
<1>5. UsedFits(x, lv, raw) /\ CallerOk(aside) /\ b \in Addr
  BY <1>1 DEF SlabInv
<1>6. n \in Slab!Sizes \ {0} /\ n \in {n, Slab!ChunkSize(n)}
  BY <1>3, <1>5, SizesAreNats DEF CallerOk
<1>7. n \in Nat \ {0} /\ n <= Slab!ChunkSize(n)
  BY <1>6, WantedFacts
<1>8. PICK p : p = g.own[PageOf(b)]
  OBVIOUS
<1>9. /\ p \in Pg /\ g.kind[p] \in {"zone", "large"}
      /\ g.kind[p] = "zone" => PageOf(b) - x.usage[PageOf(b)].size = p
      /\ g.kind[p] = "large" => x.usage[PageOf(b)].type = "large"
  BY ONLY <1>3, <1>4, <1>5, <1>8, CountIs
<1>10. g.kind[p] = "zone" /\ n <= x.zone[p].size
  BY <1>3, <1>7, <1>9
<1>11. UsedFits(x, lw, raw) /\ SlabFits(x, lw, raw, g)
  BY ONLY <1>3, <1>4, <1>5, <1>7, <1>8, <1>10, KeepKeeps
<1>12. SlabInv(heap', live', aside')
  BY <1>1, <1>2, <1>3, <1>5, <1>11 DEF SlabInv
<1>13. Abs!Resize
  <2>1. lv \in [Addr -> Nat]
    BY <1>4 DEF SlabFits
  <2>2. SlabFits(x, live', raw, g)
    BY <1>2, <1>11
  <2> QED BY <1>1, <1>2, <1>3, <1>7, <2>1, <2>2, SlabStays
<1> QED BY <1>12, <1>13

LEMMA SlabMoveStep ==
    ASSUME config = "slab", SlabInv(heap, live, aside), NEW a \in Addr, NEW n \in aside.sizes, Slab!ReallocMove(a, n)
    PROVE  SlabInv(heap, live, aside)' /\ Abs!Resize
<1>1. PICK x, lv, raw : x = heap /\ lv = live /\ raw = aside.raw
  OBVIOUS
<1>2. PICK z, lz : z = heap' /\ lz = live'
  OBVIOUS
<1>3. PICK w : w = Slab!Wanted(a, n)
  OBVIOUS
<1>4. PICK b : b = Slab!AllocAt(x, w)
  OBVIOUS
<1>5. PICK y : y = Slab!AfterAlloc(x, w)
  OBVIOUS
<1>6. PICK lw : lw = [lv EXCEPT ![b] = n]
  OBVIOUS
<1>7. /\ lv[a] > 0 /\ a \notin raw /\ n > 0 /\ Slab!CanAlloc(x, w) /\ z = Slab!AfterFree(y, a)
      /\ live' = [live EXCEPT ![a] = 0, ![b] = n] /\ aside' = aside
  BY <1>1, <1>2, <1>3, <1>4, <1>5 DEF Slab!ReallocMove, Slab!Owned
<1>8. PICK g : SlabFits(x, lv, raw, g)
  BY <1>1 DEF SlabInv
<1>9. UsedFits(x, lv, raw) /\ CallerOk(aside) /\ a \in Addr
  BY <1>1 DEF SlabInv
<1>10. n \in Slab!Sizes \ {0}
  BY <1>7, <1>9, SizesAreNats DEF CallerOk
<1>11. w \in {n, Slab!ChunkSize(n)}
  BY <1>3 DEF Slab!Wanted
<1>12. HandedOut(y, lv, lw, raw, b)
  BY ONLY <1>4, <1>5, <1>6, <1>7, <1>8, <1>9, <1>10, <1>11, AllocKeeps
<1>13. b \in Addr /\ lv[b] = 0 /\ UsedFits(y, lw, raw)
  BY <1>12 DEF HandedOut
<1>14. PICK h : SlabFits(y, lw, raw, h)
  BY <1>12 DEF HandedOut
<1>15. n \in Nat \ {0} /\ lv \in [Addr -> Nat] /\ a # b
  BY <1>7, <1>8, <1>10, <1>13, SizesAreNats DEF SlabFits
<1>16. lw[a] > 0 /\ lz = [lw EXCEPT ![a] = 0]
  BY <1>1, <1>2, <1>6, <1>7, <1>13, <1>15
<1>17. a \in Addr /\ a \notin raw
  BY <1>7
<1>18. UsedFits(z, lz, raw) /\ \E k : SlabFits(z, lz, raw, k)
  BY ONLY <1>7, <1>13, <1>14, <1>16, <1>17, FreeKeeps
<1>19. SlabInv(heap', live', aside')
  BY <1>1, <1>2, <1>7, <1>9, <1>18 DEF SlabInv
<1>20. Abs!Unused(b, n, {})
  BY <1>1, <1>6, <1>13, <1>14, <1>15, SlabPlaceUnused
<1>21. Abs!Resize
  BY <1>1, <1>7, <1>13, <1>15, <1>20, SlabMoves
<1> QED BY <1>19, <1>21

LEMMA SlabPageAllocStep ==
    ASSUME config = "slab", SlabInv(heap, live, aside), Slab!PageAlloc(1)
    PROVE  SlabInv(heap, live, aside)' /\ Abs!Allocate
<1>1. PICK x, lv, raw : x = heap /\ lv = live /\ raw = aside.raw
  OBVIOUS
<1>2. PICK y, lw, rw : y = heap' /\ lw = live' /\ rw = aside'.raw
  OBVIOUS
<1>3. PICK g : SlabFits(x, lv, raw, g)
  BY <1>1 DEF SlabInv
<1>4. UsedFits(x, lv, raw) /\ CallerOk(aside) /\ lv \in [Addr -> Nat] /\ PageSize \in Nat \ {0}
  BY <1>1, <1>3, SlabNats DEF SlabInv, SlabFits
<1>5. PICK p : p = x.pages[Slab!PageRun(x.pages, 1)].first
  OBVIOUS
<1>6. PICK b : b = PageAt(p)
  OBVIOUS
<1>7. Slab!HasPages(x.pages, 1) /\ raw = {}
  BY <1>1 DEF Slab!PageAlloc
<1>8. b = PageSize * p
  <2>1. Ordered(x.pages)
    BY <1>3 DEF SlabFits
  <2>2. p \in 0..(Pages - 1)
    <3>1. PICK u \in Nat : u = 1
      OBVIOUS
    <3>2. PICK M : M = Slab!PageTake(x.pages, u)
      OBVIOUS
    <3>3. Slab!HasPages(x.pages, u) /\ p = x.pages[Slab!PageRun(x.pages, u)].first
      BY <1>5, <1>7, <3>1
    <3> QED BY ONLY <2>1, <3>1, <3>2, <3>3, PageTakeKeeps
  <2>3. p \in Nat
    BY <2>2, SlabNats
  <2> QED BY <1>6, <2>3, PageAtFacts
<1>9. y = [x EXCEPT !.pages = Slab!PageTake(@, 1)]
  BY <1>1, <1>2 DEF Slab!PageAlloc
<1>10. lw = [lv EXCEPT ![b] = 1 * PageSize] /\ aside' = [aside EXCEPT !.raw = {b}]
  BY <1>1, <1>2, <1>5, <1>8 DEF Slab!PageAlloc
<1>11. lw = [lv EXCEPT ![b] = PageSize]
  <2>1. 1 * PageSize = PageSize
    BY <1>4
  <2> QED BY <1>10, <2>1
<1>12. rw = {b} /\ aside'.sizes = aside.sizes /\ CallerOk(aside')
  <2>1. aside = [sizes |-> aside.sizes, max |-> aside.max, raw |-> aside.raw]
    BY <1>4 DEF CallerOk
  <2>2. aside' = [sizes |-> aside.sizes, max |-> aside.max, raw |-> {b}]
    BY <1>10, <2>1
  <2>3. aside'.sizes = aside.sizes /\ aside'.max = aside.max /\ aside'.raw = {b}
    BY <2>2
  <2> QED BY <1>2, <1>4, <2>2, <2>3 DEF CallerOk
<1>13. rw = raw \cup {b}
  BY <1>7, <1>12
<1>14. b \in Addr /\ lv[b] = 0 /\ UsedFits(y, lw, rw) /\ \E h : SlabFits(y, lw, rw, h)
  <2>1. OfPage(x, y, lv, lw, raw, rw, b)
    BY <1>5, <1>6, <1>7, <1>9, <1>11, <1>13 DEF OfPage
  <2>2. PageHandedOut(y, lv, lw, rw, b)
    BY ONLY <1>3, <1>4, <2>1, PageAllocKeeps
  <2> QED BY <2>2 DEF PageHandedOut
<1>15. PICK h : SlabFits(y, lw, rw, h)
  BY <1>14
<1>16. SlabInv(heap', live', aside')
  BY <1>2, <1>12, <1>14 DEF SlabInv
<1>17. Abs!Unused(b, PageSize, {})
  BY <1>1, <1>4, <1>11, <1>14, <1>15, SlabPlaceUnused
<1>18. Abs!Allocate
  BY <1>1, <1>2, <1>4, <1>11, <1>14, <1>17, SlabAllocates
<1> QED BY <1>16, <1>18

LEMMA SlabPageGiveBackStep ==
    ASSUME config = "slab", SlabInv(heap, live, aside), NEW b, Slab!PageGiveBack(b)
    PROVE  SlabInv(heap, live, aside)' /\ Abs!Release
<1>1. PICK x, lv, raw : x = heap /\ lv = live /\ raw = aside.raw
  OBVIOUS
<1>2. PICK y, lw, rw : y = heap' /\ lw = live' /\ rw = aside'.raw
  OBVIOUS
<1>3. PICK g : SlabFits(x, lv, raw, g)
  BY <1>1 DEF SlabInv
<1>4. UsedFits(x, lv, raw) /\ CallerOk(aside) /\ lv \in [Addr -> Nat]
  BY <1>1, <1>3 DEF SlabInv, SlabFits
<1>5. y = [x EXCEPT !.pages = Slab!PageFree(@, PageOf(b), lv[b] \div PageSize)]
  BY <1>1, <1>2 DEF Slab!PageGiveBack, PageOf
<1>6. b \in raw /\ lw = [lv EXCEPT ![b] = 0] /\ aside' = [aside EXCEPT !.raw = {}]
  BY <1>1, <1>2 DEF Slab!PageGiveBack
<1>7. rw = {} /\ CallerOk(aside')
  <2>1. aside = [sizes |-> aside.sizes, max |-> aside.max, raw |-> aside.raw]
    BY <1>4 DEF CallerOk
  <2>2. aside' = [sizes |-> aside.sizes, max |-> aside.max, raw |-> {}]
    BY <1>6, <2>1
  <2>3. aside'.sizes = aside.sizes /\ aside'.max = aside.max /\ aside'.raw = {}
    BY <2>2
  <2> QED BY <1>2, <1>4, <2>2, <2>3 DEF CallerOk
<1>8. rw = raw \ {b}
  BY <1>1, <1>4, <1>6, <1>7 DEF CallerOk
<1>9. b \in Addr /\ UsedFits(y, lw, rw) /\ \E h : SlabFits(y, lw, rw, h)
  <2>1. PageBack(x, y, lv, lw, raw, rw, b)
    BY <1>5, <1>6, <1>8 DEF PageBack
  <2> QED BY ONLY <1>3, <1>4, <2>1, PageGiveBackKeeps
<1>10. SlabInv(heap', live', aside')
  BY <1>2, <1>7, <1>9 DEF SlabInv
<1>11. Abs!Release
  BY <1>1, <1>2, <1>4, <1>6, <1>9 DEF Abs!Release
<1> QED BY <1>10, <1>11

LEMMA SlabStep ==
    ASSUME config = "slab", SlabInv(heap, live, aside), Slab!Next
    PROVE  SlabInv(heap, live, aside)' /\ (Abs!Allocate \/ Abs!Release \/ Abs!Resize)
<1>1. CASE \E n \in aside.sizes : Slab!Malloc(n)
  BY <1>1, SlabMallocStep
<1>2. CASE \E a \in Addr : Slab!Free(a) \/ Slab!PageGiveBack(a)
  BY <1>2, SlabFreeStep, SlabPageGiveBackStep
<1>3. CASE \E a \in Slab!Held, n \in aside.sizes : Slab!ReallocKeep(a, n) \/ Slab!ReallocMove(a, n)
  <2>1. PICK a \in Slab!Held, n \in aside.sizes : Slab!ReallocKeep(a, n) \/ Slab!ReallocMove(a, n)
    BY <1>3
  <2>2. a \in Addr
    BY DEF Slab!Held, Addr
  <2> QED BY <2>1, <2>2, SlabKeepStep, SlabMoveStep
<1>4. CASE Slab!PageAlloc(1)
  BY <1>4, SlabPageAllocStep
<1> QED BY <1>1, <1>2, <1>3, <1>4 DEF Slab!Next, Addr

-----------------------------------------------------------------------------
(* rt_slab_init: the pages behind memusage are free.                         *)
LEMMA FirstPages ==
    ASSUME NEW L, L = Slab!PageTake(Slab!PageFree(<<>>, 0, Pages), UsagePages)
    PROVE  Ordered(L) /\ \A q \in Pg : IsFree(L, q) <=> UsagePages <= q
<1>1. Pages \in Nat \ {0} /\ UsagePages \in 1..Pages /\ UsagePages \in Nat
  BY SlabNats
<1>2. PICK em : em = <<>>
  OBVIOUS
<1>3. PICK M : M = Slab!PageFree(em, 0, Pages)
  OBVIOUS
<1>4. Ordered(em) /\ \A q \in Int : ~IsFree(em, q)
  <2>1. DOMAIN em = {}
    BY <1>2
  <2>2. PICK S : S = FreeRun
    OBVIOUS
  <2>3. <<>> \in Seq(S)
    OBVIOUS
  <2>4. em \in Seq(FreeRun)
    BY <1>2, <2>2, <2>3
  <2> QED BY <2>1, <2>4 DEF Ordered, IsFree
<1>5. Ordered(M) /\ \A q \in Int : IsFree(M, q) <=> Between(0, Pages, q)
  <2>1. 0 \in 0..Pages /\ Pages \in 1..Pages /\ 0 + Pages <= Pages /\ \A q \in 0..(0 + Pages - 1) : ~IsFree(em, q)
    BY <1>1, <1>4
  <2>2. Ordered(M) /\ \A q \in Int : IsFree(M, q) <=> IsFree(em, q) \/ Between(0, Pages, q)
    BY ONLY <1>3, <1>4, <2>1, PageFreeKeeps
  <2> QED BY <2>2, <1>4
<1>6. M = <<[first |-> 0, count |-> Pages]>>
  <2>1. Touching(em, 0, Pages) = {}
    BY <1>2 DEF Touching
  <2>2. FirstIndex(Touching(em, 0, Pages)) = 0
    BY <2>1 DEF FirstIndex
  <2>3. M = FreedAt(em, 0, Pages, 0)
    BY <1>3, <2>2, PageFreeIs
  <2>4. PICK r : r = [first |-> 0, count |-> Pages]
    OBVIOUS
  <2>5. M = Append(<<>>, r)
    BY <1>2, <2>3, <2>4 DEF FreedAt
  <2>6. Append(<<>>, r) = <<r>>
    OBVIOUS
  <2> QED BY <2>4, <2>5, <2>6
<1>7. Len(M) = 1 /\ M[1].first = 0 /\ M[1].count = Pages /\ DOMAIN M = {1}
  BY <1>6
<1>8. Slab!HasPages(M, UsagePages)
  BY <1>1, <1>7 DEF Slab!HasPages
<1>9. PICK k : k = Slab!PageRun(M, UsagePages)
  OBVIOUS
<1>10. k = 1
  <2>1. k \in 1..Len(M)
    BY ONLY <1>5, <1>8, <1>9, PageRunFacts
  <2> QED BY <2>1, <1>7
<1>11. PICK p : p = M[k].first
  OBVIOUS
<1>12. p = 0 /\ L = Slab!PageTake(M, UsagePages)
  BY <1>2, <1>3, <1>7, <1>10, <1>11
<1>13. Ordered(L) /\ \A q \in Int : IsFree(L, q) <=> IsFree(M, q) /\ ~Between(p, UsagePages, q)
  BY <1>1, <1>5, <1>8, <1>9, <1>11, <1>12, PageTakeKeeps
<1>14. ASSUME NEW q \in Pg PROVE IsFree(L, q) <=> UsagePages <= q
  <2>1. q \in Int /\ 0 <= q /\ q < Pages
    BY <1>1 DEF Pg
  <2>2. IsFree(M, q)
    BY <1>1, <1>5, <2>1 DEF Between
  <2>3. Between(p, UsagePages, q) <=> q < UsagePages
    BY <1>1, <1>12, <2>1 DEF Between
  <2> QED BY <1>1, <1>13, <2>1, <2>2, <2>3
<1> QED BY <1>13, <1>14

LEMMA TotalOfNothing ==
    ASSUME NEW n \in Nat, NEW w, \A k \in 0..n : w[k] = 0, NEW z, Totals(w, z, n)
    PROVE  z[n] = 0
<1>1. z[0] = w[0] /\ \A k \in 1..n : z[k] = w[k] + z[k - 1]
  BY DEF Totals
<1> DEFINE Bad == {m \in Nat : m <= n /\ z[m] # 0}
<1>2. Bad = {}
  <2> SUFFICES ASSUME Bad # {} PROVE FALSE
    OBVIOUS
  <2>1. PICK m \in Bad : \A l \in Bad : m <= l
    <3>1. Bad \subseteq Nat
      OBVIOUS
    <3> HIDE DEF Bad
    <3> QED BY <3>1, Least
  <2>2. m \in Nat /\ m <= n /\ z[m] # 0
    OBVIOUS
  <2>3. m # 0
    BY <1>1, <2>2
  <2>4. m - 1 \in Nat /\ ~(m <= m - 1) /\ m - 1 <= n /\ m \in 1..n /\ m \in 0..n
    <3> HIDE DEF Bad
    <3> QED BY <2>2, <2>3
  <2>5. m - 1 \notin Bad
    <3> HIDE DEF Bad
    <3> QED BY <2>1, <2>4
  <2>6. z[m - 1] = 0
    BY <2>4, <2>5
  <2>7. z[m] = 0 + 0
    BY <1>1, <2>4, <2>6
  <2> QED BY <2>2, <2>7
<1>3. n \notin Bad
  <2> HIDE DEF Bad
  <2> QED BY <1>2
<1> QED BY <1>3

LEMMA NothingCounted ==
    ASSUME NEW x, x.used = 0, x.max = 0, NEW lv, \A a \in Addr : lv[a] = 0
    PROVE  UsedFits(x, lv, {})
<1>1. LastAddr \in Nat /\ \A k \in 0..LastAddr : 8 * k \in Addr
  BY AddrFacts
<1>2. PICK w : w = Counts(x, lv, {})
  OBVIOUS
<1>3. \A k \in 0..LastAddr : w[k] = 0
  BY <1>1, <1>2 DEF Counts
<1>4. ASSUME NEW z, Totals(w, z, LastAddr) PROVE z[LastAddr] = 0
  BY <1>1, <1>3, <1>4, TotalOfNothing
<1> QED BY <1>2, <1>4 DEF UsedFits

LEMMA SlabInit ==
    ASSUME Slab!Init
    PROVE  SlabInv(heap, live, aside)
<1>1. PICK x, lv : x = heap /\ lv = live
  OBVIOUS
<1>2. PICK L : L = Slab!PageTake(Slab!PageFree(<<>>, 0, Pages), UsagePages)
  OBVIOUS
<1>3. /\ x = [pages |-> L, usage |-> [p \in Pg |-> Slab!Unused], zone |-> [p \in Pg |-> Slab!NoZone],
              array |-> [i \in Slab!Indices |-> <<>>], spare |-> <<>>, used |-> 0, max |-> 0]
      /\ lv = [a \in Addr |-> 0]
  BY <1>1, <1>2, PgFacts DEF Slab!Init, Addr
<1>4. Ordered(L) /\ \A q \in Pg : IsFree(L, q) <=> UsagePages <= q
  BY <1>2, FirstPages
<1>5. Pages \in Nat /\ UsagePages \in Nat /\ 1 <= UsagePages /\ UsagePages <= Pages /\ 0 \in Pg /\ -1 \notin Pg
  BY SlabNats, PgFacts
<1>6. /\ x.pages = L /\ (\A p \in Pg : x.usage[p] = Slab!Unused) /\ (\A p \in Pg : x.zone[p] = Slab!NoZone)
      /\ (\A i \in Slab!Indices : x.array[i] = <<>>) /\ x.spare = <<>> /\ x.used = 0 /\ x.max = 0
      /\ lv \in [Addr -> Nat] /\ \A a \in Addr : lv[a] = 0
  BY <1>3
<1>7. x \in SlabState
  <2>1. L \in Seq(FreeRun)
    BY <1>4 DEF Ordered
  <2>2. Slab!Unused \in [type : {"free", "small", "large"}, size : Nat]
    BY DEF Slab!Unused
  <2>3. Slab!NoZone \in ZoneRec
    BY DEF Slab!NoZone, ZoneRec
  <2> QED BY <1>3, <2>1, <2>2, <2>3 DEF SlabState
<1>8. PICK g : g = [own  |-> [q \in Pg |-> IF q < UsagePages THEN 0 ELSE -1],
                    kind |-> [p \in Pg |-> IF p = 0 THEN "usage" ELSE "none"],
                    len  |-> [p \in Pg |-> IF p = 0 THEN UsagePages ELSE 0]]
  OBVIOUS
<1>9. /\ \A q \in Pg : g.own[q] = IF q < UsagePages THEN 0 ELSE -1
      /\ \A p \in Pg : g.kind[p] = IF p = 0 THEN "usage" ELSE "none"
      /\ g.len[0] = UsagePages
  BY <1>5, <1>8
<1>10. g \in Owners
  <2>1. [q \in Pg |-> IF q < UsagePages THEN 0 ELSE -1] \in [Pg -> -1..(Pages - 1)]
    BY <1>5
  <2>2. [p \in Pg |-> IF p = 0 THEN "usage" ELSE "none"] \in [Pg -> Kinds]
    BY DEF Kinds
  <2>3. [p \in Pg |-> IF p = 0 THEN UsagePages ELSE 0] \in [Pg -> Nat]
    BY <1>5
  <2> QED BY <1>8, <2>1, <2>2, <2>3 DEF Owners
<1>11. PagesParted(x.pages, g)
  <2>1. \A q \in Pg : g.own[q] = -1 <=> IsFree(L, q)
    BY <1>4, <1>5, <1>9 DEF Pg
  <2>2. \A q \in Pg : g.own[q] # -1 => g.kind[g.own[q]] # "none"
    BY <1>5, <1>9
  <2>3. \A q \in Pg : g.own[q] = 0 <=> Between(0, UsagePages, q)
    BY <1>5, <1>9 DEF Pg, Between
  <2>4. \A p \in Pg : g.kind[p] # "none" => p = 0
    BY <1>9
  <2> QED BY <1>5, <1>6, <1>9, <2>1, <2>2, <2>3, <2>4 DEF PagesParted
<1>12. UsesFit(x, lv, {}, g)
  <2>1. Elems(x.spare) = {}
    BY <1>6 DEF Elems
  <2> QED BY <1>5, <1>6, <1>9, <2>1 DEF UsesFit
<1>13. BlocksFit(lv, {}, g) /\ ZonesFit(x, lv, g)
  BY <1>6, <1>9 DEF BlocksFit, ZonesFit
<1>14. ListsFit(x, g)
  <2>1. Elems(<<>>) = {} /\ IsOnce(<<>>) /\ Len(<<>>) = 0
    BY DEF Elems, IsOnce
  <2>2. ReleaseThresh \in Nat
    BY SlabNats
  <2> QED BY <1>6, <1>9, <2>1, <2>2 DEF ListsFit
<1>15. SlabFits(x, lv, {}, g)
  BY <1>4, <1>6, <1>7, <1>10, <1>11, <1>12, <1>13, <1>14 DEF SlabFits
<1>16. UsedFits(x, lv, {})
  BY <1>6, NothingCounted
<1>17. aside.raw = {} /\ CallerOk(aside)
  <2>1. PICK c \in Callers : aside = [sizes |-> c.sizes, max |-> c.max, raw |-> {}]
    BY DEF Slab!Init
  <2>2. aside.sizes = c.sizes /\ aside.max = c.max /\ aside.raw = {}
    BY <2>1
  <2>3. c.sizes \subseteq Slab!Sizes
    BY DEF Slab!Sizes
  <2> QED BY <2>1, <2>2, <2>3 DEF CallerOk
<1> QED BY <1>1, <1>15, <1>16, <1>17 DEF SlabInv

-----------------------------------------------------------------------------
(* The properties of slab.c follow.                                          *)
LEMMA SetsBuilt ==
    ASSUME NEW S, IsFiniteSet(S), NEW B,
           \A T \in SUBSET S : (\A x \in T : T \ {x} \in B) => T \in B
    PROVE  S \in B
<1>1. \A T \in SUBSET S : IsFiniteSet(T) /\ Cardinality(T) \in Nat
  BY FS_Subset, FS_CardinalityType
<1> DEFINE Bad == {n \in Nat : \E T \in SUBSET S : T \notin B /\ Cardinality(T) = n}
<1>2. Bad = {}
  <2> SUFFICES ASSUME Bad # {} PROVE FALSE
    OBVIOUS
  <2>1. PICK n \in Bad : \A l \in Bad : n <= l
    <3>1. Bad \subseteq Nat
      OBVIOUS
    <3> HIDE DEF Bad
    <3> QED BY <3>1, Least
  <2>2. PICK T \in SUBSET S : T \notin B /\ Cardinality(T) = n
    OBVIOUS
  <2>3. PICK x \in T : T \ {x} \notin B
    BY <2>2
  <2>4. Cardinality(T \ {x}) = n - 1
    BY <1>1, <2>2, <2>3, FS_RemoveElement
  <2>5. T \ {x} \in SUBSET S /\ Cardinality(T \ {x}) \in Nat
    BY <1>1
  <2>6. T \ {x} \notin B
    BY <2>3
  <2>7. n - 1 \in Bad
    BY <2>4, <2>5, <2>6
  <2>8. n <= n - 1 /\ n \in Nat
    <3>1. n \in Nat
      OBVIOUS
    <3> HIDE DEF Bad
    <3> QED BY <2>1, <2>7, <3>1
  <2> QED BY <2>8
<1>3. Cardinality(S) \notin Bad
  <2> HIDE DEF Bad
  <2> QED BY <1>2
<1> QED BY <1>1, <1>3

LEMMA PositiveIff ==
    ASSUME NEW n, NEW s, NEW p, n > 0 <=> \E k \in DOMAIN s : s[k] = p
    PROVE  (n > 0) = (\E k \in DOMAIN s : s[k] = p)
<1>1. (n > 0) \in BOOLEAN
  BY SMT
<1>2. (\E k \in DOMAIN s : s[k] = p) \in BOOLEAN
  OBVIOUS
<1> QED BY <1>1, <1>2, Zenon

LEMMA SlabZonesExact ==
    ASSUME SlabInv(heap, live, aside)
    PROVE  Slab!ZonesExact
<1>1. PICK g : SlabFits(heap, live, aside.raw, g)
  BY DEF SlabInv
<1>2. heap \in SlabState /\ heap.array \in [Slab!Indices -> Seq(Pg)] /\ Slab!Page = Pg
  BY <1>1, StateTypes, PgFacts DEF SlabFits
<1>3. ASSUME NEW p \in Slab!ZonesAt, NEW z, z = heap.zone[p]
      PROVE  /\ z.nfree = (z.nmax - 1 - z.uindex) + Len(z.chunks)
             /\ Slab!IsInjective(z.chunks) /\ \A k \in DOMAIN z.chunks : live[z.chunks[k]] = 0
             /\ (z.nfree > 0) = (\E k \in DOMAIN heap.array[z.index] : heap.array[z.index][k] = p)
  <2>1. p \in Pg /\ g.kind[p] = "zone"
    BY <1>1, <1>2, <1>3 DEF Slab!ZonesAt, SlabFits, UsesFit
  <2>2. ZoneOk(z, p, live)
    BY <1>1, <1>3, <2>1 DEF SlabFits, ZonesFit
  <2>3. z \in ZoneRec /\ ZoneKind(z)
    BY <1>2, <1>3, <2>1, <2>2, StateTypes DEF ZoneOk
  <2>4. z.index \in Slab!Indices
    BY <2>3, ZoneKindFacts
  <2>5. Slab!IsInjective(z.chunks) /\ \A k \in DOMAIN z.chunks : live[z.chunks[k]] = 0
    BY <2>2 DEF ZoneOk, IsOnce, Elems, Slab!IsInjective
  <2>6. PICK s : s = heap.array[z.index]
    OBVIOUS
  <2>7. z.nfree > 0 => \E k \in DOMAIN s : s[k] = p
    BY <1>1, <1>3, <2>1, <2>6 DEF SlabFits, ListsFit, Elems
  <2>8. (\E k \in DOMAIN s : s[k] = p) => z.nfree > 0
    BY <1>1, <1>3, <2>4, <2>6 DEF SlabFits, ListsFit, Elems
  <2>9. PICK n : n = z.nfree
    OBVIOUS
  <2>10. n > 0 <=> \E k \in DOMAIN s : s[k] = p
    BY <2>7, <2>8, <2>9
  <2>11. (n > 0) = (\E k \in DOMAIN s : s[k] = p)
    BY ONLY <2>10, PositiveIff
  <2>12. (z.nfree > 0) = (\E k \in DOMAIN heap.array[z.index] : heap.array[z.index][k] = p)
    BY <2>6, <2>9, <2>11
  <2>13. z.nfree = (z.nmax - 1 - z.uindex) + Len(z.chunks)
    BY <2>2 DEF ZoneOk
  <2> QED BY <2>5, <2>12, <2>13
<1>4. ASSUME NEW i \in Slab!Indices
      PROVE  /\ Slab!IsInjective(heap.array[i])
             /\ \A k \in DOMAIN heap.array[i] : heap.zone[heap.array[i][k]].index = i
  BY <1>1 DEF SlabFits, ListsFit, IsOnce, Elems, Slab!IsInjective
<1>5. Len(heap.spare) <= ReleaseThresh
  BY <1>1 DEF SlabFits, ListsFit
<1> QED BY <1>3, <1>4, <1>5, Zenon DEF Slab!ZonesExact

-----------------------------------------------------------------------------
(* What the blocks in a set count together.                                  *)
CountsIn(x, lv, T) == [k \in 0..LastAddr |-> IF 8 * k \in T THEN CountedAt(x, lv, 8 * k) ELSE 0]

CountIn(x, lv, T) == (CHOOSE z : Totals(CountsIn(x, lv, T), z, LastAddr))[LastAddr]

Counted(x, lv, H) == H \subseteq Addr /\ \A a \in H : CountedAt(x, lv, a) \in Nat
CountsOneByOne(x, lv, H) ==
    /\ CountIn(x, lv, {}) = 0
    /\ \A T \in SUBSET H : \A a \in T : CountIn(x, lv, T) = CountedAt(x, lv, a) + CountIn(x, lv, T \ {a})

LEMMA CountInFacts ==
    ASSUME NEW x, NEW lv, NEW H, Counted(x, lv, H)
    PROVE  CountsOneByOne(x, lv, H)
<1> H \subseteq Addr /\ \A a \in H : CountedAt(x, lv, a) \in Nat
  BY DEF Counted
<1>1. LastAddr \in Nat
  BY AddrFacts
<1>2. ASSUME NEW T \in SUBSET H, NEW w, w = CountsIn(x, lv, T) PROVE w \in [0..LastAddr -> Int]
  <2>1. ASSUME NEW k \in 0..LastAddr PROVE (IF 8 * k \in T THEN CountedAt(x, lv, 8 * k) ELSE 0) \in Int
    OBVIOUS
  <2> QED BY <1>2, <2>1 DEF CountsIn
<1>3. ASSUME NEW T \in SUBSET H, NEW w, w = CountsIn(x, lv, T), NEW z, z = CHOOSE y : Totals(w, y, LastAddr)
      PROVE  Totals(w, z, LastAddr) /\ CountIn(x, lv, T) = z[LastAddr] /\ z[LastAddr] \in Int
  <2>1. \E y : Totals(w, y, LastAddr)
    BY <1>1, <1>2, <1>3, TotalsExist
  <2>2. Totals(w, z, LastAddr)
    BY <1>3, <2>1
  <2>3. CountIn(x, lv, T) = z[LastAddr]
    BY <1>3 DEF CountIn
  <2>4. z[LastAddr] \in Int
    BY <1>1, <2>2 DEF Totals
  <2> QED BY <2>2, <2>3, <2>4
<1>5. CountIn(x, lv, {}) = 0
  <2>1. PICK T : T = {}
    OBVIOUS
  <2>2. PICK w : w = CountsIn(x, lv, T)
    OBVIOUS
  <2>3. PICK z : z = CHOOSE y : Totals(w, y, LastAddr)
    OBVIOUS
  <2>4. Totals(w, z, LastAddr) /\ CountIn(x, lv, T) = z[LastAddr]
    BY <1>3, <2>1, <2>2, <2>3
  <2>5. \A k \in 0..LastAddr : w[k] = 0
    BY <2>1, <2>2 DEF CountsIn
  <2>6. z[LastAddr] = 0
    BY ONLY <1>1, <2>4, <2>5, TotalOfNothing
  <2> QED BY <2>1, <2>4, <2>6
<1>6. ASSUME NEW T \in SUBSET H, NEW a \in T
      PROVE  CountIn(x, lv, T) = CountedAt(x, lv, a) + CountIn(x, lv, T \ {a})
  <2>1. PICK U : U = T \ {a}
    OBVIOUS
  <2>2. PICK u, t : u = CountsIn(x, lv, T) /\ t = CountsIn(x, lv, U)
    OBVIOUS
  <2>3. PICK w, z : (w = CHOOSE y : Totals(u, y, LastAddr)) /\ (z = CHOOSE y : Totals(t, y, LastAddr))
    OBVIOUS
  <2>4. /\ u \in [0..LastAddr -> Int] /\ t \in [0..LastAddr -> Int]
        /\ Totals(u, w, LastAddr) /\ CountIn(x, lv, T) = w[LastAddr] /\ w[LastAddr] \in Int
        /\ Totals(t, z, LastAddr) /\ CountIn(x, lv, U) = z[LastAddr] /\ z[LastAddr] \in Int
    <3>1. U \in SUBSET H
      BY <2>1
    <3> QED BY <1>2, <1>3, <2>2, <2>3, <3>1
  <2>5. PICK i : i = a \div 8
    OBVIOUS
  <2>6. i \in 0..LastAddr /\ 8 * i = a
    BY <2>5, AddrFacts
  <2>7. DifferAt(u, t, LastAddr, i)
    <3>1. ASSUME NEW k \in 0..LastAddr, k # i PROVE u[k] = t[k]
      <4>1. 8 * k # a
        BY <2>6, <3>1
      <4> QED BY <2>1, <2>2, <4>1 DEF CountsIn
    <3> QED BY <3>1 DEF DifferAt
  <2>8. MovedBy(w, z, LastAddr, u[i] - t[i])
    BY <1>1, <2>4, <2>6, <2>7, TotalsChange
  <2>9. u[i] = CountedAt(x, lv, a) /\ t[i] = 0
    BY <2>1, <2>2, <2>6 DEF CountsIn
  <2>10. PICK c \in Nat : c = CountedAt(x, lv, a)
    OBVIOUS
  <2>11. w[LastAddr] = z[LastAddr] + (c - 0)
    BY <2>8, <2>9, <2>10 DEF MovedBy
  <2>12. w[LastAddr] = c + z[LastAddr]
    BY <2>4, <2>11
  <2> QED BY <2>1, <2>4, <2>10, <2>12
<1> QED BY <1>5, <1>6 DEF CountsOneByOne

(* The sum over the blocks that the module takes is the same.                *)
LEMMA SlabSum ==
    ASSUME NEW H, IsFiniteSet(H), H \subseteq Addr, \A a \in H : CountedAt(heap, live, a) \in Nat
    PROVE  Slab!MapThenSumSet(Slab!SizeCounted, H) = CountIn(heap, live, H)
<1> DEFINE Rec(f) == f = [s \in SUBSET H |->
                            IF s = {} THEN 0
                            ELSE LET a == CHOOSE b \in s : TRUE IN Slab!SizeCounted(a) + f[s \ {a}]]
           sum == CHOOSE f : Rec(f)
<1>1. \A a : Slab!SizeCounted(a) = CountedAt(heap, live, a)
  BY DEF Slab!SizeCounted, CountedAt, Slab!ZoneOf, PageOf
<1>2. PICK w : w = [s \in SUBSET H |-> CountIn(heap, live, s)]
  OBVIOUS
<1>3. /\ w[{}] = 0
      /\ \A s \in SUBSET H : w[s] = CountIn(heap, live, s)
      /\ \A s \in SUBSET H : \A a \in s : w[s] = CountedAt(heap, live, a) + w[s \ {a}]
  <2>1. /\ CountIn(heap, live, {}) = 0
        /\ \A s \in SUBSET H : \A a \in s : CountIn(heap, live, s) = CountedAt(heap, live, a) + CountIn(heap, live, s \ {a})
    <3>1. Counted(heap, live, H)
      BY DEF Counted
    <3>2. CountsOneByOne(heap, live, H)
      BY ONLY <3>1, CountInFacts
    <3> QED BY <3>2 DEF CountsOneByOne
  <2>2. \A s \in SUBSET H : \A a \in s : s \ {a} \in SUBSET H
    OBVIOUS
  <2> QED BY <1>2, <2>1, <2>2
<1>4. Rec(w)
  <2>1. ASSUME NEW s \in SUBSET H
        PROVE  CountIn(heap, live, s) = IF s = {} THEN 0 ELSE LET a == CHOOSE b \in s : TRUE IN Slab!SizeCounted(a) + w[s \ {a}]
    <3>1. CASE s = {}
      BY <1>3, <3>1
    <3>2. CASE s # {}
      <4>1. PICK a : a = CHOOSE b \in s : TRUE
        OBVIOUS
      <4>2. a \in s
        BY <3>2, <4>1
      <4>3. CountIn(heap, live, s) = Slab!SizeCounted(a) + w[s \ {a}]
        BY <1>1, <1>3, <4>2
      <4> QED BY <3>2, <4>1, <4>3
    <3> QED BY <3>1, <3>2
  <2> QED BY <1>2, <2>1
<1>5. Rec(sum)
  <2> HIDE DEF Rec
  <2> QED BY <1>4
<1> HIDE DEF sum
<1>6. PICK B : B = {s \in SUBSET H : sum[s] = w[s]}
  OBVIOUS
<1>7. ASSUME NEW T \in SUBSET H, \A a \in T : T \ {a} \in B PROVE T \in B
  <2>1. sum[T] = IF T = {} THEN 0
                 ELSE LET a == CHOOSE b \in T : TRUE IN Slab!SizeCounted(a) + sum[T \ {a}]
    BY <1>5
  <2>2. CASE T = {}
    BY <1>3, <1>6, <2>1, <2>2
  <2>3. CASE T # {}
    <3>1. PICK a : a = CHOOSE b \in T : TRUE
      OBVIOUS
    <3>2. a \in T
      BY <2>3, <3>1
    <3>3. sum[T] = Slab!SizeCounted(a) + sum[T \ {a}]
      BY <2>1, <2>3, <3>1
    <3>4. sum[T \ {a}] = w[T \ {a}]
      BY <1>6, <1>7, <3>2
    <3>5. sum[T] = w[T]
      BY <1>1, <1>3, <3>2, <3>3, <3>4
    <3> QED BY <1>6, <3>5
  <2> QED BY <2>2, <2>3
<1>8. H \in B
  <2> HIDE DEF Rec
  <2> QED BY <1>7, SetsBuilt
<1>9. sum[H] = CountIn(heap, live, H)
  BY <1>3, <1>6, <1>8
<1>10. Slab!MapThenSumSet(Slab!SizeCounted, H) = sum[H]
  BY DEF Slab!MapThenSumSet, Slab!MapThenFoldSet, sum
<1> QED BY <1>9, <1>10

LEMMA SlabUsedIsExact ==
    ASSUME SlabInv(heap, live, aside)
    PROVE  Slab!SlabUsedExact
<1>1. PICK g : SlabFits(heap, live, aside.raw, g)
  BY DEF SlabInv
<1>2. UsedFits(heap, live, aside.raw) /\ live \in [Addr -> Nat]
  BY <1>1 DEF SlabInv, SlabFits
<1>3. PICK H : H = Slab!Held \ aside.raw
  OBVIOUS
<1>4. H = {a \in Addr : live[a] > 0 /\ a \notin aside.raw}
  BY <1>3 DEF Slab!Held, Addr
<1>5. IsFiniteSet(H)
  <2>1. PageAt(Pages) \in Nat
    BY SlabNats, PageAtFacts
  <2>2. \A a \in H : a \in Nat /\ a <= PageAt(Pages)
    <3>1. ASSUME NEW a \in Addr PROVE a \in Nat /\ a <= PageAt(Pages)
      <4>1. a \in Nat /\ a < PageAt(Pages)
        BY AddrFacts
      <4> QED BY <2>1, <4>1
    <3> QED BY <1>4, <3>1
  <2>3. H \in SUBSET Nat
    BY <2>2
  <2> QED BY <2>1, <2>2, <2>3, FS_BoundedSetOfNaturals
<1>6. \A a \in H : CountedAt(heap, live, a) \in Nat
  <2>1. ASSUME NEW a \in H PROVE CountedAt(heap, live, a) \in Nat
    <3>1. a \in Addr /\ live[a] > 0 /\ a \notin aside.raw
      BY <1>4
    <3>2. PICK p : p = g.own[PageOf(a)]
      OBVIOUS
    <3>3. CountOf(heap, live, aside.raw, a) \in Nat
      BY ONLY <1>1, <3>1, <3>2, CountIs
    <3> QED BY <3>1, <3>3 DEF CountOf
  <2> QED BY <2>1
<1>7. Slab!MapThenSumSet(Slab!SizeCounted, H) = CountIn(heap, live, H)
  BY <1>4, <1>5, <1>6, SlabSum
<1>8. CountsIn(heap, live, H) = Counts(heap, live, aside.raw)
  <2>1. \A k \in 0..LastAddr : 8 * k \in H <=> (live[8 * k] > 0 /\ 8 * k \notin aside.raw)
    BY <1>4, AddrFacts
  <2> QED BY <2>1 DEF CountsIn, Counts
<1>9. heap.used = CountIn(heap, live, H)
  <2>1. PICK w : w = Counts(heap, live, aside.raw)
    OBVIOUS
  <2>2. w \in [0..LastAddr -> Int]
    BY <1>1, <2>1, CountsAre
  <2>3. PICK z : z = CHOOSE y : Totals(w, y, LastAddr)
    OBVIOUS
  <2>4. Totals(w, z, LastAddr)
    BY <2>2, <2>3, AddrFacts, TotalsExist
  <2>5. heap.used = z[LastAddr]
    BY <1>2, <2>1, <2>4 DEF UsedFits
  <2> QED BY <1>8, <2>1, <2>3, <2>5 DEF CountIn
<1>10. heap.used <= heap.max
  BY <1>2 DEF UsedFits
<1> QED BY <1>3, <1>7, <1>9, <1>10 DEF Slab!SlabUsedExact

-----------------------------------------------------------------------------
(* SumsAlong of pages, as pairs, that lie in the heap and meet nowhere.           *)
PairOk(r) == r \in Pg \X (1..Pages) /\ r[1] + r[2] <= Pages
InPair(r, q) == Between(r[1], r[2], q)

Disjoint(R) ==
    /\ \A r \in R : PairOk(r)
    /\ \A r, t \in R : \A q \in Pg : InPair(r, q) /\ InPair(t, q) => r = t
Tiling(R) == Disjoint(R) /\ \A q \in Pg : \E r \in R : InPair(r, q)

Covered(T) == UNION {Slab!PagesOf(r[1], r[2]) : r \in T}

LEMMA PairPages ==
    ASSUME NEW r, PairOk(r)
    PROVE  /\ Slab!PagesOf(r[1], r[2]) \subseteq Pg /\ IsFiniteSet(Slab!PagesOf(r[1], r[2]))
           /\ Cardinality(Slab!PagesOf(r[1], r[2])) = r[2] /\ r[2] \in Nat
           /\ \A q \in Pg : q \in Slab!PagesOf(r[1], r[2]) <=> InPair(r, q)
<1>1. PICK a, n : a = r[1] /\ n = r[2]
  OBVIOUS
<1>2. Pages \in Nat /\ a \in Nat /\ n \in Nat /\ n > 0 /\ a + n <= Pages
  <2>1. a \in Pg /\ n \in 1..Pages /\ a + n <= Pages
    BY <1>1 DEF PairOk
  <2> QED BY <2>1, SlabNats DEF Pg
<1>3. Slab!PagesOf(a, n) = a..(a + n - 1)
  BY DEF Slab!PagesOf
<1>4. IsFiniteSet(a..(a + n - 1)) /\ Cardinality(a..(a + n - 1)) = n
  <2>1. PICK b \in Int : b = a + n - 1
    BY <1>2
  <2>2. IsFiniteSet(a..b) /\ Cardinality(a..b) = IF a > b THEN 0 ELSE b - a + 1
    BY <1>2, <2>1, FS_Interval
  <2>3. ~(a > b) /\ b - a + 1 = n
    BY <1>2, <2>1
  <2> QED BY <2>1, <2>2, <2>3
<1>5. a..(a + n - 1) \subseteq Pg
  BY <1>2 DEF Pg
<1>6. \A q \in Pg : q \in a..(a + n - 1) <=> InPair(r, q)
  BY <1>1, <1>2 DEF Pg, InPair, Between
<1> QED BY <1>1, <1>2, <1>3, <1>4, <1>5, <1>6

LEMMA PairsFinite ==
    ASSUME NEW R, Disjoint(R)
    PROVE  IsFiniteSet(R)
<1>1. 0 \in Int /\ 1 \in Int /\ Pages \in Int /\ Pages - 1 \in Int
  BY SlabNats
<1>2. IsFiniteSet(Pg) /\ IsFiniteSet(1..Pages)
  BY <1>1, FS_Interval DEF Pg
<1>3. IsFiniteSet(Pg \X (1..Pages))
  BY <1>2, FS_Product
<1>4. R \in SUBSET (Pg \X (1..Pages))
  BY DEF Disjoint, PairOk
<1> QED BY <1>3, <1>4, FS_Subset

LEMMA CoveredGrows ==
    ASSUME NEW R, Disjoint(R), NEW T \in SUBSET R, NEW r \in T
    PROVE  /\ Cardinality(Covered(T)) = Cardinality(Covered(T \ {r})) + r[2]
           /\ Cardinality(Covered(T \ {r})) \in Nat
<1>1. PICK P, Q : P = Slab!PagesOf(r[1], r[2]) /\ Q = Covered(T \ {r})
  OBVIOUS
<1>2. \A t \in R : PairOk(t)
  BY DEF Disjoint
<1>3. /\ P \subseteq Pg /\ IsFiniteSet(P) /\ Cardinality(P) = r[2] /\ r[2] \in Nat
      /\ \A q \in Pg : q \in P <=> InPair(r, q)
  <2>1. PairOk(r)
    BY <1>2
  <2> QED BY <1>1, <2>1, PairPages
<1>4. ASSUME NEW q \in Q PROVE q \in Pg /\ \E t \in R : t # r /\ InPair(t, q)
  <2>1. PICK S \in {Slab!PagesOf(t[1], t[2]) : t \in T \ {r}} : q \in S
    BY <1>1, <1>4 DEF Covered
  <2>2. PICK t \in T \ {r} : S = Slab!PagesOf(t[1], t[2])
    BY <2>1
  <2>3. PairOk(t) /\ t \in R /\ t # r
    BY <1>2, <2>2
  <2>4. q \in Pg /\ InPair(t, q)
    BY <2>1, <2>2, <2>3, PairPages
  <2> QED BY <2>3, <2>4
<1>5. P \cap Q = {}
  <2>1. ASSUME NEW q \in P, q \in Q PROVE FALSE
    <3>1. q \in Pg /\ InPair(r, q)
      BY <1>3, <2>1
    <3>2. PICK t \in R : t # r /\ InPair(t, q)
      BY <1>4, <2>1
    <3> QED BY <3>1, <3>2 DEF Disjoint
  <2> QED BY <2>1
<1>6. IsFiniteSet(Q) /\ Cardinality(Q) \in Nat
  <2>1. IsFiniteSet(Pg)
    <3>1. 0 \in Int /\ Pages - 1 \in Int
      BY SlabNats
    <3> QED BY <3>1, FS_Interval DEF Pg
  <2>2. Q \in SUBSET Pg
    BY <1>4
  <2> QED BY <2>1, <2>2, FS_Subset, FS_CardinalityType
<1>7. Covered(T) = P \cup Q
  <2>1. ASSUME NEW q \in Covered(T) PROVE q \in P \cup Q
    <3>1. PICK S \in {Slab!PagesOf(t[1], t[2]) : t \in T} : q \in S
      BY <2>1 DEF Covered
    <3>2. PICK t \in T : S = Slab!PagesOf(t[1], t[2])
      BY <3>1
    <3>3. CASE t = r
      BY <1>1, <3>1, <3>2, <3>3
    <3>4. CASE t # r
      <4>1. S \in {Slab!PagesOf(u[1], u[2]) : u \in T \ {r}}
        BY <3>2, <3>4
      <4> QED BY <1>1, <3>1, <4>1 DEF Covered
    <3> QED BY <3>3, <3>4
  <2>2. P \subseteq Covered(T)
    <3>1. P \in {Slab!PagesOf(t[1], t[2]) : t \in T}
      BY <1>1
    <3> QED BY <3>1 DEF Covered
  <2>3. Q \subseteq Covered(T)
    <3>1. {Slab!PagesOf(t[1], t[2]) : t \in T \ {r}} \subseteq {Slab!PagesOf(t[1], t[2]) : t \in T}
      OBVIOUS
    <3> QED BY <1>1, <3>1 DEF Covered
  <2> QED BY <2>1, <2>2, <2>3
<1>8. Cardinality(P \cup Q) = Cardinality(P) + Cardinality(Q)
  <2>1. Cardinality(P \cup Q) = Cardinality(P) + Cardinality(Q) - Cardinality(P \cap Q)
    BY <1>3, <1>6, FS_Union
  <2>2. Cardinality(P \cap Q) = 0
    BY <1>5, FS_EmptySet
  <2> QED BY <1>3, <1>6, <2>1, <2>2
<1> QED BY <1>1, <1>3, <1>6, <1>7, <1>8

(* The lengths of runs that tile the heap add up to its pages.               *)
LEMMA TilingSum ==
    ASSUME NEW R, Tiling(R)
    PROVE  /\ Covered(R) = Pg
           /\ Slab!FoldSet(LAMBDA r, sum : sum + r[2], 0, R) = Pages
<1> DEFINE Rec(f) == f = [s \in SUBSET R |->
                            IF s = {} THEN 0
                            ELSE LET x == CHOOSE y \in s : TRUE IN f[s \ {x}] + x[2]]
           total == CHOOSE f : Rec(f)
<1>1. Disjoint(R) /\ IsFiniteSet(R) /\ \A r \in R : PairOk(r)
  BY PairsFinite DEF Tiling, Disjoint
<1>2. Covered(R) = Pg
  <2>1. ASSUME NEW q \in Pg PROVE q \in Covered(R)
    <3>1. PICK r \in R : InPair(r, q)
      BY DEF Tiling
    <3>2. q \in Slab!PagesOf(r[1], r[2])
      BY <1>1, <3>1, PairPages
    <3>3. Slab!PagesOf(r[1], r[2]) \in {Slab!PagesOf(t[1], t[2]) : t \in R}
      OBVIOUS
    <3> QED BY <3>2, <3>3 DEF Covered
  <2>2. ASSUME NEW q \in Covered(R) PROVE q \in Pg
    <3>1. PICK S \in {Slab!PagesOf(t[1], t[2]) : t \in R} : q \in S
      BY <2>2 DEF Covered
    <3>2. PICK r \in R : S = Slab!PagesOf(r[1], r[2])
      BY <3>1
    <3>3. S \subseteq Pg
      BY <1>1, <3>2, PairPages
    <3> QED BY <3>1, <3>3
  <2> QED BY <2>1, <2>2
<1>3. PICK w : w = [s \in SUBSET R |-> Cardinality(Covered(s))]
  OBVIOUS
<1>4. /\ w[{}] = 0 /\ w[R] = Pages
      /\ \A s \in SUBSET R : \A x \in s : w[s] = w[s \ {x}] + x[2]
  <2>1. Covered({}) = {}
    BY DEF Covered
  <2>2. w[{}] = 0
    BY <1>3, <2>1, FS_EmptySet
  <2>3. w[R] = Pages
    <3>1. 0 \in Int /\ Pages - 1 \in Int /\ Pages \in Nat /\ Pages # 0
      BY SlabNats
    <3>2. Cardinality(0..(Pages - 1)) = IF 0 > Pages - 1 THEN 0 ELSE Pages - 1 - 0 + 1
      BY <3>1, FS_Interval
    <3>3. Cardinality(Pg) = Pages
      BY <3>1, <3>2 DEF Pg
    <3> QED BY <1>2, <1>3, <3>3
  <2>4. ASSUME NEW s \in SUBSET R, NEW x \in s PROVE w[s] = w[s \ {x}] + x[2]
    <3>1. Cardinality(Covered(s)) = Cardinality(Covered(s \ {x})) + x[2]
      BY <1>1, CoveredGrows
    <3>2. s \ {x} \in SUBSET R
      OBVIOUS
    <3> QED BY <1>3, <3>1, <3>2
  <2> QED BY <2>2, <2>3, <2>4
<1>5. Rec(w)
  <2>1. ASSUME NEW s \in SUBSET R
        PROVE  w[s] = IF s = {} THEN 0 ELSE LET x == CHOOSE y \in s : TRUE IN w[s \ {x}] + x[2]
    <3>1. CASE s = {}
      BY <1>4, <3>1
    <3>2. CASE s # {}
      <4>1. PICK x : x = CHOOSE y \in s : TRUE
        OBVIOUS
      <4>2. x \in s
        BY <3>2, <4>1
      <4>3. w[s] = w[s \ {x}] + x[2]
        BY <1>4, <4>2
      <4> QED BY <3>2, <4>1, <4>3
    <3> QED BY <3>1, <3>2
  <2>2. w = [s \in SUBSET R |-> w[s]]
    BY <1>3
  <2> QED BY <2>1, <2>2
<1>6. Rec(total)
  <2> HIDE DEF Rec
  <2> QED BY <1>5
<1> HIDE DEF total
<1>7. PICK B : B = {s \in SUBSET R : total[s] = w[s]}
  OBVIOUS
<1>8. ASSUME NEW T \in SUBSET R, \A x \in T : T \ {x} \in B PROVE T \in B
  <2>1. total[T] = IF T = {} THEN 0 ELSE LET x == CHOOSE y \in T : TRUE IN total[T \ {x}] + x[2]
    BY <1>6
  <2>2. CASE T = {}
    BY <1>4, <1>7, <2>1, <2>2
  <2>3. CASE T # {}
    <3>1. PICK x : x = CHOOSE y \in T : TRUE
      OBVIOUS
    <3>2. x \in T
      BY <2>3, <3>1
    <3>3. total[T] = total[T \ {x}] + x[2]
      BY <2>1, <2>3, <3>1
    <3>4. total[T \ {x}] = w[T \ {x}]
      BY <1>7, <1>8, <3>2
    <3>5. total[T] = w[T]
      BY <1>4, <3>2, <3>3, <3>4
    <3> QED BY <1>7, <3>5
  <2> QED BY <2>2, <2>3
<1>9. R \in B
  <2> HIDE DEF Rec
  <2> QED BY <1>1, <1>8, SetsBuilt
<1>10. total[R] = Pages
  BY <1>4, <1>7, <1>9
<1>11. Slab!FoldSet(LAMBDA r, sum : sum + r[2], 0, R) = total[R]
  BY DEF Slab!FoldSet, Slab!MapThenFoldSet, total
<1> QED BY <1>2, <1>10, <1>11

-----------------------------------------------------------------------------
(* The runs of slab.c: the free ones and those that have an owner.           *)
FreePairs(L) == {<<L[k].first, L[k].count>> : k \in DOMAIN L}
OwnedPairs(g) == {<<p, g.len[p]>> : p \in {r \in Pg : g.kind[r] # "none"}}

LEMMA OwnedPair ==
    ASSUME NEW x, NEW lv, NEW raw, NEW g, SlabFits(x, lv, raw, g), NEW p \in Pg, g.kind[p] # "none",
           NEW r, r = <<p, g.len[p]>>
    PROVE  PairOk(r) /\ \A q \in Pg : InPair(r, q) <=> g.own[q] = p
<1>1. PICK n : n = g.len[p]
  OBVIOUS
<1>2. n \in Nat /\ n > 0 /\ p + n <= Pages /\ \A q \in Pg : g.own[q] = p <=> Between(p, n, q)
  BY <1>1 DEF SlabFits, PagesParted, Owners
<1>3. p \in Nat /\ Pages \in Nat
  BY PgFacts
<1>4. r = <<p, n>> /\ r[1] = p /\ r[2] = n /\ n \in 1..Pages
  BY <1>1, <1>2, <1>3
<1> QED BY <1>2, <1>4 DEF PairOk, InPair

LEMMA FreePair ==
    ASSUME NEW L, Ordered(L), NEW k \in DOMAIN L, NEW r, r = <<L[k].first, L[k].count>>
    PROVE  PairOk(r) /\ \A q \in Pg : InPair(r, q) <=> InRun(L[k], q)
<1>1. PICK a, n : a = L[k].first /\ n = L[k].count
  OBVIOUS
<1>2. a \in 0..Pages /\ n \in 0..Pages /\ n > 0 /\ a + n <= Pages
  BY <1>1 DEF Ordered, RunOk, FreeRun, EndOf
<1>3. Pages \in Nat
  BY PgFacts
<1>4. r = <<a, n>> /\ r[1] = a /\ r[2] = n /\ a \in Pg /\ n \in 1..Pages
  BY <1>1, <1>2, <1>3 DEF Pg
<1> QED BY <1>1, <1>2, <1>4 DEF PairOk, InPair, InRun, Between

LEMMA PairsTile ==
    ASSUME NEW x, NEW lv, NEW raw, NEW g, SlabFits(x, lv, raw, g)
    PROVE  Tiling(FreePairs(x.pages) \cup OwnedPairs(g))
<1>1. PICK L : L = x.pages
  OBVIOUS
<1>2. PICK R : R = FreePairs(L) \cup OwnedPairs(g)
  OBVIOUS
<1>3. Ordered(L) /\ PagesParted(L, g) /\ Pg \subseteq Int /\ g.own \in [Pg -> -1..(Pages - 1)]
  BY <1>1, PgFacts DEF SlabFits, Owners
<1>4. ASSUME NEW r \in FreePairs(L)
      PROVE  PairOk(r) /\ \E k \in DOMAIN L : r = <<L[k].first, L[k].count>> /\ \A q \in Pg : InPair(r, q) <=> InRun(L[k], q)
  BY <1>3, FreePair DEF FreePairs
<1>5. ASSUME NEW r \in OwnedPairs(g)
      PROVE  PairOk(r) /\ \E p \in Pg : r = <<p, g.len[p]>> /\ \A q \in Pg : InPair(r, q) <=> g.own[q] = p
  <2>1. PICK p \in {u \in Pg : g.kind[u] # "none"} : r = <<p, g.len[p]>>
    BY DEF OwnedPairs
  <2> QED BY <2>1, OwnedPair
<1>6. ASSUME NEW r \in FreePairs(L), NEW q \in Pg, InPair(r, q) PROVE g.own[q] = -1
  BY <1>3, <1>4, <1>6 DEF PagesParted, IsFree
<1>7. ASSUME NEW r \in OwnedPairs(g), NEW q \in Pg, InPair(r, q) PROVE g.own[q] # -1
  BY <1>5, <1>7, PgFacts
<1>8. ASSUME NEW r \in FreePairs(L), NEW t \in FreePairs(L), NEW q \in Pg, InPair(r, q), InPair(t, q) PROVE r = t
  <2>1. PICK k \in DOMAIN L : r = <<L[k].first, L[k].count>> /\ InRun(L[k], q)
    BY <1>4, <1>8
  <2>2. PICK j \in DOMAIN L : t = <<L[j].first, L[j].count>> /\ InRun(L[j], q)
    BY <1>4, <1>8
  <2>3. j = k
    <3>1. ASSUME NEW m \in DOMAIN L, NEW n \in DOMAIN L, InRun(L[m], q), InRun(L[n], q), m < n PROVE FALSE
      <4>1. EndOf(L[m]) < L[n].first
        BY <1>3, <3>1 DEF Ordered
      <4>2. PICK e, f : e = EndOf(L[m]) /\ f = L[n].first
        OBVIOUS
      <4>3. q < e /\ f <= q /\ e < f
        BY <3>1, <4>1, <4>2 DEF InRun, EndOf
      <4>4. q \in Int /\ e \in Int /\ f \in Int
        <5>1. RunOk(L[m]) /\ RunOk(L[n])
          BY <1>3, <3>1 DEF Ordered
        <5> QED BY <1>3, <4>2, <5>1, SlabNats DEF RunOk, FreeRun, EndOf
      <4> QED BY <4>3, <4>4
    <3>2. j \in Nat /\ k \in Nat
      <4>1. DOMAIN L = 1..Len(L)
        BY <1>3 DEF Ordered
      <4> QED BY <4>1
    <3>3. ~(j < k) /\ ~(k < j)
      BY <2>1, <2>2, <3>1
    <3> QED BY <3>2, <3>3
  <2> QED BY <2>1, <2>2, <2>3
<1>9. ASSUME NEW r \in OwnedPairs(g), NEW t \in OwnedPairs(g), NEW q \in Pg, InPair(r, q), InPair(t, q) PROVE r = t
  <2>1. PICK p \in Pg : r = <<p, g.len[p]>> /\ g.own[q] = p
    BY <1>5, <1>9
  <2>2. PICK u \in Pg : t = <<u, g.len[u]>> /\ g.own[q] = u
    BY <1>5, <1>9
  <2> QED BY <2>1, <2>2
<1>10. Disjoint(R)
  <2>1. \A r \in R : PairOk(r)
    BY <1>2, <1>4, <1>5
  <2>2. ASSUME NEW r \in R, NEW t \in R, NEW q \in Pg, InPair(r, q), InPair(t, q) PROVE r = t
    <3>1. CASE r \in FreePairs(L) /\ t \in FreePairs(L)
      BY <1>8, <2>2, <3>1
    <3>2. CASE r \in OwnedPairs(g) /\ t \in OwnedPairs(g)
      BY <1>9, <2>2, <3>2
    <3>3. CASE r \in FreePairs(L) /\ t \in OwnedPairs(g)
      BY <1>6, <1>7, <2>2, <3>3
    <3>4. CASE r \in OwnedPairs(g) /\ t \in FreePairs(L)
      BY <1>6, <1>7, <2>2, <3>4
    <3> QED BY <1>2, <3>1, <3>2, <3>3, <3>4
  <2> QED BY <2>1, <2>2 DEF Disjoint
<1>11. ASSUME NEW q \in Pg PROVE \E r \in R : InPair(r, q)
  <2>1. CASE g.own[q] = -1
    <3>1. PICK k \in DOMAIN L : InRun(L[k], q)
      BY <1>3, <2>1 DEF PagesParted, IsFree
    <3>2. PICK r : r = <<L[k].first, L[k].count>>
      OBVIOUS
    <3>3. InPair(r, q)
      BY <1>3, <3>1, <3>2, FreePair
    <3>4. r \in R
      BY <1>2, <3>2 DEF FreePairs
    <3> QED BY <3>3, <3>4
  <2>2. CASE g.own[q] # -1
    <3>1. PICK p : p = g.own[q]
      OBVIOUS
    <3>2. p \in Pg /\ g.kind[p] # "none"
      BY <1>3, <2>2, <3>1, PgFacts DEF PagesParted
    <3>3. PICK r : r = <<p, g.len[p]>>
      OBVIOUS
    <3>4. InPair(r, q)
      BY <3>1, <3>2, <3>3, OwnedPair
    <3>5. r \in R
      BY <1>2, <3>2, <3>3 DEF OwnedPairs
    <3> QED BY <3>4, <3>5
  <2> QED BY <2>1, <2>2
<1>12. Tiling(R)
  BY <1>10, <1>11 DEF Tiling
<1> QED BY <1>1, <1>2, <1>12

LEMMA LargeOnePage == Slab!LargePages(PageSize) = 1
<1>1. PageSize \in Nat \ {0}
  BY SlabNats
<1>2. (PageSize + PageSize - 1) \div PageSize = 1
  <2>1. PICK a \in Nat : a = PageSize + PageSize - 1
    BY <1>1
  <2>2. 1 * PageSize <= a /\ a < 1 * PageSize + PageSize
    BY <1>1, <2>1
  <2>3. a \div PageSize = 1
    BY <1>1, <2>2, DivIs
  <2> QED BY <2>1, <2>3
<1>3. PageSize \div PageSize = 1
  <2>1. 1 * PageSize <= PageSize /\ PageSize < 1 * PageSize + PageSize
    BY <1>1
  <2> QED BY <1>1, <2>1, DivIs
<1>4. 1 * PageSize = PageSize
  BY <1>1
<1> QED BY <1>2, <1>3, <1>4 DEF Slab!LargePages, Slab!UpTo

(* The large blocks, and the pages that a caller has.                        *)
BigBlocks == {b \in Slab!Held : b \in aside.raw \/ heap.usage[b \div PageSize].type = "large"}

LEMMA BigBlocksOwned ==
    ASSUME NEW g, SlabFits(heap, live, aside.raw, g)
    PROVE  {<<a \div PageSize, Slab!LargePages(live[a])>> : a \in BigBlocks}
           = {<<p, g.len[p]>> : p \in {r \in Pg : g.kind[r] \in {"large", "raw"}}}
<1>1. ASSUME NEW a \in BigBlocks
      PROVE  \E p \in Pg : /\ g.kind[p] \in {"large", "raw"} /\ p = a \div PageSize
                           /\ g.len[p] = Slab!LargePages(live[a])
  <2>1. a \in Addr /\ live[a] > 0
    BY <1>1 DEF BigBlocks, Slab!Held, Addr
  <2>2. PICK p \in Pg : /\ g.own[PageOf(a)] = p
                        /\ (g.kind[p] = "zone" /\ a \notin aside.raw) \/ (g.kind[p] \in {"large", "raw"} /\ a = PageAt(p))
                        /\ (g.kind[p] = "raw" <=> a \in aside.raw)
    BY <2>1, OwnerOf
  <2>3. g.kind[p] # "zone"
    <3>1. SUFFICES ASSUME g.kind[p] = "zone" PROVE FALSE
      OBVIOUS
    <3>2. a \notin aside.raw
      BY <2>2, <3>1
    <3>3. heap.usage[PageOf(a)].type = "large"
      BY <1>1, <3>2 DEF BigBlocks, PageOf
    <3>4. PICK u : u = g.own[PageOf(a)]
      OBVIOUS
    <3>5. g.kind[u] = "zone" => heap.usage[PageOf(a)].type = "small"
      BY <2>1, <3>2, <3>4, CountIs
    <3> QED BY <2>2, <3>1, <3>3, <3>4, <3>5
  <2>4. a = PageAt(p) /\ g.kind[p] \in {"large", "raw"}
    BY <2>2, <2>3
  <2>5. PageOf(a) = p
    BY <2>4, PgFacts, PageAtFacts
  <2>6. g.len[p] = Slab!LargePages(live[a])
    <3>1. CASE g.kind[p] = "large"
      BY <2>4, <3>1 DEF SlabFits, UsesFit
    <3>2. CASE g.kind[p] = "raw"
      <4>1. g.len[p] = 1 /\ live[a] = PageSize
        BY <2>4, <3>2 DEF SlabFits, UsesFit
      <4>2. Slab!LargePages(PageSize) = 1
        BY LargeOnePage
      <4> QED BY <4>1, <4>2
    <3> QED BY <2>4, <3>1, <3>2
  <2> QED BY <2>4, <2>5, <2>6 DEF PageOf
<1>2. ASSUME NEW p \in Pg, g.kind[p] \in {"large", "raw"}
      PROVE  \E a \in BigBlocks : p = a \div PageSize /\ g.len[p] = Slab!LargePages(live[a])
  <2>1. PICK a : a = PageAt(p)
    OBVIOUS
  <2>2. a \in Addr /\ PageOf(a) = p
    BY <2>1, PgFacts, PageAtFacts, AddrFacts
  <2>3. CASE g.kind[p] = "large"
    <3>1. live[a] > 0 /\ g.len[p] = Slab!LargePages(live[a]) /\ heap.usage[p].type = "large"
      BY <2>1, <2>3 DEF SlabFits, UsesFit
    <3>2. a \in BigBlocks
      BY <2>2, <3>1 DEF BigBlocks, Slab!Held, Addr, PageOf
    <3> QED BY <2>2, <3>1, <3>2 DEF PageOf
  <2>4. CASE g.kind[p] = "raw"
    <3>1. g.len[p] = 1 /\ live[a] = PageSize /\ a \in aside.raw
      BY <2>1, <2>4 DEF SlabFits, UsesFit
    <3>2. PageSize > 0 /\ Slab!LargePages(PageSize) = 1
      BY LargeOnePage, SlabNats
    <3>3. a \in BigBlocks
      BY <2>2, <3>1, <3>2 DEF BigBlocks, Slab!Held, Addr
    <3> QED BY <2>2, <3>1, <3>2, <3>3 DEF PageOf
  <2> QED BY <1>2, <2>3, <2>4
<1> QED BY <1>1, <1>2

(* The zones, in use and spare.                                              *)
LEMMA ZonesOwned ==
    ASSUME NEW g, SlabFits(heap, live, aside.raw, g)
    PROVE  {<<p, ZonePages>> : p \in Slab!ZonesAt \cup Slab!Range(heap.spare)}
           = {<<p, g.len[p]>> : p \in {r \in Pg : g.kind[r] \in {"zone", "spare"}}}
<1>1. ASSUME NEW p \in Pg, g.kind[p] \in {"zone", "spare"} PROVE g.len[p] = ZonePages
  BY <1>1, OwnedPages
<1>2. ASSUME NEW p \in Pg, g.kind[p] = "zone" PROVE p \in Slab!ZonesAt
  <2>1. PICK z : z = heap.zone[p]
    OBVIOUS
  <2>2. z \in ZoneRec /\ ZoneOk(z, p, live)
    BY <1>2, <2>1, ZoneIs
  <2>3. z.size # 0
    BY <2>2, ZoneKindFacts DEF ZoneOk
  <2>4. z # Slab!NoZone
    BY <2>3 DEF Slab!NoZone
  <2> QED BY <2>1, <2>4, PgFacts DEF Slab!ZonesAt
<1>3. ASSUME NEW p \in Slab!ZonesAt PROVE p \in Pg /\ g.kind[p] = "zone"
  BY PgFacts DEF Slab!ZonesAt, SlabFits, UsesFit
<1>4. Slab!Range(heap.spare) = Elems(heap.spare) /\ Elems(heap.spare) \subseteq Pg
  <2>1. heap.spare \in Seq(Pg)
    BY StateTypes DEF SlabFits
  <2> QED BY <2>1, ElemsType DEF Slab!Range, Elems
<1>5. \A p \in Pg : p \in Slab!Range(heap.spare) <=> g.kind[p] = "spare"
  BY <1>4 DEF SlabFits, UsesFit
<1>6. Slab!ZonesAt \cup Slab!Range(heap.spare) = {r \in Pg : g.kind[r] \in {"zone", "spare"}}
  BY <1>2, <1>3, <1>4, <1>5
<1> QED BY <1>1, <1>6

LEMMA SlabTiles ==
    ASSUME SlabInv(heap, live, aside)
    PROVE  Slab!PagesTile
<1>1. PICK g : SlabFits(heap, live, aside.raw, g)
  BY DEF SlabInv
<1>2. PICK L : L = heap.pages
  OBVIOUS
<1>3. Ordered(L)
  BY <1>1, <1>2 DEF SlabFits
<1>4. PICK Z : Z = {<<p, ZonePages>> : p \in Slab!ZonesAt \cup Slab!Range(heap.spare)}
  OBVIOUS
<1>5. PICK B : B = {<<a \div PageSize, Slab!LargePages(live[a])>> : a \in BigBlocks}
  OBVIOUS
<1>6. PICK R : R = FreePairs(L) \cup {<<0, UsagePages>>} \cup Z \cup B
  OBVIOUS
<1>7. {<<0, UsagePages>>} \cup Z \cup B = OwnedPairs(g)
  <2>1. {<<0, UsagePages>>} = {<<p, g.len[p]>> : p \in {r \in Pg : g.kind[r] = "usage"}}
    BY <1>1, PgFacts DEF SlabFits, UsesFit
  <2>2. Z = {<<p, g.len[p]>> : p \in {r \in Pg : g.kind[r] \in {"zone", "spare"}}}
    BY <1>1, <1>4, ZonesOwned
  <2>3. B = {<<p, g.len[p]>> : p \in {r \in Pg : g.kind[r] \in {"large", "raw"}}}
    BY <1>1, <1>5, BigBlocksOwned
  <2>4. \A r \in Pg : g.kind[r] # "none" <=> \/ g.kind[r] = "usage" \/ g.kind[r] \in {"zone", "spare"}
                                             \/ g.kind[r] \in {"large", "raw"}
    BY <1>1 DEF SlabFits, Owners, Kinds
  <2> QED BY <2>1, <2>2, <2>3, <2>4 DEF OwnedPairs
<1>8. Tiling(R)
  <2>1. Tiling(FreePairs(heap.pages) \cup OwnedPairs(g))
    BY <1>1, PairsTile
  <2>2. R = FreePairs(L) \cup OwnedPairs(g)
    BY <1>6, <1>7
  <2> QED BY <1>2, <2>1, <2>2
<1>9. Covered(R) = Pg /\ Slab!FoldSet(LAMBDA r, sum : sum + r[2], 0, R) = Pages
  BY <1>8, TilingSum
<1>10. ASSUME NEW k \in 1..(Len(L) - 1) PROVE L[k].first + L[k].count < L[k + 1].first
  <2>1. DOMAIN L = 1..Len(L) /\ Len(L) \in Nat
    BY <1>3 DEF Ordered
  <2>2. k \in DOMAIN L /\ k + 1 \in DOMAIN L /\ k < k + 1
    BY <2>1
  <2> QED BY <1>3, <2>2 DEF Ordered, EndOf
<1>11. R = {<<heap.pages[k].first, heap.pages[k].count>> : k \in DOMAIN heap.pages}
           \cup {<<0, UsagePages>>}
           \cup {<<p, ZonePages>> : p \in Slab!ZonesAt \cup Slab!Range(heap.spare)}
           \cup {<<a \div PageSize, Slab!LargePages(live[a])>> :
                    a \in {b \in Slab!Held : b \in aside.raw \/ heap.usage[b \div PageSize].type = "large"}}
  BY <1>2, <1>4, <1>5, <1>6 DEF FreePairs, BigBlocks
<1>12. UNION {Slab!PagesOf(r[1], r[2]) : r \in R} = Slab!Page
  BY <1>9, PgFacts DEF Covered
<1> QED BY <1>2, <1>9, <1>10, <1>11, <1>12 DEF Slab!PagesTile
=============================================================================
