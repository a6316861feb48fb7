-------------------------- MODULE RtObjectsProofs --------------------------
(***************************************************************************)
(* What message queues, memory pools, mutexes and events promise, for any   *)
(* number of threads, objects, cells and blocks and any timeouts: first what *)
(* is in the queues and pools, then who waits for what.                     *)
(***************************************************************************)
EXTENDS RtObjects, RtKernelProofs

-----------------------------------------------------------------------------
(* The cells of a message queue.  H are the threads that copy a message into *)
(* or out of a cell of the queue.                                            *)
QueueOf == [free : Seq(Cell), queue : Seq(Cell), text : [Cell -> Msg], entry : Nat]

Distinct(b, H, c) ==
    /\ IsOnce(b.free) /\ IsOnce(b.queue)
    /\ Elems(b.free) \cap Elems(b.queue) = {}
    /\ \A u \in H : c[u] \in Cell /\ c[u] \notin Elems(b.free) /\ c[u] \notin Elems(b.queue)
    /\ \A u, w \in H : c[u] = c[w] => u = w

Complete(b, H, c) ==
    /\ \A n \in Cell : n \in Elems(b.free) \/ n \in Elems(b.queue) \/ \E u \in H : c[u] = n
    /\ IsFiniteSet(H)
    /\ MaxMsgs = Len(b.free) + Len(b.queue) + Cardinality(H)
    /\ b.entry = Len(b.queue)

(* A receiver copies the message that it took off the queue. *)
Copied(b, H, c, f) == \A u \in H : f[u].call = "mq_recv" => b.text[c[u]] = f[u].msg

CellsSound(b, H, c, f) ==
    b \in QueueOf /\ Distinct(b, H, c) /\ Complete(b, H, c) /\ Copied(b, H, c, f)

(* What the threads of H copy stays in their hands. *)
Kept(H, c, f, d, g) == \A u \in H : d[u] = c[u] /\ g[u] = f[u]

(* The messages in the queue. *)
Texts(b) == [i \in DOMAIN b.queue |-> b.text[b.queue[i]]]

LEMMA TextsType ==
    ASSUME NEW b \in QueueOf
    PROVE  Texts(b) \in Seq(Msg) /\ Len(Texts(b)) = Len(b.queue)
<1>1. /\ b.queue \in Seq(Cell) /\ b.text \in [Cell -> Msg] /\ Len(b.queue) \in Nat
      /\ DOMAIN b.queue = 1..Len(b.queue)
      /\ \A i \in 1..Len(b.queue) : b.queue[i] \in Cell
  BY DEF QueueOf
<1>2. Texts(b) \in [1..Len(b.queue) -> Msg]
  BY <1>1 DEF Texts
<1> QED BY <1>1, <1>2

(* Counting the threads that copy. *)
LEMMA OneMore ==
    ASSUME NEW H, IsFiniteSet(H), NEW t, t \notin H
    PROVE  IsFiniteSet(H \cup {t}) /\ Cardinality(H \cup {t}) = Cardinality(H) + 1
           /\ Cardinality(H) \in Nat
BY FS_AddElement, FS_CardinalityType

LEMMA OneLess ==
    ASSUME NEW H, IsFiniteSet(H), NEW t \in H
    PROVE  IsFiniteSet(H \ {t}) /\ Cardinality(H \ {t}) = Cardinality(H) - 1
           /\ Cardinality(H) \in Nat /\ Cardinality(H) > 0
<1>1. IsFiniteSet(H \ {t}) /\ Cardinality(H \ {t}) = Cardinality(H) - 1
  BY FS_RemoveElement
<1>2. Cardinality(H) \in Nat /\ Cardinality(H \ {t}) \in Nat
  BY <1>1, FS_CardinalityType
<1> QED BY <1>1, <1>2

LEMMA Shifted ==
    \A p, q, n \in Nat : /\ p + q + n = (p - 1) + q + (n + 1)
                         /\ p + q + n = p + (q - 1) + (n + 1)
                         /\ p + q + n = (p + 1) + q + (n - 1)
                         /\ p + q + n = p + (q + 1) + (n - 1)
                         /\ p + q + n = (p - 1) + (q + 1) + n
                         /\ p + q + n = (q + p) + 0 + n
                         /\ p > 0 \/ n > 0 => q < p + q + n
OBVIOUS

(* A sender takes a cell off the free list. *)
LEMMA TakeFreeSound ==
    ASSUME NEW b, NEW H, NEW c, NEW f, CellsSound(b, H, c, f), b.free # <<>>,
           NEW t, t \notin H, NEW d, NEW g,
           Kept(H, c, f, d, g),
           d[t] = Head(b.free), g[t].call # "mq_recv"
    PROVE  /\ CellsSound(TakeFree(b), H \cup {t}, d, g)
           /\ d[t] \in Cell
           /\ Texts(TakeFree(b)) = Texts(b)
<1> USE DEF Kept
<1> DEFINE r == TakeFree(b)
<1>1. b.free \in Seq(Cell) /\ b.queue \in Seq(Cell) /\ b.entry \in Nat /\ b.text \in [Cell -> Msg]
  BY DEF CellsSound, QueueOf
<1>2. /\ Tail(b.free) \in Seq(Cell) /\ Len(Tail(b.free)) = Len(b.free) - 1 /\ Head(b.free) \in Cell
      /\ Elems(b.free) = {Head(b.free)} \cup Elems(Tail(b.free))
      /\ IsOnce(b.free) => IsOnce(Tail(b.free)) /\ Head(b.free) \notin Elems(Tail(b.free))
  BY <1>1, TailFacts
<1>3. /\ r \in QueueOf /\ r.free = Tail(b.free) /\ r.queue = b.queue /\ r.text = b.text
      /\ r.entry = b.entry
  BY <1>2 DEF CellsSound, QueueOf, TakeFree
<1> HIDE DEF r
<1>4. Distinct(r, H \cup {t}, d)
  BY <1>2, <1>3 DEF CellsSound, Distinct
<1>5. Complete(r, H \cup {t}, d)
  <2>1. /\ \A n \in Cell : n \in Elems(b.free) \/ n \in Elems(b.queue) \/ \E u \in H : c[u] = n
        /\ IsFiniteSet(H) /\ MaxMsgs = Len(b.free) + Len(b.queue) + Cardinality(H)
        /\ b.entry = Len(b.queue)
    BY DEF CellsSound, Complete
  <2>2. IsFiniteSet(H \cup {t}) /\ Cardinality(H \cup {t}) = Cardinality(H) + 1
        /\ Cardinality(H) \in Nat
    BY <2>1, OneMore
  <2>3. MaxMsgs = Len(r.free) + Len(r.queue) + Cardinality(H \cup {t})
    <3>1. /\ Len(r.free) = Len(b.free) - 1 /\ Len(r.queue) = Len(b.queue)
          /\ Len(b.free) \in Nat /\ Len(b.queue) \in Nat
      BY <1>1, <1>2, <1>3
    <3>2. /\ MaxMsgs = Len(b.free) + Len(b.queue) + Cardinality(H) /\ Cardinality(H) \in Nat
          /\ Cardinality(H \cup {t}) = Cardinality(H) + 1
      BY <2>1, <2>2
    <3>3. Len(b.free) + Len(b.queue) + Cardinality(H)
             = (Len(b.free) - 1) + Len(b.queue) + (Cardinality(H) + 1)
      BY <3>1, <3>2, Shifted
    <3> QED BY <3>1, <3>2, <3>3, Zenon
  <2>4. \A n \in Cell : n \in Elems(r.free) \/ n \in Elems(r.queue) \/ \E u \in H \cup {t} : d[u] = n
    BY <2>1, <1>2, <1>3
  <2> QED BY <2>1, <2>2, <2>3, <2>4, <1>3 DEF Complete
<1>6. Copied(r, H \cup {t}, d, g)
  BY <1>3 DEF CellsSound, Copied
<1> QED BY <1>2, <1>3, <1>4, <1>5, <1>6 DEF CellsSound, Texts, r

(* A receiver takes the first cell of the queue. *)
LEMMA TakeHeadSound ==
    ASSUME NEW b, NEW H, NEW c, NEW f, CellsSound(b, H, c, f), b.entry # 0,
           NEW t, t \notin H, NEW d, NEW g,
           Kept(H, c, f, d, g),
           d[t] = Head(b.queue), g[t].msg = b.text[Head(b.queue)]
    PROVE  /\ CellsSound(TakeHead(b), H \cup {t}, d, g)
           /\ d[t] \in Cell
           /\ Texts(b) # <<>> /\ b.text[Head(b.queue)] = Head(Texts(b))
           /\ b.text[Head(b.queue)] \in Msg
           /\ Texts(TakeHead(b)) = Tail(Texts(b))
<1> USE DEF Kept
<1> DEFINE r == TakeHead(b)
<1>1. /\ b.free \in Seq(Cell) /\ b.queue \in Seq(Cell) /\ b.entry \in Nat /\ b.text \in [Cell -> Msg]
      /\ b.entry = Len(b.queue) /\ b \in QueueOf
  BY DEF CellsSound, QueueOf, Complete
<1>2. b.queue # <<>>
  BY <1>1
<1>3. /\ Tail(b.queue) \in Seq(Cell) /\ Len(Tail(b.queue)) = Len(b.queue) - 1 /\ Head(b.queue) \in Cell
      /\ Elems(b.queue) = {Head(b.queue)} \cup Elems(Tail(b.queue))
      /\ IsOnce(b.queue) => IsOnce(Tail(b.queue)) /\ Head(b.queue) \notin Elems(Tail(b.queue))
  BY <1>1, <1>2, TailFacts
<1>4. r.free = b.free /\ r.queue = Tail(b.queue) /\ r.text = b.text /\ r.entry = b.entry - 1
      /\ r = [b EXCEPT !.queue = Tail(b.queue), !.entry = b.entry - 1]
  BY <1>1 DEF QueueOf, TakeHead
<1>5. r \in QueueOf
  <2>1. b.entry - 1 \in Nat
    BY <1>1
  <2> HIDE DEF r
  <2> QED BY <2>1, <1>1, <1>3, <1>4 DEF QueueOf
<1> HIDE DEF r
<1>6. Distinct(r, H \cup {t}, d)
  BY <1>3, <1>4 DEF CellsSound, Distinct
<1>7. Complete(r, H \cup {t}, d)
  <2>1. /\ \A n \in Cell : n \in Elems(b.free) \/ n \in Elems(b.queue) \/ \E u \in H : c[u] = n
        /\ IsFiniteSet(H) /\ MaxMsgs = Len(b.free) + Len(b.queue) + Cardinality(H)
    BY DEF CellsSound, Complete
  <2>2. IsFiniteSet(H \cup {t}) /\ Cardinality(H \cup {t}) = Cardinality(H) + 1
        /\ Cardinality(H) \in Nat
    BY <2>1, OneMore
  <2>3. MaxMsgs = Len(r.free) + Len(r.queue) + Cardinality(H \cup {t}) /\ r.entry = Len(r.queue)
    <3>1. /\ Len(r.free) = Len(b.free) /\ Len(r.queue) = Len(b.queue) - 1
          /\ Len(b.free) \in Nat /\ Len(b.queue) \in Nat
          /\ r.entry = Len(b.queue) - 1
      BY <1>1, <1>3, <1>4
    <3>2. /\ MaxMsgs = Len(b.free) + Len(b.queue) + Cardinality(H) /\ Cardinality(H) \in Nat
          /\ Cardinality(H \cup {t}) = Cardinality(H) + 1
      BY <2>1, <2>2
    <3>3. Len(b.free) + Len(b.queue) + Cardinality(H)
             = Len(b.free) + (Len(b.queue) - 1) + (Cardinality(H) + 1)
      BY <3>1, <3>2, Shifted
    <3> QED BY <3>1, <3>2, <3>3, <1>1, <1>4, Zenon
  <2>4. \A n \in Cell : n \in Elems(r.free) \/ n \in Elems(r.queue) \/ \E u \in H \cup {t} : d[u] = n
    BY <2>1, <1>3, <1>4
  <2> QED BY <2>2, <2>3, <2>4 DEF Complete
<1>8. Copied(r, H \cup {t}, d, g)
  BY <1>4 DEF CellsSound, Copied
<1>9. /\ Texts(b) # <<>> /\ b.text[Head(b.queue)] = Head(Texts(b)) /\ b.text[Head(b.queue)] \in Msg
      /\ Texts(r) = Tail(Texts(b))
  <2>1. /\ Texts(b) \in Seq(Msg) /\ Len(Texts(b)) = Len(b.queue)
        /\ Texts(r) \in Seq(Msg) /\ Len(Texts(r)) = Len(b.queue) - 1
    BY <1>1, <1>3, <1>4, <1>5, TextsType
  <2>2. Len(b.queue) \in Nat /\ Len(b.queue) > 0 /\ DOMAIN b.queue = 1..Len(b.queue)
        /\ Head(b.queue) = b.queue[1]
    BY <1>1, <1>2
  <2>3. Texts(b) # <<>> /\ Texts(b)[1] = b.text[Head(b.queue)]
    BY <2>1, <2>2 DEF Texts
  <2>4. Tail(Texts(b)) \in Seq(Msg) /\ Len(Tail(Texts(b))) = Len(b.queue) - 1
        /\ \A i \in 1..(Len(b.queue) - 1) : Tail(Texts(b))[i] = Texts(b)[i + 1]
    BY <2>1, <2>3, HeadTailProperties
  <2>5. ASSUME NEW i \in 1..(Len(b.queue) - 1) PROVE Texts(r)[i] = Texts(b)[i + 1]
    <3>1. i \in DOMAIN r.queue /\ i + 1 \in DOMAIN b.queue /\ r.queue[i] = b.queue[i + 1]
      BY <1>1, <1>2, <1>3, <1>4, <2>2, HeadTailProperties
    <3> QED BY <3>1, <1>4 DEF Texts
  <2>6. Texts(r) = Tail(Texts(b))
    BY <2>1, <2>4, <2>5, SeqEqual
  <2> QED BY <2>1, <2>3, <2>6, <1>1, <1>3
<1> QED BY <1>3, <1>5, <1>6, <1>7, <1>8, <1>9 DEF CellsSound, r

(* A cell that is nowhere in the queue is linked with its message. *)
LEMMA LinkFacts ==
    ASSUME NEW b \in QueueOf, NEW n \in Cell, n \notin Elems(b.queue), NEW v \in Msg,
           NEW first \in BOOLEAN
    PROVE  LET r == Link(b, n, v, first)
           IN  /\ r \in QueueOf /\ r.free = b.free /\ r.text = [b.text EXCEPT ![n] = v]
               /\ r.entry = b.entry + 1
               /\ r.queue = IF first THEN PushFront(b.queue, n) ELSE PushBack(b.queue, n)
               /\ Elems(r.queue) = Elems(b.queue) \cup {n} /\ Len(r.queue) = Len(b.queue) + 1
               /\ IsOnce(b.queue) => IsOnce(r.queue)
               /\ Texts(r) = IF first THEN <<v>> \o Texts(b) ELSE Append(Texts(b), v)
<1> DEFINE q == IF first THEN PushFront(b.queue, n) ELSE PushBack(b.queue, n)
           r == Link(b, n, v, first)
           L == Len(b.queue)
<1>1. /\ b.free \in Seq(Cell) /\ b.queue \in Seq(Cell) /\ b.entry \in Nat /\ b.text \in [Cell -> Msg]
  BY DEF QueueOf
<1>2. /\ q \in Seq(Cell) /\ Elems(q) = Elems(b.queue) \cup {n}
      /\ IsOnce(b.queue) => IsOnce(q)
  <2>1. CASE first
    BY <1>1, <2>1, PushFrontFacts
  <2>2. CASE ~first
    BY <1>1, <2>2, PushBackFacts
  <2> QED BY <2>1, <2>2
<1>3. /\ Len(q) = L + 1
      /\ first => \A i \in 1..(L + 1) : q[i] = IF i = 1 THEN n ELSE b.queue[i - 1]
      /\ ~first => \A i \in 1..(L + 1) : q[i] = IF i = L + 1 THEN n ELSE b.queue[i]
  <2>1. <<n>> \in Seq(Cell) /\ Len(<<n>>) = 1
    OBVIOUS
  <2>2. CASE first
    BY <1>1, <2>1, <2>2, ConcatProperties DEF PushFront
  <2>3. CASE ~first
    BY <1>1, <2>3, AppendProperties DEF PushBack
  <2> QED BY <2>2, <2>3
<1>4. r = [b EXCEPT !.text = [b.text EXCEPT ![n] = v], !.queue = q, !.entry = b.entry + 1]
  BY DEF Link
<1> HIDE DEF q, r
<1>5. /\ r \in QueueOf /\ r.free = b.free /\ r.text = [b.text EXCEPT ![n] = v]
      /\ r.entry = b.entry + 1 /\ r.queue = q
  <2>1. b.entry + 1 \in Nat /\ [b.text EXCEPT ![n] = v] \in [Cell -> Msg]
    BY <1>1
  <2> QED BY <1>1, <1>2, <1>4, <2>1 DEF QueueOf
<1>6. /\ Texts(b) \in Seq(Msg) /\ Len(Texts(b)) = L /\ Texts(r) \in Seq(Msg) /\ Len(Texts(r)) = L + 1
      /\ L \in Nat /\ DOMAIN b.queue = 1..L /\ DOMAIN q = 1..(L + 1)
  BY <1>1, <1>2, <1>3, <1>5, TextsType
<1>7. \A i \in 1..L : b.queue[i] \in Cell /\ b.queue[i] # n
  BY <1>1, <1>6 DEF Elems
<1>8. \A i \in 1..L : r.text[b.queue[i]] = Texts(b)[i]
  BY <1>1, <1>5, <1>6, <1>7 DEF Texts
<1>9. r.text[n] = v
  BY <1>1, <1>5
<1>10. \A i \in 1..(L + 1) : Texts(r)[i] = r.text[q[i]]
  BY <1>5, <1>6 DEF Texts
<1>11. ASSUME first PROVE Texts(r) = <<v>> \o Texts(b)
  <2>1. /\ <<v>> \o Texts(b) \in Seq(Msg) /\ Len(<<v>> \o Texts(b)) = L + 1
        /\ \A i \in 1..(L + 1) : (<<v>> \o Texts(b))[i] = IF i = 1 THEN v ELSE Texts(b)[i - 1]
    BY <1>6, ConcatProperties, <<v>> \in Seq(Msg), Len(<<v>>) = 1
  <2>2. ASSUME NEW i \in 1..(L + 1) PROVE Texts(r)[i] = IF i = 1 THEN v ELSE Texts(b)[i - 1]
    <3>1. i # 1 => i - 1 \in 1..L
      BY <1>6
    <3> QED BY <3>1, <1>3, <1>8, <1>9, <1>10, <1>11
  <2> QED BY <2>1, <2>2, <1>6, SeqEqual
<1>12. ASSUME ~first PROVE Texts(r) = Append(Texts(b), v)
  <2>1. /\ Append(Texts(b), v) \in Seq(Msg) /\ Len(Append(Texts(b), v)) = L + 1
        /\ \A i \in 1..(L + 1) : Append(Texts(b), v)[i] = IF i = L + 1 THEN v ELSE Texts(b)[i]
    BY <1>6, AppendProperties
  <2>2. ASSUME NEW i \in 1..(L + 1) PROVE Texts(r)[i] = IF i = L + 1 THEN v ELSE Texts(b)[i]
    <3>1. i # L + 1 => i \in 1..L
      BY <1>6
    <3> QED BY <3>1, <1>3, <1>8, <1>9, <1>10, <1>12
  <2> QED BY <2>1, <2>2, <1>6, SeqEqual
<1> QED BY <1>2, <1>3, <1>5, <1>11, <1>12 DEF q, r

(* A sender links the cell it has filled. *)
LEMMA LinkSound ==
    ASSUME NEW b, NEW H, NEW c, NEW f, CellsSound(b, H, c, f), NEW t \in H, NEW v \in Msg,
           NEW first \in BOOLEAN, NEW d, NEW g,
           Kept(H \ {t}, c, f, d, g)
    PROVE  LET r == Link(b, c[t], v, first)
           IN  /\ CellsSound(r, H \ {t}, d, g)
               /\ Len(b.queue) < MaxMsgs
               /\ Texts(r) = IF first THEN <<v>> \o Texts(b) ELSE Append(Texts(b), v)
<1> USE DEF Kept
<1> DEFINE r == Link(b, c[t], v, first)
<1>1. /\ b \in QueueOf /\ b.free \in Seq(Cell) /\ b.queue \in Seq(Cell) /\ b.text \in [Cell -> Msg]
      /\ c[t] \in Cell /\ c[t] \notin Elems(b.queue) /\ c[t] \notin Elems(b.free)
  BY DEF CellsSound, QueueOf, Distinct
<1>2. /\ r \in QueueOf /\ r.free = b.free /\ r.text = [b.text EXCEPT ![c[t]] = v]
      /\ r.entry = b.entry + 1
      /\ Elems(r.queue) = Elems(b.queue) \cup {c[t]} /\ Len(r.queue) = Len(b.queue) + 1
      /\ IsOnce(b.queue) => IsOnce(r.queue)
      /\ Texts(r) = IF first THEN <<v>> \o Texts(b) ELSE Append(Texts(b), v)
  <2> DEFINE n == c[t]
  <2>1. n \in Cell /\ n \notin Elems(b.queue)
    BY <1>1
  <2> HIDE DEF n, r
  <2>2. r = Link(b, n, v, first)
    BY DEF r, n
  <2>3. b \in QueueOf
    BY DEF CellsSound
  <2>4. /\ r \in QueueOf /\ r.free = b.free /\ r.text = [b.text EXCEPT ![n] = v]
        /\ r.entry = b.entry + 1
        /\ Elems(r.queue) = Elems(b.queue) \cup {n} /\ Len(r.queue) = Len(b.queue) + 1
        /\ IsOnce(b.queue) => IsOnce(r.queue)
        /\ Texts(r) = IF first THEN <<v>> \o Texts(b) ELSE Append(Texts(b), v)
    <3> DEFINE Goal ==
                  /\ r \in QueueOf /\ r.free = b.free /\ r.text = [b.text EXCEPT ![n] = v]
                  /\ r.entry = b.entry + 1
                  /\ Elems(r.queue) = Elems(b.queue) \cup {n} /\ Len(r.queue) = Len(b.queue) + 1
                  /\ IsOnce(b.queue) => IsOnce(r.queue)
                  /\ Texts(r) = IF first THEN <<v>> \o Texts(b) ELSE Append(Texts(b), v)
    <3>1. ASSUME first = TRUE PROVE Goal
      <4>1. TRUE \in BOOLEAN /\ r = Link(b, n, v, TRUE)
        BY <2>2, <3>1
      <4>2. Texts(r) = IF TRUE THEN <<v>> \o Texts(b) ELSE Append(Texts(b), v)
        BY <2>1, <2>3, <4>1, LinkFacts, Zenon
      <4>3. LET q == Link(b, n, v, TRUE)
            IN  /\ q \in QueueOf /\ q.free = b.free /\ q.text = [b.text EXCEPT ![n] = v]
                /\ q.entry = b.entry + 1
                /\ q.queue = IF TRUE THEN PushFront(b.queue, n) ELSE PushBack(b.queue, n)
                /\ Elems(q.queue) = Elems(b.queue) \cup {n} /\ Len(q.queue) = Len(b.queue) + 1
                /\ IsOnce(b.queue) => IsOnce(q.queue)
                /\ Texts(q) = IF TRUE THEN <<v>> \o Texts(b) ELSE Append(Texts(b), v)
        BY <2>1, <2>3, <4>1, LinkFacts, Zenon
      <4>4. /\ r \in QueueOf /\ r.free = b.free /\ r.text = [b.text EXCEPT ![n] = v]
            /\ r.entry = b.entry + 1
            /\ Elems(r.queue) = Elems(b.queue) \cup {n} /\ Len(r.queue) = Len(b.queue) + 1
            /\ IsOnce(b.queue) => IsOnce(r.queue)
        BY <4>1, <4>3, Zenon
      <4> QED BY <3>1, <4>2, <4>4
    <3>2. ASSUME first = FALSE PROVE Goal
      <4>1. FALSE \in BOOLEAN /\ r = Link(b, n, v, FALSE)
        BY <2>2, <3>2
      <4>2. Texts(r) = IF FALSE THEN <<v>> \o Texts(b) ELSE Append(Texts(b), v)
        BY <2>1, <2>3, <4>1, LinkFacts, Zenon
      <4>3. LET q == Link(b, n, v, FALSE)
            IN  /\ q \in QueueOf /\ q.free = b.free /\ q.text = [b.text EXCEPT ![n] = v]
                /\ q.entry = b.entry + 1
                /\ q.queue = IF FALSE THEN PushFront(b.queue, n) ELSE PushBack(b.queue, n)
                /\ Elems(q.queue) = Elems(b.queue) \cup {n} /\ Len(q.queue) = Len(b.queue) + 1
                /\ IsOnce(b.queue) => IsOnce(q.queue)
                /\ Texts(q) = IF FALSE THEN <<v>> \o Texts(b) ELSE Append(Texts(b), v)
        BY <2>1, <2>3, <4>1, LinkFacts, Zenon
      <4>4. /\ r \in QueueOf /\ r.free = b.free /\ r.text = [b.text EXCEPT ![n] = v]
            /\ r.entry = b.entry + 1
            /\ Elems(r.queue) = Elems(b.queue) \cup {n} /\ Len(r.queue) = Len(b.queue) + 1
            /\ IsOnce(b.queue) => IsOnce(r.queue)
        BY <4>1, <4>3, Zenon
      <4> QED BY <3>2, <4>2, <4>4
    <3> QED BY <3>1, <3>2
  <2> QED BY <2>4 DEF n
<1> HIDE DEF r
<1>3. Distinct(r, H \ {t}, d)
  BY <1>1, <1>2 DEF CellsSound, Distinct
<1>4. Complete(r, H \ {t}, d) /\ Len(b.queue) < MaxMsgs
  <2>1. /\ \A n \in Cell : n \in Elems(b.free) \/ n \in Elems(b.queue) \/ \E u \in H : c[u] = n
        /\ IsFiniteSet(H) /\ MaxMsgs = Len(b.free) + Len(b.queue) + Cardinality(H)
        /\ b.entry = Len(b.queue)
    BY DEF CellsSound, Complete
  <2>2. /\ IsFiniteSet(H \ {t}) /\ Cardinality(H \ {t}) = Cardinality(H) - 1
        /\ Cardinality(H) \in Nat /\ Cardinality(H) > 0
    BY <2>1, OneLess
  <2>3. MaxMsgs = Len(r.free) + Len(r.queue) + Cardinality(H \ {t}) /\ Len(b.queue) < MaxMsgs
    <3>1. /\ Len(r.free) = Len(b.free) /\ Len(r.queue) = Len(b.queue) + 1
          /\ Len(b.free) \in Nat /\ Len(b.queue) \in Nat
      BY <1>1, <1>2
    <3>2. /\ MaxMsgs = Len(b.free) + Len(b.queue) + Cardinality(H)
          /\ Cardinality(H) \in Nat /\ Cardinality(H) > 0
          /\ Cardinality(H \ {t}) = Cardinality(H) - 1
      BY <2>1, <2>2
    <3>3. Len(b.free) + Len(b.queue) + Cardinality(H)
             = Len(b.free) + (Len(b.queue) + 1) + (Cardinality(H) - 1)
      BY <3>1, <3>2, Shifted
    <3>4. Len(b.queue) < Len(b.free) + Len(b.queue) + Cardinality(H)
      BY <3>1, <3>2, Shifted
    <3> QED BY <3>1, <3>2, <3>3, <3>4, Zenon
  <2>4. \A n \in Cell : n \in Elems(r.free) \/ n \in Elems(r.queue) \/ \E u \in H \ {t} : d[u] = n
    BY <2>1, <1>2
  <2> QED BY <2>1, <2>2, <2>3, <2>4, <1>2 DEF Complete
<1>5. Copied(r, H \ {t}, d, g)
  <2> SUFFICES ASSUME NEW u \in H \ {t}, g[u].call = "mq_recv" PROVE r.text[d[u]] = g[u].msg
    BY DEF Copied
  <2>1. c[u] # c[t] /\ c[u] \in Cell /\ b.text[c[u]] = f[u].msg
    BY DEF CellsSound, Distinct, Copied
  <2> QED BY <2>1, <1>1, <1>2
<1> QED BY <1>2, <1>3, <1>4, <1>5 DEF CellsSound, r

(* The interrupt handler does both at once. *)
LEMMA DeviceLinkSound ==
    ASSUME NEW b, NEW H, NEW c, NEW f, CellsSound(b, H, c, f), b.free # <<>>, NEW v \in Msg,
           NEW d, NEW g, Kept(H, c, f, d, g)
    PROVE  LET r == Link(TakeFree(b), Head(b.free), v, FALSE)
           IN  /\ CellsSound(r, H, d, g)
               /\ Len(b.queue) < MaxMsgs
               /\ Texts(r) = Append(Texts(b), v)
<1> USE DEF Kept
<1> DEFINE a == TakeFree(b)
           n == Head(b.free)
           r == Link(a, n, v, FALSE)
<1>1. /\ b.free \in Seq(Cell) /\ b.queue \in Seq(Cell) /\ b.text \in [Cell -> Msg]
      /\ b.entry \in Nat /\ b.entry = Len(b.queue)
  BY DEF CellsSound, QueueOf, Complete
<1>2. /\ Tail(b.free) \in Seq(Cell) /\ Len(Tail(b.free)) = Len(b.free) - 1 /\ n \in Cell
      /\ Elems(b.free) = {n} \cup Elems(Tail(b.free))
      /\ IsOnce(b.free) => IsOnce(Tail(b.free)) /\ n \notin Elems(Tail(b.free))
      /\ Len(b.free) > 0
  BY <1>1, TailFacts
<1>3. /\ a \in QueueOf /\ a.free = Tail(b.free) /\ a.queue = b.queue /\ a.text = b.text
      /\ a.entry = b.entry /\ Texts(a) = Texts(b)
  BY <1>2 DEF CellsSound, QueueOf, TakeFree, Texts
<1>4. n \in Elems(b.free) /\ n \notin Elems(b.queue)
  BY <1>2 DEF CellsSound, Distinct
<1> HIDE DEF a, n
<1>5. /\ r \in QueueOf /\ r.free = a.free /\ r.text = [a.text EXCEPT ![n] = v]
      /\ r.entry = a.entry + 1
      /\ Elems(r.queue) = Elems(a.queue) \cup {n} /\ Len(r.queue) = Len(a.queue) + 1
      /\ IsOnce(a.queue) => IsOnce(r.queue)
      /\ Texts(r) = Append(Texts(a), v)
  <2>1. FALSE \in BOOLEAN /\ n \notin Elems(a.queue)
    BY <1>3, <1>4
  <2>2. Texts(r) = IF FALSE THEN <<v>> \o Texts(a) ELSE Append(Texts(a), v)
    BY <1>2, <1>3, <2>1, LinkFacts, Zenon
  <2>3. Texts(r) = Append(Texts(a), v)
    BY <2>2
  <2> HIDE DEF r
  <2>4. r = Link(a, n, v, FALSE)
    BY DEF r
  <2> QED BY <1>2, <1>3, <2>1, <2>3, <2>4, LinkFacts, Zenon
<1> HIDE DEF r
<1>6. Distinct(r, H, d)
  BY <1>2, <1>3, <1>4, <1>5 DEF CellsSound, Distinct
<1>7. Complete(r, H, d) /\ Len(b.queue) < MaxMsgs
  <2>1. /\ \A m \in Cell : m \in Elems(b.free) \/ m \in Elems(b.queue) \/ \E u \in H : c[u] = m
        /\ IsFiniteSet(H) /\ MaxMsgs = Len(b.free) + Len(b.queue) + Cardinality(H)
    BY DEF CellsSound, Complete
  <2>2. MaxMsgs = Len(r.free) + Len(r.queue) + Cardinality(H) /\ Len(b.queue) < MaxMsgs
    <3>1. /\ Len(r.free) = Len(b.free) - 1 /\ Len(r.queue) = Len(b.queue) + 1
          /\ Len(b.free) \in Nat /\ Len(b.queue) \in Nat /\ Len(b.free) > 0
      BY <1>1, <1>2, <1>3, <1>5
    <3>2. MaxMsgs = Len(b.free) + Len(b.queue) + Cardinality(H) /\ Cardinality(H) \in Nat
      BY <2>1, FS_CardinalityType
    <3>3. Len(b.free) + Len(b.queue) + Cardinality(H)
             = (Len(b.free) - 1) + (Len(b.queue) + 1) + Cardinality(H)
      BY <3>1, <3>2, Shifted
    <3>4. Len(b.queue) < Len(b.free) + Len(b.queue) + Cardinality(H)
      BY <3>1, <3>2, Shifted
    <3> QED BY <3>1, <3>2, <3>3, <3>4, Zenon
  <2>3. \A m \in Cell : m \in Elems(r.free) \/ m \in Elems(r.queue) \/ \E u \in H : d[u] = m
    BY <2>1, <1>2, <1>3, <1>5
  <2> QED BY <2>1, <2>2, <2>3, <1>1, <1>3, <1>5 DEF Complete
<1>8. Copied(r, H, d, g)
  <2> SUFFICES ASSUME NEW u \in H, g[u].call = "mq_recv" PROVE r.text[d[u]] = g[u].msg
    BY DEF Copied
  <2>1. c[u] # n /\ c[u] \in Cell /\ b.text[c[u]] = f[u].msg
    BY <1>4 DEF CellsSound, Distinct, Copied
  <2> QED BY <2>1, <1>1, <1>3, <1>5
<1> QED BY <1>3, <1>5, <1>6, <1>7, <1>8 DEF CellsSound, r, a, n

(* A receiver gives its cell back. *)
LEMMA GiveBackSound ==
    ASSUME NEW b, NEW H, NEW c, NEW f, CellsSound(b, H, c, f), NEW t \in H, NEW d, NEW g,
           Kept(H \ {t}, c, f, d, g)
    PROVE  LET r == GiveBack(b, c[t])
           IN  CellsSound(r, H \ {t}, d, g) /\ Texts(r) = Texts(b)
<1> USE DEF Kept
<1> DEFINE r == GiveBack(b, c[t])
           e == c[t]
<1>1. /\ b \in QueueOf /\ b.free \in Seq(Cell) /\ b.queue \in Seq(Cell) /\ b.text \in [Cell -> Msg]
      /\ e \in Cell /\ e \notin Elems(b.queue) /\ e \notin Elems(b.free)
  BY DEF CellsSound, QueueOf, Distinct
<1>2. /\ PushFront(b.free, e) \in Seq(Cell) /\ Elems(PushFront(b.free, e)) = Elems(b.free) \cup {e}
      /\ IsOnce(b.free) => IsOnce(PushFront(b.free, e))
      /\ Len(PushFront(b.free, e)) = Len(b.free) + 1
  <2>1. <<e>> \in Seq(Cell) /\ Len(<<e>>) = 1
    BY <1>1
  <2>2. Len(PushFront(b.free, e)) = Len(b.free) + 1
    BY <2>1, <1>1, ConcatProperties DEF PushFront
  <2> HIDE DEF e, r
  <2>4. b.free \in Seq(Cell)
    BY <1>1
  <2>5. e \in Cell
    BY <1>1
  <2>3. /\ PushFront(b.free, e) \in Seq(Cell) /\ Elems(PushFront(b.free, e)) = Elems(b.free) \cup {e}
        /\ IsOnce(b.free) /\ e \notin Elems(b.free) => IsOnce(PushFront(b.free, e))
    <3>1. \A S : \A z \in Seq(S), m \in S :
              /\ PushFront(z, m) \in Seq(S) /\ Elems(PushFront(z, m)) = Elems(z) \cup {m}
              /\ IsOnce(z) /\ m \notin Elems(z) => IsOnce(PushFront(z, m))
      BY PushFrontFacts
    <3> QED BY <2>4, <2>5, <3>1
  <2> QED BY <2>2, <2>3, <1>1
<1>3. /\ r \in QueueOf /\ r.free = PushFront(b.free, e) /\ r.queue = b.queue /\ r.text = b.text
      /\ r.entry = b.entry
  BY <1>1, <1>2 DEF QueueOf, GiveBack
<1> HIDE DEF r
<1>4. Distinct(r, H \ {t}, d)
  BY <1>1, <1>2, <1>3 DEF CellsSound, Distinct
<1>5. Complete(r, H \ {t}, d)
  <2>1. /\ \A m \in Cell : m \in Elems(b.free) \/ m \in Elems(b.queue) \/ \E u \in H : c[u] = m
        /\ IsFiniteSet(H) /\ MaxMsgs = Len(b.free) + Len(b.queue) + Cardinality(H)
        /\ b.entry = Len(b.queue)
    BY DEF CellsSound, Complete
  <2>2. /\ IsFiniteSet(H \ {t}) /\ Cardinality(H \ {t}) = Cardinality(H) - 1
        /\ Cardinality(H) \in Nat
    BY <2>1, OneLess
  <2>3. MaxMsgs = Len(r.free) + Len(r.queue) + Cardinality(H \ {t})
    <3>1. /\ Len(r.free) = Len(b.free) + 1 /\ Len(r.queue) = Len(b.queue)
          /\ Len(b.free) \in Nat /\ Len(b.queue) \in Nat
      BY <1>1, <1>2, <1>3
    <3>2. /\ MaxMsgs = Len(b.free) + Len(b.queue) + Cardinality(H) /\ Cardinality(H) \in Nat
          /\ Cardinality(H \ {t}) = Cardinality(H) - 1
      BY <2>1, <2>2
    <3>3. Len(b.free) + Len(b.queue) + Cardinality(H)
             = (Len(b.free) + 1) + Len(b.queue) + (Cardinality(H) - 1)
      BY <3>1, <3>2, Shifted
    <3> QED BY <3>1, <3>2, <3>3, Zenon
  <2>4. \A m \in Cell : m \in Elems(r.free) \/ m \in Elems(r.queue) \/ \E u \in H \ {t} : d[u] = m
    BY <2>1, <1>2, <1>3
  <2> QED BY <2>1, <2>2, <2>3, <2>4, <1>3 DEF Complete
<1>6. Copied(r, H \ {t}, d, g)
  BY <1>3 DEF CellsSound, Copied
<1>7. Texts(r) = Texts(b)
  BY <1>3 DEF Texts
<1> QED BY <1>3, <1>4, <1>5, <1>6, <1>7 DEF CellsSound, r, e

(* A list backwards. *)
LEMMA ReverseFacts ==
    ASSUME NEW S, NEW s \in Seq(S)
    PROVE  /\ Reverse(s) \in Seq(S) /\ Len(Reverse(s)) = Len(s)
           /\ Elems(Reverse(s)) = Elems(s)
           /\ IsOnce(s) => IsOnce(Reverse(s))
<1> DEFINE r == Reverse(s)
           L == Len(s)
<1>1. L \in Nat /\ DOMAIN s = 1..L /\ \A i \in 1..L : s[i] \in S /\ L - i + 1 \in 1..L
  OBVIOUS
<1>2. r = [i \in 1..L |-> s[(L - i) + 1]]
  BY DEF Reverse
<1> HIDE DEF r
<1>3. r \in [1..L -> S] /\ \A i \in 1..L : r[i] = s[L - i + 1]
  BY <1>1, <1>2
<1> HIDE DEF L
<1>4. r \in Seq(S) /\ Len(r) = L /\ DOMAIN r = 1..L
  BY <1>1, <1>3
<1>5. Elems(r) = Elems(s)
  <2>1. ASSUME NEW e \in Elems(r) PROVE e \in Elems(s)
    BY <2>1, <1>1, <1>3, <1>4 DEF Elems
  <2>2. ASSUME NEW e \in Elems(s) PROVE e \in Elems(r)
    <3>1. PICK i \in 1..L : e = s[i]
      BY <2>2, <1>1 DEF Elems
    <3>2. L - i + 1 \in 1..L /\ L - (L - i + 1) + 1 = i
      BY <1>1
    <3>3. r[L - i + 1] = e
      BY <3>1, <3>2, <1>3
    <3> QED BY <3>2, <3>3, <1>4 DEF Elems
  <2> QED BY <2>1, <2>2
<1>6. ASSUME IsOnce(s) PROVE IsOnce(r)
  <2> SUFFICES ASSUME NEW i \in 1..L, NEW j \in 1..L, r[i] = r[j] PROVE i = j
    BY <1>4 DEF IsOnce
  <2>1. L - i + 1 = L - j + 1
    BY <1>1, <1>3, <1>6 DEF IsOnce
  <2> QED BY <2>1, <1>1
<1> QED BY <1>4, <1>5, <1>6 DEF r, L

(* A reset moves the queued cells to the free list. *)
LEMMA EmptiedSound ==
    ASSUME NEW b, NEW H, NEW c, NEW f, CellsSound(b, H, c, f), NEW d, NEW g,
           Kept(H, c, f, d, g)
    PROVE  LET r == Emptied(b)
           IN  CellsSound(r, H, d, g) /\ Texts(r) = <<>>
<1> USE DEF Kept
<1> DEFINE r == Emptied(b)
           w == Reverse(b.queue)
           n == w \o b.free
<1>1. /\ b \in QueueOf /\ b.free \in Seq(Cell) /\ b.queue \in Seq(Cell) /\ b.text \in [Cell -> Msg]
  BY DEF CellsSound, QueueOf
<1>2. /\ w \in Seq(Cell) /\ Len(w) = Len(b.queue) /\ Elems(w) = Elems(b.queue)
      /\ IsOnce(b.queue) => IsOnce(w)
  BY <1>1, ReverseFacts
<1> HIDE DEF w
<1>3. /\ n \in Seq(Cell) /\ Len(n) = Len(b.queue) + Len(b.free)
      /\ Elems(n) = Elems(b.queue) \cup Elems(b.free)
      /\ IsOnce(w) /\ IsOnce(b.free) /\ Elems(w) \cap Elems(b.free) = {} => IsOnce(n)
  <2> HIDE DEF r
  <2>1. /\ n \in Seq(Cell) /\ Len(n) = Len(w) + Len(b.free)
        /\ Elems(n) = Elems(w) \cup Elems(b.free)
    <3>1. \A S : \A y \in Seq(S), z \in Seq(S) :
              /\ y \o z \in Seq(S) /\ Len(y \o z) = Len(y) + Len(z)
              /\ Elems(y \o z) = Elems(y) \cup Elems(z)
      BY ConcatFacts
    <3>2. w \in Seq(Cell) /\ b.free \in Seq(Cell)
      BY <1>1, <1>2
    <3> QED BY <3>1, <3>2
  <2>2. IsOnce(w) /\ IsOnce(b.free) /\ Elems(w) \cap Elems(b.free) = {} => IsOnce(n)
    BY <1>1, <1>2, ConcatFacts
  <2> QED BY <2>1, <2>2, <1>2
<1>4. r = [b EXCEPT !.free = n, !.queue = <<>>, !.entry = 0]
  BY <1>1 DEF Emptied, w, QueueOf
<1> HIDE DEF n, r
<1>5. /\ r \in QueueOf /\ r.free = n /\ r.queue = <<>> /\ r.text = b.text /\ r.entry = 0
  <2>1. n \in Seq(Cell) /\ <<>> \in Seq(Cell) /\ 0 \in Nat
    BY <1>3
  <2> QED BY <1>1, <2>1, <1>4 DEF QueueOf
<1>6. Elems(r.queue) = {} /\ IsOnce(r.queue) /\ Len(r.queue) = 0 /\ Texts(r) = <<>>
  <2>1. Texts(r) \in Seq(Msg) /\ Len(Texts(r)) = 0
    BY <1>5, TextsType
  <2> QED BY <2>1, <1>5 DEF Elems, IsOnce
<1>7. Distinct(r, H, d)
  BY <1>2, <1>3, <1>5, <1>6 DEF CellsSound, Distinct
<1>8. Complete(r, H, d)
  <2>1. /\ \A m \in Cell : m \in Elems(b.free) \/ m \in Elems(b.queue) \/ \E u \in H : c[u] = m
        /\ IsFiniteSet(H) /\ MaxMsgs = Len(b.free) + Len(b.queue) + Cardinality(H)
    BY DEF CellsSound, Complete
  <2>2. MaxMsgs = Len(r.free) + Len(r.queue) + Cardinality(H)
    <3>1. /\ Len(r.free) = Len(b.queue) + Len(b.free) /\ Len(r.queue) = 0
          /\ Len(b.free) \in Nat /\ Len(b.queue) \in Nat
      <4>1. Len(b.free) \in Nat /\ Len(b.queue) \in Nat
        BY <1>1
      <4>2. Len(r.free) = Len(b.queue) + Len(b.free) /\ Len(r.queue) = 0
        BY <1>3, <1>5, <1>6, Zenon
      <4> QED BY <4>1, <4>2
    <3>2. MaxMsgs = Len(b.free) + Len(b.queue) + Cardinality(H) /\ Cardinality(H) \in Nat
      BY <2>1, FS_CardinalityType
    <3>3. Len(b.free) + Len(b.queue) + Cardinality(H)
             = (Len(b.queue) + Len(b.free)) + 0 + Cardinality(H)
      BY <3>1, <3>2, Shifted
    <3> QED BY <3>1, <3>2, <3>3, Zenon
  <2>3. \A m \in Cell : m \in Elems(r.free) \/ m \in Elems(r.queue) \/ \E u \in H : d[u] = m
    BY <2>1, <1>3, <1>5
  <2> QED BY <2>1, <2>2, <2>3, <1>5, <1>6 DEF Complete
<1>9. Copied(r, H, d, g)
  BY <1>5 DEF CellsSound, Copied
<1> QED BY <1>5, <1>6, <1>7, <1>8, <1>9 DEF CellsSound, r

(* A change elsewhere. *)
LEMMA CellsElsewhere ==
    ASSUME NEW b, NEW H, NEW c, NEW f, CellsSound(b, H, c, f), NEW d, NEW g,
           Kept(H, c, f, d, g)
    PROVE  CellsSound(b, H, d, g)
BY DEF Kept, CellsSound, Distinct, Complete, Copied

-----------------------------------------------------------------------------
(* The invariant.  A thread has a cell just while it copies. *)

Copying(t) == pc[t] = "between" /\ frame[t].call \in {"mq_send", "mq_urgent", "mq_recv"}
Hands(q)   == {t \in Thread : cell[t] # NoCell /\ frame[t].obj = q}

MqInv ==
    /\ Framed(frame) /\ app \in Apps
    /\ pc = [t \in Thread |-> pc[t]]
    /\ cell \in [Thread -> Cell \cup {NoCell}]
    /\ mq = [q \in Mq |-> mq[q]]
    /\ mqLast \in [Mq -> Accepted]
    /\ \A t \in Thread : /\ cell[t] # NoCell <=> Copying(t)
                         /\ Copying(t) => frame[t].obj \in Mq
    /\ \A q \in Mq : CellsSound(mq[q], Hands(q), cell, frame)

(* A step of a thread that neither copies nor begins to. *)
Away(t) == /\ frame' = frame \/ \A u \in Thread \ {t} : frame'[u] = frame[u]
           /\ \/ pc' = pc /\ frame' = frame
              \/ \E p \in Pc : Goto(t, p) /\ ~Copying(t) /\ ~Copying(t)'
Beside == /\ mq' = mq /\ cell' = cell /\ mqLast' = mqLast /\ app' = app
          /\ Framed(frame')
          /\ \E t \in Thread : Away(t)

LEMMA BesideKeeps ==
    ASSUME MqInv, Beside
    PROVE  MqInv'
<1>1. PICK t \in Thread : Away(t)
  BY DEF Beside
<1>2. /\ pc' = [u \in Thread |-> pc'[u]]
      /\ \A u \in Thread : /\ Copying(u)' <=> Copying(u)
                           /\ Copying(u) => frame'[u] = frame[u]
  <2>1. CASE pc' = pc /\ frame' = frame
    BY <2>1 DEF MqInv, Copying
  <2>2. CASE \E p \in Pc : Goto(t, p) /\ ~Copying(t) /\ ~Copying(t)'
    <3>1. PICK p \in Pc : Goto(t, p) /\ ~Copying(t) /\ ~Copying(t)'
      BY <2>2
    <3>2. /\ pc' = [u \in Thread |-> pc'[u]]
          /\ \A u \in Thread \ {t} : pc'[u] = pc[u] /\ frame'[u] = frame[u]
      BY <3>1, <1>1 DEF Goto, MqInv, Away
    <3> QED BY <3>1, <3>2 DEF Copying
  <2> QED BY <1>1, <2>1, <2>2 DEF Away
<1>3. \A q \in Mq : /\ Hands(q)' = Hands(q)
                    /\ Kept(Hands(q), cell, frame, cell', frame')
  BY <1>2 DEF Beside, MqInv, Hands, Kept
<1>4. ASSUME NEW q \in Mq PROVE CellsSound(mq'[q], Hands(q)', cell', frame')
  <2>1. CellsSound(mq[q], Hands(q), cell, frame)
    BY DEF MqInv
  <2>2. CellsSound(mq[q], Hands(q), cell', frame')
    BY <1>3, <2>1, CellsElsewhere
  <2> QED BY <1>3, <2>2 DEF Beside
<1>5. \A u \in Thread : /\ cell'[u] # NoCell <=> Copying(u)'
                        /\ Copying(u)' => frame'[u].obj \in Mq
  BY <1>2 DEF Beside, MqInv
<1> QED BY <1>2, <1>4, <1>5 DEF MqInv, Beside

(* A thread takes a cell of q or lets go of it. *)
Handles(t, q, n) ==
    /\ cell' = [cell EXCEPT ![t] = n] /\ n \in Cell \cup {NoCell}
    /\ \A u \in Thread \ {t} : frame'[u] = frame[u]
    /\ cell[t] # NoCell => frame[t].obj = q
    /\ n # NoCell => frame'[t].obj = q

LEMMA HandsChange ==
    ASSUME MqInv, NEW t \in Thread, NEW q \in Mq, NEW n, Handles(t, q, n)
    PROVE  /\ Kept(Hands(q) \ {t}, cell, frame, cell', frame')
           /\ n # NoCell => Hands(q)' = Hands(q) \cup {t}
           /\ n = NoCell => Hands(q)' = Hands(q) \ {t}
           /\ cell[t] = NoCell => t \notin Hands(q)
           /\ cell[t] # NoCell => t \in Hands(q)
           /\ cell'[t] = n
           /\ \A r \in Mq \ {q} :
                 /\ Hands(r)' = Hands(r)
                 /\ Kept(Hands(r), cell, frame, cell', frame')
<1>1. /\ \A u \in Thread \ {t} : cell'[u] = cell[u] /\ frame'[u] = frame[u]
      /\ cell'[t] = n
  BY DEF MqInv, Handles
<1>2. ASSUME NEW r \in Mq \ {q}
      PROVE  /\ Hands(r)' = Hands(r)
             /\ Kept(Hands(r), cell, frame, cell', frame')
  BY <1>1 DEF Handles, Hands, Kept
<1>3. /\ n # NoCell => Hands(q)' = Hands(q) \cup {t}
      /\ n = NoCell => Hands(q)' = Hands(q) \ {t}
      /\ cell[t] = NoCell => t \notin Hands(q)
      /\ cell[t] # NoCell => t \in Hands(q)
  BY <1>1 DEF Handles, Hands
<1>4. Kept(Hands(q) \ {t}, cell, frame, cell', frame')
  BY <1>1 DEF Hands, Kept
<1> QED BY <1>1, <1>2, <1>3, <1>4

(* One queue changes. *)
Changes(t, q, n, b) ==
    /\ Handles(t, q, n)
    /\ CellsSound(b, Hands(q)', cell', frame')
    /\ mq' = [mq EXCEPT ![q] = b]
    /\ mqLast' \in [Mq -> Accepted] /\ app' = app /\ Framed(frame')
    /\ \E p \in Pc : Goto(t, p)
    /\ Copying(t)' <=> n # NoCell

LEMMA QueueChange ==
    ASSUME MqInv, NEW t \in Thread, NEW q \in Mq, NEW n, NEW b, Changes(t, q, n, b)
    PROVE  MqInv' /\ mq' = [r \in Mq |-> IF r = q THEN b ELSE mq[r]]
<1> USE DEF Changes
<1>1. mq' = [r \in Mq |-> IF r = q THEN b ELSE mq[r]]
  BY DEF MqInv
<1>2. ASSUME NEW r \in Mq PROVE CellsSound(mq'[r], Hands(r)', cell', frame')
  <2>1. CASE r = q
    BY <1>1, <2>1
  <2>2. CASE r # q
    <3>1. /\ Hands(r)' = Hands(r)
          /\ Kept(Hands(r), cell, frame, cell', frame')
      BY <2>2, HandsChange
    <3>2. CellsSound(mq[r], Hands(r), cell, frame)
      BY DEF MqInv
    <3>3. CellsSound(mq[r], Hands(r), cell', frame')
      BY <3>1, <3>2, CellsElsewhere
    <3> QED BY <1>1, <2>2, <3>1, <3>3
  <2> QED BY <2>1, <2>2
<1>3. /\ pc' = [u \in Thread |-> pc'[u]]
      /\ \A u \in Thread \ {t} : pc'[u] = pc[u] /\ frame'[u] = frame[u] /\ cell'[u] = cell[u]
      /\ cell' \in [Thread -> Cell \cup {NoCell}] /\ cell'[t] = n
  BY DEF MqInv, Goto, Handles
<1>4. \A u \in Thread : /\ cell'[u] # NoCell <=> Copying(u)'
                        /\ Copying(u)' => frame'[u].obj \in Mq
  <2> SUFFICES ASSUME NEW u \in Thread
               PROVE  /\ cell'[u] # NoCell <=> Copying(u)'
                      /\ Copying(u)' => frame'[u].obj \in Mq
    OBVIOUS
  <2>1. CASE u = t
    BY <1>3, <2>1 DEF Handles
  <2>2. CASE u # t
    BY <1>3, <2>2 DEF MqInv, Copying
  <2> QED BY <2>1, <2>2
<1> QED BY <1>1, <1>2, <1>3, <1>4 DEF MqInv

-----------------------------------------------------------------------------
(* Every step keeps the invariant and is a step of the abstract queues. *)

MqGood == MqInv' /\ [MqQueue!Next]_<<[q \in Mq |-> Messages(q)], mqLast>>

LEMMA EnterFrame ==
    ASSUME Framed(frame), NEW t \in Thread, NEW call, NEW o, NEW n, NEW v,
           Enter(t, call, o, n, v)
    PROVE  /\ frame'[t].call = call /\ frame'[t].obj = o /\ frame'[t].msg = v
           /\ \A u \in Thread \ {t} : frame'[u] = frame[u]
BY DEF Framed, Enter

LEMMA LeaveFrame ==
    ASSUME Framed(frame), NEW t \in Thread, Leave(t)
    PROVE  /\ frame'[t].call = "none"
           /\ \A u \in Thread \ {t} : frame'[u] = frame[u]
BY DEF Framed, Leave, NoCall

LEMMA MessagesChange ==
    ASSUME NEW q \in Mq, NEW b, mq' = [r \in Mq |-> IF r = q THEN b ELSE mq[r]]
    PROVE  /\ [r \in Mq |-> Messages(r)]' = [[r \in Mq |-> Messages(r)] EXCEPT ![q] = Texts(b)]
           /\ Messages(q) = Texts(mq[q])
BY DEF Messages, Texts

LEMMA BesideGood ==
    ASSUME MqInv, Beside
    PROVE  MqGood
<1>1. MqInv'
  BY BesideKeeps
<1>2. [q \in Mq |-> Messages(q)]' = [q \in Mq |-> Messages(q)] /\ mqLast' = mqLast
  BY DEF Beside, Messages
<1> QED BY <1>1, <1>2 DEF MqGood

LEMMA StartSendGood ==
    ASSUME MqInv, NEW t \in Thread, NEW q \in Mq, NEW call \in {"mq_send", "mq_urgent"},
           NEW v \in Msg, ~Copying(t), ~MqFull(q), StartSend(t, q, call, v),
           mqLast' = mqLast, app' = app
    PROVE  MqGood
<1> DEFINE n == Head(mq[q].free)
           b == TakeFree(mq[q])
<1>1. /\ frame'[t].call = call /\ frame'[t].obj = q
      /\ \A u \in Thread \ {t} : frame'[u] = frame[u]
      /\ Framed(frame')
  BY EnterFrame, EnterFramed DEF StartSend, MqInv
<1>2. cell[t] = NoCell /\ cell' = [cell EXCEPT ![t] = n] /\ mq' = [mq EXCEPT ![q] = b]
      /\ Goto(t, "between")
  BY DEF StartSend, MqInv
<1>3. CellsSound(mq[q], Hands(q), cell, frame) /\ mq[q].free # <<>>
  BY DEF MqInv, MqFull
<1>4. n \in Cell
  BY <1>3, TailFacts DEF CellsSound, QueueOf
<1>5. n # NoCell
  BY <1>4 DEF Cell, NoCell
<1> HIDE DEF n
<1>6. Handles(t, q, n)
  BY <1>1, <1>2, <1>4 DEF Handles
<1>7. /\ Hands(q)' = Hands(q) \cup {t} /\ t \notin Hands(q) /\ cell'[t] = n
      /\ Kept(Hands(q), cell, frame, cell', frame')
  <2>1. /\ Hands(q)' = Hands(q) \cup {t} /\ t \notin Hands(q) /\ cell'[t] = n
        /\ Kept(Hands(q) \ {t}, cell, frame, cell', frame')
    BY <1>2, <1>5, <1>6, HandsChange
  <2>2. Hands(q) \ {t} = Hands(q)
    BY <2>1
  <2> QED BY <2>1, <2>2
<1>8. CellsSound(b, Hands(q) \cup {t}, cell', frame') /\ Texts(b) = Texts(mq[q])
  <2>1. cell'[t] = Head(mq[q].free) /\ frame'[t].call # "mq_recv"
    BY <1>1, <1>7 DEF n
  <2> QED BY <1>3, <1>7, <2>1, TakeFreeSound
<1> HIDE DEF b
<1>9. Copying(t)'
  BY <1>1, <1>2 DEF Copying, MqInv, Goto
<1>10. MqInv' /\ mq' = [r \in Mq |-> IF r = q THEN b ELSE mq[r]]
  <2>1. mqLast' \in [Mq -> Accepted] /\ "between" \in Pc
    BY DEF MqInv, Pc
  <2>2. CellsSound(b, Hands(q)', cell', frame') /\ (Copying(t)' <=> n # NoCell)
    BY <1>5, <1>7, <1>8, <1>9
  <2>3. app' = app /\ Framed(frame') /\ Goto(t, "between") /\ mq' = [mq EXCEPT ![q] = b]
    BY <1>1, <1>2
  <2>4. Changes(t, q, n, b)
    BY <1>6, <2>1, <2>2, <2>3 DEF Changes
  <2> QED BY <2>4, QueueChange
<1>11. [r \in Mq |-> Messages(r)]' = [r \in Mq |-> Messages(r)]
  BY <1>8, <1>10 DEF Messages, Texts
<1> QED BY <1>10, <1>11 DEF MqGood

LEMMA SentGood ==
    ASSUME MqInv, NEW t \in Thread, NEW q \in Mq, MqSent(t, q)
    PROVE  MqGood
<1> DEFINE v == frame[t].msg
           first == frame[t].call = "mq_urgent"
           b == Link(mq[q], cell[t], v, first)
           p == IF k.wait[q] # <<>> THEN "sched" ELSE "user"
<1>1. /\ frame'[t].call = "none" /\ frame[t].obj = q
      /\ \A u \in Thread \ {t} : frame'[u] = frame[u]
      /\ Framed(frame') /\ v \in Msg
  BY LeaveFrame, LeaveFramed DEF MqSent, MqInv, Framed
<1>2. /\ cell[t] # NoCell /\ cell' = [cell EXCEPT ![t] = NoCell] /\ mq' = [mq EXCEPT ![q] = b]
      /\ Goto(t, p) /\ p \in Pc /\ app' = app
      /\ mqLast' = [mqLast EXCEPT ![q].sent = v, ![q].urgent = first]
  <2>1. At(t, "between") /\ frame[t].call \in {"mq_send", "mq_urgent"}
    BY DEF MqSent
  <2>2. Copying(t)
    BY <2>1 DEF At, Copying
  <2> QED BY <2>2 DEF MqSent, MqInv, Pc
<1>3. CellsSound(mq[q], Hands(q), cell, frame)
  BY DEF MqInv
<1>4. Handles(t, q, NoCell)
  BY <1>1, <1>2 DEF Handles
<1>5. /\ Hands(q)' = Hands(q) \ {t} /\ t \in Hands(q)
      /\ Kept(Hands(q) \ {t}, cell, frame, cell', frame')
  BY <1>2, <1>4, HandsChange
<1>6. first \in BOOLEAN
  OBVIOUS
<1> HIDE DEF v, first, p
<1>7. /\ CellsSound(b, Hands(q) \ {t}, cell', frame')
      /\ Len(mq[q].queue) < MaxMsgs
      /\ Texts(b) = IF first THEN <<v>> \o Texts(mq[q]) ELSE Append(Texts(mq[q]), v)
  BY <1>1, <1>3, <1>5, <1>6, LinkSound
<1> HIDE DEF b
<1>8. ~Copying(t)'
  BY <1>1 DEF Copying
<1>9. mqLast' \in [Mq -> Accepted]
  BY <1>1, <1>2, <1>6 DEF MqInv, Accepted
<1>10. MqInv' /\ mq' = [r \in Mq |-> IF r = q THEN b ELSE mq[r]]
  <2>1. CellsSound(b, Hands(q)', cell', frame')
    BY <1>5, <1>7
  <2>2. Changes(t, q, NoCell, b)
    BY <1>1, <1>2, <1>4, <1>8, <1>9, <2>1 DEF Changes
  <2> QED BY <2>2, QueueChange
<1>11. /\ [r \in Mq |-> Messages(r)]' = [[r \in Mq |-> Messages(r)] EXCEPT ![q] = Texts(b)]
       /\ Messages(q) = Texts(mq[q])
  BY <1>10, MessagesChange
<1>12. Len(Messages(q)) < MaxMsgs
  BY <1>3, <1>7, <1>11, TextsType DEF CellsSound
<1>13. CASE first
  <2>1. MqQueue!AcceptUrgent(q, v)
    BY <1>2, <1>7, <1>11, <1>12, <1>13 DEF MqQueue!AcceptUrgent
  <2> QED BY <2>1, <1>1, <1>10 DEF MqGood, MqQueue!Next
<1>14. CASE ~first
  <2>1. MqQueue!Accept(q, v)
    <3>1. first = FALSE /\ Texts(b) = Append(Messages(q), v)
      BY <1>6, <1>7, <1>11, <1>14
    <3>2. mqLast' = [mqLast EXCEPT ![q].sent = v, ![q].urgent = FALSE]
      BY <1>2, <3>1
    <3> QED BY <3>1, <3>2, <1>11, <1>12 DEF MqQueue!Accept
  <2> QED BY <2>1, <1>1, <1>10 DEF MqGood, MqQueue!Next
<1> QED BY <1>13, <1>14

LEMMA StartRecvGood ==
    ASSUME MqInv, NEW t \in Thread, NEW q \in Mq, ~Copying(t), ~MqEmpty(q),
           StartRecv(t, q), app' = app
    PROVE  MqGood
<1> DEFINE n == Head(mq[q].queue)
           v == mq[q].text[n]
           b == TakeHead(mq[q])
<1>1. /\ frame'[t].call = "mq_recv" /\ frame'[t].obj = q /\ frame'[t].msg = v
      /\ \A u \in Thread \ {t} : frame'[u] = frame[u]
  BY EnterFrame DEF StartRecv, MqInv
<1>2. cell[t] = NoCell /\ cell' = [cell EXCEPT ![t] = n] /\ mq' = [mq EXCEPT ![q] = b]
      /\ Goto(t, "between") /\ mqLast' = [mqLast EXCEPT ![q].got = v]
  BY DEF StartRecv, MqInv
<1>3. CellsSound(mq[q], Hands(q), cell, frame) /\ mq[q].entry # 0
  BY DEF MqInv, MqEmpty
<1>4. n \in Cell
  <2>1. mq[q].queue # <<>>
    BY <1>3 DEF CellsSound, Complete
  <2> QED BY <1>3, <2>1, TailFacts DEF CellsSound, QueueOf
<1>5. n # NoCell
  BY <1>4 DEF Cell, NoCell
<1>6. Framed(frame')
  <2>1. v \in Msg
    BY <1>3, <1>4 DEF CellsSound, QueueOf
  <2> HIDE DEF n, v, b
  <2>2. Enter(t, "mq_recv", q, NoTime, v)
    BY DEF StartRecv, n, v
  <2> QED BY <2>1, <2>2, EnterFramed DEF MqInv
<1> HIDE DEF n
<1>7. Handles(t, q, n)
  BY <1>1, <1>2, <1>4 DEF Handles
<1>8. /\ Hands(q)' = Hands(q) \cup {t} /\ t \notin Hands(q) /\ cell'[t] = n
      /\ Kept(Hands(q), cell, frame, cell', frame')
  <2>1. /\ Hands(q)' = Hands(q) \cup {t} /\ t \notin Hands(q) /\ cell'[t] = n
        /\ Kept(Hands(q) \ {t}, cell, frame, cell', frame')
    BY <1>2, <1>5, <1>7, HandsChange
  <2>2. Hands(q) \ {t} = Hands(q)
    BY <2>1
  <2> QED BY <2>1, <2>2
<1>9. /\ CellsSound(b, Hands(q) \cup {t}, cell', frame')
      /\ Texts(mq[q]) # <<>> /\ v = Head(Texts(mq[q])) /\ v \in Msg
      /\ Texts(b) = Tail(Texts(mq[q]))
  <2>1. cell'[t] = Head(mq[q].queue) /\ frame'[t].msg = mq[q].text[Head(mq[q].queue)]
    BY <1>1, <1>8 DEF n
  <2> HIDE DEF v
  <2>2. /\ CellsSound(b, Hands(q) \cup {t}, cell', frame')
        /\ Texts(mq[q]) # <<>>
        /\ mq[q].text[Head(mq[q].queue)] = Head(Texts(mq[q]))
        /\ mq[q].text[Head(mq[q].queue)] \in Msg
        /\ Texts(b) = Tail(Texts(mq[q]))
    BY <1>3, <1>8, <2>1, TakeHeadSound
  <2> QED BY <2>2 DEF n, v
<1> HIDE DEF b, v
<1>10. Copying(t)'
  BY <1>1, <1>2 DEF Copying, MqInv, Goto
<1>11. mqLast' \in [Mq -> Accepted] /\ "between" \in Pc
  BY <1>2, <1>9 DEF MqInv, Accepted, Pc
<1>12. MqInv' /\ mq' = [r \in Mq |-> IF r = q THEN b ELSE mq[r]]
  <2>1. CellsSound(b, Hands(q)', cell', frame') /\ (Copying(t)' <=> n # NoCell)
    BY <1>5, <1>8, <1>9, <1>10
  <2>2. Goto(t, "between") /\ mq' = [mq EXCEPT ![q] = b]
    BY <1>2
  <2>3. Changes(t, q, n, b)
    BY <1>6, <1>7, <1>11, <2>1, <2>2 DEF Changes
  <2> QED BY <2>3, QueueChange
<1>13. /\ [r \in Mq |-> Messages(r)]' = [[r \in Mq |-> Messages(r)] EXCEPT ![q] = Texts(b)]
       /\ Messages(q) = Texts(mq[q])
  BY <1>12, MessagesChange
<1>14. MqQueue!Deliver(q)
  BY <1>2, <1>9, <1>13 DEF MqQueue!Deliver
<1> QED BY <1>12, <1>14 DEF MqGood, MqQueue!Next

LEMMA ReceivedGood ==
    ASSUME MqInv, NEW t \in Thread, NEW q \in Mq, MqReceived(t, q)
    PROVE  MqGood
<1> DEFINE b == GiveBack(mq[q], cell[t])
           p == IF k.wait[MqSenders[q]] # <<>> THEN "sched" ELSE "user"
<1>1. /\ frame'[t].call = "none" /\ frame[t].obj = q
      /\ \A u \in Thread \ {t} : frame'[u] = frame[u]
      /\ Framed(frame')
  BY LeaveFrame, LeaveFramed DEF MqReceived, MqInv
<1>2. /\ cell[t] # NoCell /\ cell' = [cell EXCEPT ![t] = NoCell] /\ mq' = [mq EXCEPT ![q] = b]
      /\ Goto(t, p) /\ p \in Pc /\ app' = app /\ mqLast' = mqLast
  <2>1. At(t, "between") /\ frame[t].call = "mq_recv"
    BY DEF MqReceived
  <2>2. Copying(t)
    BY <2>1 DEF At, Copying
  <2> QED BY <2>2 DEF MqReceived, MqInv, Pc
<1>3. CellsSound(mq[q], Hands(q), cell, frame) /\ mqLast' \in [Mq -> Accepted]
  BY <1>2 DEF MqInv
<1>4. Handles(t, q, NoCell)
  BY <1>1, <1>2 DEF Handles
<1>5. /\ Hands(q)' = Hands(q) \ {t} /\ t \in Hands(q)
      /\ Kept(Hands(q) \ {t}, cell, frame, cell', frame')
  BY <1>2, <1>4, HandsChange
<1> HIDE DEF p
<1>6. CellsSound(b, Hands(q) \ {t}, cell', frame') /\ Texts(b) = Texts(mq[q])
  BY <1>3, <1>5, GiveBackSound
<1> HIDE DEF b
<1>7. ~Copying(t)'
  BY <1>1 DEF Copying
<1>8. MqInv' /\ mq' = [r \in Mq |-> IF r = q THEN b ELSE mq[r]]
  <2>1. CellsSound(b, Hands(q)', cell', frame')
    BY <1>5, <1>6
  <2>2. Changes(t, q, NoCell, b)
    BY <1>1, <1>2, <1>3, <1>4, <1>7, <2>1 DEF Changes
  <2> QED BY <2>2, QueueChange
<1>9. [r \in Mq |-> Messages(r)]' = [r \in Mq |-> Messages(r)]
  BY <1>6, <1>8 DEF Messages, Texts
<1> QED BY <1>2, <1>8, <1>9 DEF MqGood

(* One queue changes and no hand does. *)
Refills(q, b) ==
    /\ mq' = [mq EXCEPT ![q] = b] /\ cell' = cell /\ frame' = frame /\ app' = app
    /\ CellsSound(b, Hands(q), cell', frame')
    /\ mqLast' \in [Mq -> Accepted]
    /\ pc' = pc \/ \E t \in Thread, p \in Pc : Goto(t, p) /\ pc[t] # "between" /\ p # "between"

LEMMA RefillKeeps ==
    ASSUME MqInv, NEW q \in Mq, NEW b, Refills(q, b)
    PROVE  MqInv' /\ mq' = [r \in Mq |-> IF r = q THEN b ELSE mq[r]]
<1> USE DEF Refills
<1>1. mq' = [r \in Mq |-> IF r = q THEN b ELSE mq[r]]
  BY DEF MqInv
<1>2. /\ pc' = [u \in Thread |-> pc'[u]]
      /\ \A u \in Thread : Copying(u)' <=> Copying(u)
  <2>1. CASE pc' = pc
    BY <2>1 DEF MqInv, Copying
  <2>2. ASSUME NEW t \in Thread, NEW p \in Pc, Goto(t, p), pc[t] # "between", p # "between"
        PROVE  /\ pc' = [u \in Thread |-> pc'[u]]
               /\ \A u \in Thread : Copying(u)' <=> Copying(u)
    <3>1. /\ pc' = [u \in Thread |-> pc'[u]]
          /\ pc'[t] = p /\ \A u \in Thread \ {t} : pc'[u] = pc[u]
      BY <2>2 DEF Goto, MqInv
    <3> QED BY <3>1, <2>2 DEF Copying
  <2> QED BY <2>1, <2>2
<1>3. \A r \in Mq : Hands(r)' = Hands(r)
  BY DEF Hands
<1>4. ASSUME NEW r \in Mq PROVE CellsSound(mq'[r], Hands(r)', cell', frame')
  <2>1. CASE r = q
    BY <1>1, <1>3, <2>1
  <2>2. CASE r # q
    BY <1>1, <1>3, <2>2 DEF MqInv
  <2> QED BY <2>1, <2>2
<1> QED BY <1>1, <1>2, <1>4 DEF MqInv

LEMMA DeviceGood ==
    ASSUME MqInv, NEW q \in Mq, NEW v \in Msg, DeviceMqSend(q, v)
    PROVE  MqGood
<1> DEFINE b == Link(TakeFree(mq[q]), Head(mq[q].free), v, FALSE)
<1>1. /\ mq' = [mq EXCEPT ![q] = b] /\ cell' = cell /\ frame' = frame /\ app' = app /\ pc' = pc
      /\ mqLast' = [mqLast EXCEPT ![q].sent = v, ![q].urgent = FALSE]
  BY DEF DeviceMqSend, waitVars, MqInv
<1>2. CellsSound(mq[q], Hands(q), cell, frame) /\ mq[q].free # <<>>
      /\ Kept(Hands(q), cell, frame, cell', frame')
  BY <1>1 DEF MqInv, DeviceMqSend, MqFull, Kept
<1>3. /\ CellsSound(b, Hands(q), cell', frame')
      /\ Len(mq[q].queue) < MaxMsgs
      /\ Texts(b) = Append(Texts(mq[q]), v)
  BY <1>2, DeviceLinkSound
<1> HIDE DEF b
<1>4. mqLast' \in [Mq -> Accepted]
  BY <1>1 DEF MqInv, Accepted
<1>5. Refills(q, b)
  BY <1>1, <1>3, <1>4 DEF Refills
<1>6. MqInv' /\ mq' = [r \in Mq |-> IF r = q THEN b ELSE mq[r]]
  BY <1>5, RefillKeeps
<1>7. /\ [r \in Mq |-> Messages(r)]' = [[r \in Mq |-> Messages(r)] EXCEPT ![q] = Texts(b)]
      /\ Messages(q) = Texts(mq[q])
  BY <1>6, MessagesChange
<1>8. Len(Messages(q)) < MaxMsgs
  BY <1>2, <1>3, <1>7, TextsType DEF CellsSound
<1>9. MqQueue!Accept(q, v)
  BY <1>1, <1>3, <1>7, <1>8 DEF MqQueue!Accept
<1> QED BY <1>6, <1>9 DEF MqGood, MqQueue!Next

LEMMA ResetGood ==
    ASSUME MqInv, NEW t \in Thread, NEW q \in Mq, MqReset(t, q)
    PROVE  MqGood
<1> DEFINE b == Emptied(mq[q])
<1>1. /\ mq' = [mq EXCEPT ![q] = b] /\ cell' = cell /\ frame' = frame /\ app' = app
      /\ mqLast' = mqLast /\ Goto(t, "sched") /\ pc[t] # "between"
  BY DEF MqReset, waitVars, MqInv, Asks, At
<1>2. CellsSound(mq[q], Hands(q), cell, frame)
      /\ Kept(Hands(q), cell, frame, cell', frame')
  BY <1>1 DEF MqInv, Kept
<1>3. CellsSound(b, Hands(q), cell', frame') /\ Texts(b) = <<>>
  BY <1>2, EmptiedSound
<1> HIDE DEF b
<1>4. mqLast' \in [Mq -> Accepted] /\ "sched" \in Pc
  BY <1>1 DEF MqInv, Pc
<1>5. Refills(q, b)
  BY <1>1, <1>3, <1>4 DEF Refills
<1>6. MqInv' /\ mq' = [r \in Mq |-> IF r = q THEN b ELSE mq[r]]
  BY <1>5, RefillKeeps
<1>7. [r \in Mq |-> Messages(r)]' = [[r \in Mq |-> Messages(r)] EXCEPT ![q] = <<>>]
  BY <1>3, <1>6, MessagesChange
<1>8. MqQueue!Clear(q)
  BY <1>1, <1>7 DEF MqQueue!Clear
<1> QED BY <1>6, <1>8 DEF MqGood, MqQueue!Next

(* The steps that touch no message queue. *)
Apart == mq' = mq /\ cell' = cell /\ mqLast' = mqLast

LEMMA ApartMqVars == ASSUME UNCHANGED mqVars PROVE Apart
BY DEF mqVars, Apart

LEMMA UserStep ==
    ASSUME MqInv, NEW t \in Thread, pc[t] # "between", NEW p \in Pc, p # "between", Goto(t, p),
           Apart, app' = app, Framed(frame'), \A u \in Thread \ {t} : frame'[u] = frame[u]
    PROVE  MqGood
<1>1. pc'[t] = p
  BY DEF MqInv, Goto
<1>2. Away(t)
  BY <1>1 DEF Away, Copying
<1> QED BY <1>2, BesideGood DEF Beside, Apart

LEMMA StillStep ==
    ASSUME MqInv, pc' = pc, frame' = frame, app' = app, Apart
    PROVE  MqGood
BY ThreadAssumption, BesideGood DEF Beside, Apart, Away, MqInv

(* No kernel call begins or ends a copy. *)
Goes == pc' = pc \/ \E t \in Thread, p \in Pc : Goto(t, p) /\ pc[t] # "between" /\ p # "between"

LEMMA KernelGoes == ASSUME Next PROVE Goes
<1>1. ASSUME NEW t \in Thread, ThreadStep(t) PROVE Goes
  <2>1. CASE \/ Yield(t) \/ EnterCritical(t) \/ \E u \in prog.prio, p \in NewPrio : SetPriority(t, u, p)
    BY <2>1 DEF Yield, EnterCritical, SetPriority, Goes
  <2>2. CASE \E n \in SleepArg : Sleep(t, n)
    BY <2>2 DEF Sleep, Does, At, Goes, Pc
  <2>3. CASE CallSchedule(t)
    BY <2>3 DEF CallSchedule, At, Goes, Pc
  <2>4. CASE SleepReturn(t)
    BY <2>4 DEF SleepReturn, At, Goes, Pc
  <2>5. CASE ExitCritical(t)
    BY <2>5 DEF ExitCritical, Does, At, Goes, Pc
  <2>6. CASE SuspendSelf(t)
    BY <2>6 DEF SuspendSelf, Does, At, Goes, Pc
  <2>7. CASE \E u \in prog.resumed : ResumeCheck(t, u)
    BY <2>7 DEF ResumeCheck, Does, At, Goes, Pc
  <2>8. CASE \E u \in prog.deleted : DeleteCheck(t, u)
    <3>1. PICK u \in prog.deleted : DeleteCheck(t, u)
      BY <2>8
    <3>2. At(t, "user") /\ (Goto(t, "delete_close") \/ Goto(t, "delete_remove"))
      BY <3>1 DEF DeleteCheck, Does
    <3> QED BY <3>2 DEF At, Goes, Pc
  <2>9. CASE ResumeDo(t)
    BY <2>9 DEF ResumeDo, At, Goes, Pc
  <2>10. CASE Start(t)
    BY <2>10 DEF Start, Startup, Does, At, Goes, Pc
  <2>11. CASE Exit(t)
    BY <2>11 DEF Exit, Does, At, Goes, Pc
  <2>12. CASE DeleteRemove(t)
    BY <2>12 DEF DeleteRemove, At, Goes, Pc
  <2>13. CASE DeleteClose(t)
    BY <2>13 DEF DeleteClose, At, Goes, Pc
  <2> QED BY <1>1, <2>1, <2>2, <2>3, <2>4, <2>5, <2>6, <2>7, <2>8, <2>9, <2>10, <2>11, <2>12, <2>13
          DEF ThreadStep
<1>2. CASE IdleLook
  BY <1>2, ThreadAssumption DEF IdleLook, At, Goes, Pc
<1>3. CASE IdleTake
  BY <1>3, ThreadAssumption DEF IdleTake, At, Goes, Pc
<1>4. CASE PendSV \/ Interrupt
  BY <1>4 DEF PendSV, Interrupt, TickInterrupt, TickSchedule, TimerFires, TickReturn,
              DeviceResumes, Goes
<1> QED BY <1>1, <1>2, <1>3, <1>4 DEF Next

LEMMA KernelGood ==
    ASSUME MqInv, Next, frame' = frame, app' = app, Apart
    PROVE  MqGood
<1>1. CASE pc' = pc
  BY <1>1, StillStep
<1>2. ASSUME NEW t \in Thread, NEW p \in Pc, Goto(t, p), pc[t] # "between", p # "between"
      PROVE  MqGood
  BY <1>2, UserStep DEF MqInv
<1> QED BY <1>1, <1>2, KernelGoes DEF Goes

(* The three ways in which a call of an IPC object goes on: it waits, it goes *)
(* on with the frame it has, or it returns.                                  *)
LEMMA EnterStep ==
    ASSUME MqInv, NEW t \in Thread, pc[t] # "between", NEW p \in Pc, p # "between", Goto(t, p),
           Apart, app' = app, NEW call, NEW o, NEW n, NEW v \in Msg, Enter(t, call, o, n, v)
    PROVE  MqGood
BY UserStep, EnterFrame, EnterFramed DEF MqInv

LEMMA LeaveStep ==
    ASSUME MqInv, NEW t \in Thread, pc[t] # "between", NEW p \in Pc, p # "between", Goto(t, p),
           Apart, app' = app, Leave(t)
    PROVE  MqGood
BY UserStep, LeaveFrame, LeaveFramed DEF MqInv

LEMMA StayStep ==
    ASSUME MqInv, NEW t \in Thread, pc[t] # "between", NEW p \in Pc, p # "between", Goto(t, p),
           Apart, app' = app, frame' = frame
    PROVE  MqGood
BY UserStep DEF MqInv

LEMMA MqMails == MqInv => NoCall.msg \in Msg /\ app.mails \subseteq Msg
               /\ \A t \in Thread : frame[t].msg \in Msg
BY NoCallFramed, WaitAssumption DEF MqInv, App, Framed

LEMMA PcNames == {"user", "sched", "wait_sched", "woken", "wake_test", "wake_take", "between"} \subseteq Pc
BY DEF Pc

LEMMA WaitGood ==
    ASSUME MqInv, NEW t \in Thread, WaitStep(t), Apart
    PROVE  MqGood
<1>1. CASE WaitSchedule(t)
  BY <1>1, StayStep, PcNames DEF WaitSchedule, At, waitVars
<1>2. CASE WaitFails(t)
  BY <1>2, LeaveStep, PcNames DEF WaitFails, At
<1>3. CASE WakeMore(t)
  BY <1>3, StayStep, PcNames DEF WakeMore, At, waitVars
<1>4. CASE WakeTake(t)
  BY <1>4, StayStep, PcNames DEF WakeTake, At, waitVars
<1> QED BY <1>1, <1>2, <1>3, <1>4 DEF WaitStep

LEMMA MutexGood ==
    ASSUME MqInv, NEW t \in Thread, MutexStep(t), Apart
    PROVE  MqGood
<1>1. ASSUME NEW m \in Mutex, \/ MutexTakeFree(t, m) \/ MutexTakeAgain(t, m)
                              \/ MutexTakeRefused(t, m) \/ MutexReleaseRefused(t, m)
                              \/ MutexReleaseInner(t, m)
      PROVE  MqGood
  BY <1>1, StillStep DEF MutexTakeFree, MutexTakeAgain, MutexTakeRefused, MutexReleaseRefused,
                         MutexReleaseInner, waitVars
<1>2. ASSUME NEW m \in Mutex, NEW n, MutexTakeWait(t, m, n) PROVE MqGood
  <2>1. Enter(t, "mutex_take", m, n, NoCall.msg) /\ pc[t] # "between" /\ Goto(t, "wait_sched")
        /\ app' = app
    BY <1>2 DEF MutexTakeWait, Asks, At
  <2> QED BY <2>1, EnterStep, MqMails, PcNames
<1>3. ASSUME NEW m \in Mutex, MutexRelease(t, m) PROVE MqGood
  <2>1. pc[t] # "between" /\ (Goto(t, "sched") \/ pc' = pc) /\ app' = app /\ frame' = frame
    BY <1>3 DEF MutexRelease, Asks, At, waitVars
  <2> QED BY <2>1, StayStep, StillStep, PcNames
<1>4. ASSUME NEW m \in Mutex, MutexDetach(t, m) PROVE MqGood
  <2>1. Enter(t, "mutex_detach", m, NoTime, NoCall.msg) /\ pc[t] # "between"
        /\ Goto(t, "wake_test") /\ app' = app
    BY <1>4 DEF MutexDetach, Asks, At
  <2> QED BY <2>1, EnterStep, MqMails, PcNames
<1>5. CASE MutexTaken(t)
  BY <1>5, LeaveStep, PcNames DEF MutexTaken, Woken, At
<1>6. CASE MutexDetached(t)
  <2>1. pc[t] # "between" /\ (Goto(t, "sched") \/ Goto(t, "user")) /\ app' = app /\ Leave(t)
    BY <1>6 DEF MutexDetached, AllWoken, At
  <2> QED BY <2>1, LeaveStep, PcNames
<1> QED BY <1>1, <1>2, <1>3, <1>4, <1>5, <1>6 DEF MutexStep

LEMMA EventGood ==
    ASSUME MqInv, NEW t \in Thread, EventStep(t), Apart
    PROVE  MqGood
<1>1. ASSUME NEW e \in Event, NEW set \in Sent, EventSend(t, e, set) PROVE MqGood
  <2>1. pc[t] # "between" /\ (Goto(t, "sched") \/ pc' = pc) /\ app' = app /\ frame' = frame
    BY <1>1 DEF EventSend, Asks, At, waitVars
  <2> QED BY <2>1, StayStep, StillStep, PcNames
<1>2. ASSUME NEW e \in Event, NEW w, EventRecvNow(t, e, w) \/ EventRecvRefused(t, e, w)
      PROVE  MqGood
  BY <1>2, StillStep DEF EventRecvNow, EventRecvRefused, waitVars
<1>3. ASSUME NEW e \in Event, NEW w, NEW n, EventRecvWait(t, e, w, n) PROVE MqGood
  <2>1. Enter(t, "event_recv", e, n, NoCall.msg) /\ pc[t] # "between" /\ Goto(t, "wait_sched")
        /\ app' = app
    BY <1>3 DEF EventRecvWait, Asks, At
  <2> QED BY <2>1, EnterStep, MqMails, PcNames
<1>4. ASSUME NEW e \in Event, EventReset(t, e) PROVE MqGood
  <2>1. pc[t] # "between" /\ Goto(t, "sched") /\ app' = app /\ frame' = frame
    BY <1>4 DEF EventReset, Asks, At, waitVars
  <2> QED BY <2>1, StayStep, PcNames
<1>5. ASSUME NEW e \in Event, EventDetach(t, e) PROVE MqGood
  <2>1. Enter(t, "event_detach", e, NoTime, NoCall.msg) /\ pc[t] # "between"
        /\ Goto(t, "wake_test") /\ app' = app
    BY <1>5 DEF EventDetach, Asks, At
  <2> QED BY <2>1, EnterStep, MqMails, PcNames
<1>6. CASE EventReceived(t)
  BY <1>6, LeaveStep, PcNames DEF EventReceived, Woken, At
<1>7. CASE EventDetached(t)
  <2>1. pc[t] # "between" /\ (Goto(t, "sched") \/ Goto(t, "user")) /\ app' = app /\ Leave(t)
    BY <1>7 DEF EventDetached, AllWoken, At
  <2> QED BY <2>1, LeaveStep, PcNames
<1> QED BY <1>1, <1>2, <1>3, <1>4, <1>5, <1>6, <1>7 DEF EventStep

LEMMA PoolGood ==
    ASSUME MqInv, NEW t \in Thread, PoolStep(t), Apart
    PROVE  MqGood
<1>1. ASSUME NEW o \in Pool, Alloc(t, o) \/ AllocRefused(t, o) PROVE MqGood
  BY <1>1, StillStep DEF Alloc, AllocRefused, waitVars
<1>2. ASSUME NEW o \in Pool, NEW n, AllocWait(t, o, n) PROVE MqGood
  <2>1. Enter(t, "mp_alloc", o, n, NoCall.msg) /\ pc[t] # "between" /\ Goto(t, "wait_sched")
        /\ app' = app
    BY <1>2 DEF AllocWait, Asks, At
  <2> QED BY <2>1, EnterStep, MqMails, PcNames
<1>3. ASSUME NEW o \in Pool, AllocAgain(t, o) PROVE MqGood
  <2>1. ~Copying(t) /\ app' = app
    BY <1>3 DEF AllocAgain, Copying
  <2>2. \/ Leave(t) /\ Goto(t, "user")
        \/ Enter(t, "mp_alloc", o, frame[t].left, NoCall.msg) /\ Goto(t, "wait_sched")
    BY <1>3 DEF AllocAgain
  <2>3. Framed(frame') /\ \A u \in Thread \ {t} : frame'[u] = frame[u]
    BY <2>2, LeaveFrame, LeaveFramed, EnterFrame, EnterFramed, MqMails DEF MqInv
  <2>4. pc'[t] # "between" /\ \E p \in Pc : Goto(t, p)
    BY <2>2, PcNames DEF MqInv, Goto
  <2>5. Away(t)
    BY <2>1, <2>3, <2>4 DEF Away, Copying
  <2> QED BY <2>1, <2>3, <2>5, BesideGood DEF Beside, Apart
<1>4. ASSUME NEW o \in Pool, NEW b \in out[o], FreeBlock(t, o, b) PROVE MqGood
  <2>1. pc[t] # "between" /\ (Goto(t, "sched") \/ pc' = pc) /\ app' = app /\ frame' = frame
    BY <1>4 DEF FreeBlock, Asks, At, waitVars
  <2> QED BY <2>1, StayStep, StillStep, PcNames
<1>5. ASSUME NEW o \in Pool, PoolDetach(t, o) PROVE MqGood
  <2>1. Enter(t, "mp_detach", o, NoTime, NoCall.msg) /\ pc[t] # "between"
        /\ Goto(t, "wake_test") /\ app' = app
    BY <1>5 DEF PoolDetach, Asks, At
  <2> QED BY <2>1, EnterStep, MqMails, PcNames
<1>6. CASE AllocWoken(t)
  <2>1. pc[t] # "between" /\ frame[t].call = "mp_alloc" /\ Goto(t, "between") /\ app' = app
        /\ frame' = [frame EXCEPT ![t].left = Left(t), ![t].since = 0]
    BY <1>6 DEF AllocWoken, Woken, At
  <2>2. /\ \A u \in Thread \ {t} : frame'[u] = frame[u]
        /\ frame'[t] = [frame[t] EXCEPT !.left = Left(t), !.since = 0]
        /\ frame' = [u \in Thread |-> frame'[u]]
    BY <2>1 DEF MqInv, Framed
  <2>3. frame'[t] = [call |-> "mp_alloc", obj |-> frame[t].obj, left |-> Left(t),
                     since |-> 0, msg |-> frame[t].msg]
    BY <2>1, <2>2 DEF MqInv, Framed
  <2>4. Framed(frame')
    BY <2>2, <2>3 DEF MqInv, Framed
  <2>5. ~Copying(t) /\ ~Copying(t)'
    BY <2>1, <2>3 DEF Copying
  <2>6. Away(t)
    BY <2>1, <2>2, <2>5, PcNames DEF Away
  <2> QED BY <2>1, <2>4, <2>6, BesideGood DEF Beside, Apart
<1>7. CASE PoolDetached(t)
  <2>1. pc[t] # "between" /\ (Goto(t, "sched") \/ Goto(t, "user")) /\ app' = app /\ Leave(t)
    BY <1>7 DEF PoolDetached, AllWoken, At
  <2> QED BY <2>1, LeaveStep, PcNames
<1> QED BY <1>1, <1>2, <1>3, <1>4, <1>5, <1>6, <1>7 DEF PoolStep

LEMMA MqStepGood ==
    ASSUME MqInv, NEW t \in Thread, MqStep(t)
    PROVE  MqGood
<1>1. ASSUME NEW q \in Mq, NEW v \in app.mails, NEW call \in {"mq_send", "mq_urgent"},
             MqSend(t, q, call, v)
      PROVE  MqGood
  <2>1. ~Copying(t) /\ ~MqFull(q) /\ StartSend(t, q, call, v) /\ mqLast' = mqLast /\ app' = app
    BY <1>1 DEF MqSend, Asks, At, Copying
  <2>2. v \in Msg
    BY MqMails
  <2> QED BY <2>1, <2>2, StartSendGood
<1>2. ASSUME NEW q \in Mq, NEW v \in app.mails, NEW n, MqSendWait(t, q, v, n) PROVE MqGood
  <2>1. Enter(t, "mq_send", MqSenders[q], n, v) /\ pc[t] # "between" /\ Goto(t, "wait_sched")
        /\ app' = app /\ Apart
    BY <1>2, ApartMqVars DEF MqSendWait, Asks, At
  <2>2. v \in Msg
    BY MqMails
  <2> QED BY <2>1, <2>2, EnterStep, PcNames
<1>3. ASSUME NEW q \in Mq, MqSendAgain(t, q) PROVE MqGood
  <2>1. pc[t] # "between" /\ app' = app /\ mqLast' = mqLast /\ ~Copying(t) /\ frame[t].msg \in Msg
    BY <1>3, MqMails DEF MqSendAgain, Woken, At, Copying
  <2>2. CASE ~MqFull(q)
    <3>1. StartSend(t, q, "mq_send", frame[t].msg)
      BY <1>3, <2>2 DEF MqSendAgain
    <3> QED BY <2>1, <2>2, <3>1, StartSendGood
  <2>3. CASE MqFull(q)
    <3>1. \/ Goto(t, "user") /\ Leave(t)
          \/ Enter(t, "mq_send", MqSenders[q], Left(t), frame[t].msg) /\ Goto(t, "wait_sched")
      BY <1>3, <2>3 DEF MqSendAgain
    <3>2. Apart
      BY <1>3, <2>3, <2>1 DEF MqSendAgain, Apart
    <3> QED BY <2>1, <3>1, <3>2, LeaveStep, EnterStep, PcNames
  <2> QED BY <2>2, <2>3
<1>4. ASSUME NEW q \in Mq, NEW n, MqRecvWait(t, q, n) PROVE MqGood
  <2>1. Enter(t, "mq_recv", q, n, NoCall.msg) /\ pc[t] # "between" /\ Goto(t, "wait_sched")
        /\ app' = app /\ Apart
    BY <1>4, ApartMqVars DEF MqRecvWait, Asks, At
  <2> QED BY <2>1, MqMails, EnterStep, PcNames
<1>5. ASSUME NEW q \in Mq, MqRecv(t, q) PROVE MqGood
  <2>1. ~Copying(t) /\ ~MqEmpty(q) /\ StartRecv(t, q) /\ app' = app
    BY <1>5 DEF MqRecv, Asks, At, Copying
  <2> QED BY <2>1, StartRecvGood
<1>6. ASSUME NEW q \in Mq, MqRecvAgain(t, q) PROVE MqGood
  <2>1. pc[t] # "between" /\ app' = app /\ ~Copying(t)
    BY <1>6 DEF MqRecvAgain, Woken, At, Copying
  <2>2. CASE ~MqEmpty(q)
    <3>1. StartRecv(t, q)
      BY <1>6, <2>2 DEF MqRecvAgain
    <3> QED BY <2>1, <2>2, <3>1, StartRecvGood
  <2>3. CASE MqEmpty(q)
    <3>1. \/ Goto(t, "user") /\ Leave(t)
          \/ Enter(t, "mq_recv", q, Left(t), NoCall.msg) /\ Goto(t, "wait_sched")
      BY <1>6, <2>3 DEF MqRecvAgain
    <3>2. Apart
      BY <1>6, <2>3 DEF MqRecvAgain, Apart
    <3> QED BY <2>1, <3>1, <3>2, MqMails, LeaveStep, EnterStep, PcNames
  <2> QED BY <2>2, <2>3
<1>7. ASSUME NEW q \in Mq, MqDetach(t, q) PROVE MqGood
  <2>1. Enter(t, "mq_detach", q, NoTime, NoCall.msg) /\ pc[t] # "between"
        /\ Goto(t, "wake_test") /\ app' = app /\ Apart
    BY <1>7 DEF MqDetach, Asks, At, Apart
  <2> QED BY <2>1, MqMails, EnterStep, PcNames
<1>8. ASSUME NEW q \in Mq, MqDetached(t, q) PROVE MqGood
  <2>1. pc[t] # "between" /\ app' = app /\ Apart
    BY <1>8, ApartMqVars DEF MqDetached, AllWoken, At
  <2>2. CASE Leave(t) /\ (Goto(t, "user") \/ Goto(t, "sched"))
    BY <2>1, <2>2, LeaveStep, PcNames
  <2>3. CASE frame' = [frame EXCEPT ![t].obj = MqSenders[q]] /\ UNCHANGED pc
    <3>1. Framed(frame') /\ \A u \in Thread \ {t} : frame'[u] = frame[u]
      BY <2>3, TurnFramed DEF MqInv, Framed
    <3>2. Goto(t, "wake_test") /\ "wake_test" \in Pc
      BY <1>8, <2>3, PcNames DEF MqDetached, AllWoken, At, Goto, MqInv
    <3> QED BY <2>1, <3>1, <3>2, UserStep
  <2> QED BY <1>8, <2>2, <2>3 DEF MqDetached
<1> QED BY <1>1, <1>2, <1>3, <1>4, <1>5, <1>6, <1>7, <1>8, SentGood, ReceivedGood, ResetGood DEF MqStep

LEMMA EveryStepGood ==
    ASSUME MqInv, [ObjectsNext]_objectVars
    PROVE  MqGood
<1>1. CASE UNCHANGED objectVars
  BY <1>1, ApartMqVars, StillStep DEF objectVars, vars, waitVars
<1>2. CASE Next /\ UNCHANGED <<waitVars, mutexVars>> /\ OnlyMutexes
  BY <1>2, ApartMqVars, KernelGood DEF waitVars, OnlyMutexes
<1>3. ASSUME NEW t \in Thread, WaitStep(t) /\ OnlyMutexes PROVE MqGood
  BY <1>3, ApartMqVars, WaitGood DEF OnlyMutexes
<1>4. ASSUME NEW t \in Thread, MutexStep(t) /\ OnlyMutexes PROVE MqGood
  BY <1>4, ApartMqVars, MutexGood DEF OnlyMutexes
<1>5. ASSUME NEW t \in Thread, EventStep(t) /\ OnlyEvents PROVE MqGood
  BY <1>5, ApartMqVars, EventGood DEF OnlyEvents
<1>6. ASSUME NEW t \in Thread, PoolStep(t) /\ OnlyPools PROVE MqGood
  BY <1>6, ApartMqVars, PoolGood DEF OnlyPools
<1>7. CASE ObjectsDevice
  <2>1. ASSUME NEW e \in Event, NEW set \in Sent, DeviceEventSend(e, set) /\ OnlyEvents PROVE MqGood
    BY <2>1, ApartMqVars, StillStep DEF OnlyEvents, DeviceEventSend, waitVars
  <2>2. ASSUME NEW q \in Mq, NEW v \in app.mails, DeviceMqSend(q, v) PROVE MqGood
    BY <2>2, MqMails, DeviceGood
  <2>3. ASSUME NEW o \in Pool, NEW b \in out[o], DeviceFree(o, b) /\ OnlyPools PROVE MqGood
    BY <2>3, ApartMqVars, StillStep DEF OnlyPools, DeviceFree, waitVars
  <2> QED BY <1>7, <2>1, <2>2, <2>3 DEF ObjectsDevice
<1> QED BY <1>1, <1>2, <1>3, <1>4, <1>5, <1>6, <1>7, MqStepGood DEF ObjectsNext

(* Initially all cells are free. *)
LEMMA FreshSound ==
    ASSUME NEW c, NEW f
    PROVE  CellsSound(FreshMq, {}, c, f) /\ Texts(FreshMq) = <<>>
<1> DEFINE s == [i \in Cell |-> i]
           r == Reverse(s)
<1>1. /\ MaxMsgs \in Nat /\ s \in Seq(Cell) /\ Len(s) = MaxMsgs /\ DOMAIN s = 1..MaxMsgs
      /\ \A i \in 1..MaxMsgs : s[i] = i
  BY MqAssumption DEF Cell
<1>2. Elems(s) = Cell /\ IsOnce(s)
  BY <1>1 DEF Elems, IsOnce, Cell
<1> HIDE DEF s
<1>3. r \in Seq(Cell) /\ Len(r) = MaxMsgs /\ Elems(r) = Cell /\ IsOnce(r)
  BY <1>1, <1>2, ReverseFacts
<1>4. FreshMq = [free |-> r, queue |-> <<>>, text |-> [n \in Cell |-> NoCall.msg], entry |-> 0]
  BY DEF FreshMq, s
<1> HIDE DEF r
<1>5. FreshMq \in QueueOf
  <2>1. [n \in Cell |-> NoCall.msg] \in [Cell -> Msg]
    BY NoCallFramed
  <2> QED BY <1>3, <1>4, <2>1 DEF QueueOf
<1>6. FreshMq.free = r /\ FreshMq.queue = <<>> /\ FreshMq.entry = 0
      /\ Elems(FreshMq.queue) = {} /\ IsOnce(FreshMq.queue) /\ Len(FreshMq.queue) = 0
  BY <1>4 DEF Elems, IsOnce
<1>7. IsFiniteSet({}) /\ Cardinality({}) = 0
  BY FS_EmptySet
<1>8. Complete(FreshMq, {}, c)
  <2>1. MaxMsgs = Len(FreshMq.free) + Len(FreshMq.queue) + Cardinality({})
    BY <1>1, <1>3, <1>6, <1>7
  <2> QED BY <2>1, <1>3, <1>6, <1>7 DEF Complete
<1>9. Texts(FreshMq) = <<>>
  <2>1. Texts(FreshMq) \in Seq(Msg) /\ Len(Texts(FreshMq)) = 0
    BY <1>5, <1>6, TextsType
  <2> QED BY <2>1
<1> QED BY <1>3, <1>5, <1>6, <1>8, <1>9 DEF CellsSound, Distinct, Copied

LEMMA InitMq == ObjectsInit => MqInv /\ MqQueue!Init
<1> SUFFICES ASSUME ObjectsInit PROVE MqInv /\ MqQueue!Init
  OBVIOUS
<1>1. Framed(frame) /\ app \in Apps
  BY NoCallFramed DEF ObjectsInit, WaitInit, Framed, NoCall
<1>2. /\ pc = [t \in Thread |-> "user"] /\ frame = [t \in Thread |-> NoCall]
      /\ cell = [t \in Thread |-> NoCell] /\ mq = [q \in Mq |-> FreshMq]
      /\ mqLast = [q \in Mq |-> [sent |-> NoCall.msg, urgent |-> FALSE, got |-> NoCall.msg]]
  BY DEF ObjectsInit, Init, WaitInit, MqInitState
<1>3. mqLast \in [Mq -> Accepted]
  BY <1>2, NoCallFramed DEF Accepted
<1>4. \A q \in Mq : Hands(q) = {}
  BY <1>2 DEF Hands
<1>5. \A q \in Mq : CellsSound(mq[q], Hands(q), cell, frame) /\ Messages(q) = <<>>
  <2> SUFFICES ASSUME NEW q \in Mq
               PROVE  CellsSound(mq[q], Hands(q), cell, frame) /\ Messages(q) = <<>>
    OBVIOUS
  <2>1. mq[q] = FreshMq /\ Messages(q) = Texts(mq[q])
    BY <1>2 DEF Messages, Texts
  <2> QED BY <2>1, <1>4, FreshSound
<1>6. \A t \in Thread : /\ cell[t] # NoCell <=> Copying(t)
                        /\ Copying(t) => frame[t].obj \in Mq
  BY <1>2 DEF Copying
<1>7. /\ pc = [t \in Thread |-> pc[t]] /\ mq = [q \in Mq |-> mq[q]]
      /\ cell \in [Thread -> Cell \cup {NoCell}]
  BY <1>2
<1>8. MqInv
  BY <1>1, <1>3, <1>5, <1>6, <1>7 DEF MqInv
<1>9. MqQueue!Init
  BY <1>3, <1>5 DEF MqQueue!Init, Accepted
<1> QED BY <1>8, <1>9

(* The message queues of the detailed model, in which a message is copied    *)
(* with interrupts enabled and threads are woken, overtaken, timed out and   *)
(* interrupted, are queues: messages are handed out in the order in which    *)
(* they were linked, urgent ones first, none lost and none twice.            *)
THEOREM QueuesAreQueues == ObjectsSpec => MqIsQueue
<1>1. MqInv /\ [ObjectsNext]_objectVars => MqInv'
  BY EveryStepGood DEF MqGood
<1>2. MqInv /\ [ObjectsNext]_objectVars
         => [MqQueue!Next]_<<[q \in Mq |-> Messages(q)], mqLast>>
  BY EveryStepGood DEF MqGood
<1> QED BY <1>1, <1>2, InitMq, PTL DEF ObjectsSpec, MqIsQueue, MqQueue!Spec

-----------------------------------------------------------------------------
(* The blocks of a memory pool.  O are the blocks handed out. *)

PoolSound(b, O) ==
    /\ b \in [list : Seq(BlockId), count : Nat]
    /\ IsOnce(b.list) /\ b.count = Len(b.list)
    /\ O \in SUBSET BlockId /\ IsFiniteSet(O)
    /\ O \cap Elems(b.list) = {} /\ BlockId = Elems(b.list) \cup O
    /\ b.count + Cardinality(O) = Total

LEMMA AllFreeSound == PoolSound(AllFree, {})
<1> DEFINE s == [i \in BlockId |-> i]
<1>1. /\ Total \in Nat /\ s \in Seq(BlockId) /\ Len(s) = Total /\ DOMAIN s = 1..Total
      /\ \A i \in 1..Total : s[i] = i
  BY PoolAssumption DEF BlockId
<1>2. Elems(s) = BlockId /\ IsOnce(s)
  BY <1>1 DEF Elems, IsOnce, BlockId
<1>3. AllFree = [list |-> s, count |-> Total]
  BY DEF AllFree
<1> HIDE DEF s
<1>4. /\ AllFree \in [list : Seq(BlockId), count : Nat]
      /\ AllFree.list = s /\ AllFree.count = Total
  BY <1>1, <1>3
<1>5. IsFiniteSet({}) /\ Cardinality({}) = 0
  BY FS_EmptySet
<1>6. AllFree.count + Cardinality({}) = Total
  BY <1>1, <1>4, <1>5
<1> QED BY <1>1, <1>2, <1>4, <1>5, <1>6 DEF PoolSound

LEMMA PopSound ==
    ASSUME NEW b, NEW O, PoolSound(b, O), b.count > 0
    PROVE  PoolSound(Pop(b), O \cup {Head(b.list)})
<1> DEFINE r == Pop(b)
           n == Head(b.list)
<1>1. b.list \in Seq(BlockId) /\ b.count = Len(b.list) /\ b.count \in Nat /\ b.list # <<>>
  BY DEF PoolSound
<1>2. /\ Tail(b.list) \in Seq(BlockId) /\ Len(Tail(b.list)) = Len(b.list) - 1 /\ n \in BlockId
      /\ Elems(b.list) = {n} \cup Elems(Tail(b.list))
      /\ IsOnce(b.list) => IsOnce(Tail(b.list)) /\ n \notin Elems(Tail(b.list))
  BY <1>1, TailFacts
<1>3. r.list = Tail(b.list) /\ r.count = b.count - 1
      /\ r = [list |-> Tail(b.list), count |-> b.count - 1]
  BY DEF Pop
<1> HIDE DEF r, n
<1>4. r \in [list : Seq(BlockId), count : Nat]
  <2>1. b.count - 1 \in Nat
    BY <1>1
  <2> QED BY <2>1, <1>2, <1>3
<1>5. n \notin O
  BY <1>2 DEF PoolSound
<1>6. /\ IsFiniteSet(O \cup {n}) /\ Cardinality(O \cup {n}) = Cardinality(O) + 1
      /\ Cardinality(O) \in Nat
  BY <1>5, OneMore DEF PoolSound
<1>7. r.count + Cardinality(O \cup {n}) = Total
  <2>1. b.count + Cardinality(O) = Total /\ r.count = b.count - 1
    BY <1>3 DEF PoolSound
  <2> QED BY <2>1, <1>1, <1>6
<1>8. r.count = Len(r.list)
  BY <1>1, <1>2, <1>3
<1> QED BY <1>2, <1>3, <1>4, <1>5, <1>6, <1>7, <1>8 DEF PoolSound, r, n

LEMMA PushSound ==
    ASSUME NEW b, NEW O, PoolSound(b, O), NEW n \in O
    PROVE  PoolSound([list |-> PushFront(b.list, n), count |-> b.count + 1], O \ {n})
<1> DEFINE r == [list |-> PushFront(b.list, n), count |-> b.count + 1]
<1>1. /\ b.list \in Seq(BlockId) /\ b.count = Len(b.list) /\ b.count \in Nat
      /\ n \in BlockId /\ n \notin Elems(b.list)
  BY DEF PoolSound
<1>2. /\ PushFront(b.list, n) \in Seq(BlockId)
      /\ Elems(PushFront(b.list, n)) = Elems(b.list) \cup {n}
      /\ IsOnce(b.list) => IsOnce(PushFront(b.list, n))
  <2>1. b.list \in Seq(BlockId) /\ n \in BlockId /\ n \notin Elems(b.list)
    BY <1>1
  <2>2. \A S : \A z \in Seq(S), m \in S :
            /\ PushFront(z, m) \in Seq(S) /\ Elems(PushFront(z, m)) = Elems(z) \cup {m}
            /\ IsOnce(z) /\ m \notin Elems(z) => IsOnce(PushFront(z, m))
    BY PushFrontFacts
  <2> QED BY <2>1, <2>2
<1>3. Len(PushFront(b.list, n)) = Len(b.list) + 1
  <2>1. <<n>> \in Seq(BlockId) /\ Len(<<n>>) = 1
    BY <1>1
  <2> QED BY <2>1, <1>1, ConcatProperties DEF PushFront
<1>4. r.list = PushFront(b.list, n) /\ r.count = b.count + 1
  OBVIOUS
<1>5. r \in [list : Seq(BlockId), count : Nat]
  BY <1>1, <1>2
<1> HIDE DEF r
<1>6. /\ IsFiniteSet(O \ {n}) /\ Cardinality(O \ {n}) = Cardinality(O) - 1
      /\ Cardinality(O) \in Nat
  BY OneLess DEF PoolSound
<1>7. r.count + Cardinality(O \ {n}) = Total
  <2>1. b.count + Cardinality(O) = Total
    BY DEF PoolSound
  <2> QED BY <2>1, <1>1, <1>4, <1>6
<1>8. r.count = Len(r.list)
  BY <1>1, <1>3, <1>4
<1>9. PoolSound(r, O \ {n})
  BY <1>1, <1>2, <1>4, <1>5, <1>6, <1>7, <1>8 DEF PoolSound
<1> QED BY <1>9 DEF r

PoolInv ==
    /\ mp = [p \in Pool |-> mp[p]] /\ out = [p \in Pool |-> out[p]]
    /\ \A p \in Pool : PoolSound(mp[p], out[p])

LEMMA GetKeeps ==
    ASSUME PoolInv, NEW p \in Pool, mp[p].count > 0, GetBlock(p)
    PROVE  PoolInv'
<1>1. PoolSound(Pop(mp[p]), out[p] \cup {Head(mp[p].list)})
  BY PopSound DEF PoolInv
<1> QED BY <1>1 DEF PoolInv, GetBlock

LEMMA PutKeeps ==
    ASSUME PoolInv, NEW p \in Pool, NEW b \in out[p], PutBlock(p, b)
    PROVE  PoolInv'
<1>1. PoolSound([list |-> PushFront(mp[p].list, b), count |-> mp[p].count + 1], out[p] \ {b})
  BY PushSound DEF PoolInv
<1> QED BY <1>1 DEF PoolInv, PutBlock

LEMMA PoolKept == ASSUME PoolInv, mp' = mp, out' = out PROVE PoolInv'
BY DEF PoolInv

LEMMA PoolStepKeeps ==
    ASSUME PoolInv, NEW t \in Thread, PoolStep(t)
    PROVE  PoolInv'
<1>1. ASSUME NEW p \in Pool, Alloc(t, p) PROVE PoolInv'
  BY <1>1, GetKeeps DEF Alloc
<1>2. ASSUME NEW p \in Pool, AllocAgain(t, p) PROVE PoolInv'
  <2>1. CASE mp[p].count > 0
    BY <1>2, <2>1, GetKeeps DEF AllocAgain
  <2>2. CASE ~(mp[p].count > 0)
    BY <1>2, <2>2, PoolKept DEF AllocAgain
  <2> QED BY <2>1, <2>2
<1>3. ASSUME NEW p \in Pool, NEW b \in out[p], FreeBlock(t, p, b) PROVE PoolInv'
  BY <1>3, PutKeeps DEF FreeBlock
<1>4. ASSUME NEW p \in Pool, NEW n, AllocRefused(t, p) \/ AllocWait(t, p, n) \/ PoolDetach(t, p)
      PROVE  PoolInv'
  BY <1>4, PoolKept DEF AllocRefused, AllocWait, PoolDetach, poolVars
<1>5. CASE AllocWoken(t) \/ PoolDetached(t)
  BY <1>5, PoolKept DEF AllocWoken, PoolDetached, poolVars
<1> QED BY <1>1, <1>2, <1>3, <1>4, <1>5 DEF PoolStep

LEMMA EveryStepKeepsPools ==
    ASSUME PoolInv, [ObjectsNext]_objectVars
    PROVE  PoolInv'
<1>1. CASE UNCHANGED poolVars
  BY <1>1, PoolKept DEF poolVars
<1>2. ASSUME NEW t \in Thread, PoolStep(t) PROVE PoolInv'
  BY <1>2, PoolStepKeeps
<1>3. ASSUME NEW p \in Pool, NEW b \in out[p], DeviceFree(p, b) PROVE PoolInv'
  BY <1>3, PutKeeps DEF DeviceFree
<1>4. CASE UNCHANGED objectVars
  BY <1>4, <1>1 DEF objectVars
<1>5. CASE ObjectsDevice
  BY <1>5, <1>1, <1>3 DEF ObjectsDevice, OnlyEvents, OnlyQueues
<1> QED BY <1>1, <1>2, <1>4, <1>5 DEF ObjectsNext, OnlyMutexes, OnlyEvents, OnlyQueues

-----------------------------------------------------------------------------
(* Cells and blocks are neither lost nor in two places, whatever comes       *)
(* between the two stretches of a call.                                      *)

LEMMA CellsAreConserved == MqInv => CellsConserved
<1> SUFFICES ASSUME MqInv, NEW q \in Mq
             PROVE  LET hands == {t \in Thread : cell[t] # NoCell /\ frame[t].obj = q}
                        lists == mq[q].free \o mq[q].queue
                    IN  /\ Cell = Elems(lists) \cup {cell[t] : t \in hands}
                        /\ MaxMsgs = Len(lists) + Cardinality(hands)
                        /\ mq[q].entry = Len(mq[q].queue)
                        /\ \A t \in hands : frame[t].call = "mq_recv"
                                               => mq[q].text[cell[t]] = frame[t].msg
  BY DEF CellsConserved
<1> DEFINE b == mq[q]
           H == Hands(q)
<1>1. CellsSound(b, H, cell, frame)
  BY DEF MqInv
<1>2. b.free \in Seq(Cell) /\ b.queue \in Seq(Cell)
  BY <1>1 DEF CellsSound, QueueOf
<1>3. /\ Len(b.free \o b.queue) = Len(b.free) + Len(b.queue)
      /\ Elems(b.free \o b.queue) = Elems(b.free) \cup Elems(b.queue)
  BY <1>2, ConcatFacts
<1>4. /\ Elems(b.free) \subseteq Cell /\ Elems(b.queue) \subseteq Cell
      /\ \A t \in H : cell[t] \in Cell
  BY <1>1, <1>2 DEF CellsSound, Distinct, Elems
<1>5. H = {t \in Thread : cell[t] # NoCell /\ frame[t].obj = q}
  BY DEF Hands
<1> HIDE DEF b, H
<1>6. Cell = Elems(b.free \o b.queue) \cup {cell[t] : t \in H}
  <2>1. \A n \in Cell : n \in Elems(b.free) \/ n \in Elems(b.queue) \/ \E t \in H : cell[t] = n
    BY <1>1 DEF CellsSound, Complete
  <2> QED BY <2>1, <1>3, <1>4
<1>7. /\ MaxMsgs = Len(b.free \o b.queue) + Cardinality(H)
      /\ b.entry = Len(b.queue)
      /\ \A t \in H : frame[t].call = "mq_recv" => b.text[cell[t]] = frame[t].msg
  BY <1>1, <1>3 DEF CellsSound, Complete, Copied
<1> QED BY <1>5, <1>6, <1>7 DEF b

LEMMA BlocksAreConserved == PoolInv => BlocksConserved
BY DEF PoolInv, PoolSound, BlocksConserved

(* Message cells and pool blocks are conserved: each is free, queued or in   *)
(* exactly one pair of hands, and the counters the code decides by agree     *)
(* with the lists.                                                           *)
THEOREM NothingIsLost == ObjectsSpec => []BuffersConserved
<1>1. ObjectsInit => MqInv /\ PoolInv
  <2>1. ObjectsInit => PoolInv
    BY AllFreeSound DEF ObjectsInit, PoolInitState, PoolInv
  <2> QED BY <2>1, InitMq
<1>2. MqInv /\ PoolInv /\ [ObjectsNext]_objectVars => (MqInv /\ PoolInv)'
  BY EveryStepGood, EveryStepKeepsPools DEF MqGood
<1>3. MqInv /\ PoolInv => BuffersConserved
  BY CellsAreConserved, BlocksAreConserved DEF BuffersConserved
<1> QED BY <1>1, <1>2, <1>3, PTL DEF ObjectsSpec

-----------------------------------------------------------------------------
(* Threads in calls of these objects. *)
MqLists == {MqSenders[q] : q \in Mq}

LEMMA ObjectListsApart ==
    /\ Mutex \subseteq Obj /\ Event \subseteq Obj /\ Mq \subseteq Obj /\ MqLists \subseteq Obj
    /\ Pool \subseteq Obj /\ \A q \in Mq : MqSenders[q] \in MqLists
    /\ Mutex \cap Event = {} /\ Mutex \cap Mq = {} /\ Mutex \cap MqLists = {} /\ Mutex \cap Pool = {}
    /\ Event \cap Mq = {} /\ Event \cap MqLists = {} /\ Event \cap Pool = {}
    /\ Mq \cap MqLists = {} /\ Mq \cap Pool = {} /\ MqLists \cap Pool = {}
BY MutexAssumption, EventAssumption, MqAssumption, PoolAssumption, ObjectsAssumption DEF MqLists

(* The call of a thread and its object go together. *)
CallFits(c, o) ==
    \/ c = "mutex_take" /\ o \in Mutex
    \/ c = "event_recv" /\ o \in Event
    \/ c = "mq_recv" /\ o \in Mq
    \/ c = "mq_send" /\ o \in MqLists
    \/ c = "mp_alloc" /\ o \in Pool

FitsObj(p, f, t) ==
    /\ p[t] \in {"wait_sched", "woken"} => CallFits(f[t].call, f[t].obj)
    /\ p[t] \in {"wake_test", "wake_take"} => f[t].obj \in Obj

ObjCallInv == WaitInv /\ \A t \in Thread : FitsObj(pc, frame, t)

(* u comes back from waiting: it has been woken by a call on its object and  *)
(* has not run since, or not far enough to look.                             *)
Back(x, p, f, u) == /\ f[u].call \in Waiters /\ Ready(x, u)
                    /\ ~(p[u] = "between" /\ f[u].call \in {"mq_send", "mq_recv"})

Same(u) == IF Back(k, pc, frame, u)
           THEN /\ Back(k', pc', frame', u)
                /\ frame'[u].call = frame[u].call /\ frame'[u].obj = frame[u].obj
           ELSE ~Back(k', pc', frame', u)

(* Those in J are woken, those in L arrive. *)
Flow(J, L) ==
    /\ J \subseteq Thread /\ J \cap L = {}
    /\ \A u \in Thread \ (J \cup L) : Same(u)
    /\ \A u \in J : /\ ~Back(k, pc, frame, u) /\ Back(k', pc', frame', u)
                    /\ frame'[u].call = frame[u].call /\ frame'[u].obj = frame[u].obj
    /\ \A u \in L : Back(k, pc, frame, u) /\ ~Back(k', pc', frame', u)

(* Those who come back from a call in C on the list o. *)
Backers(x, p, f, C, o) == {u \in Thread : Back(x, p, f, u) /\ f[u].call \in C /\ f[u].obj = o}

LEMMA FlowMoves ==
    ASSUME NEW J, NEW L, Flow(J, L), NEW C, NEW o
    PROVE  Backers(k', pc', frame', C, o)
              = (Backers(k, pc, frame, C, o) \ L) \cup {u \in J : frame[u].call \in C /\ frame[u].obj = o}
<1> DEFINE A == Backers(k, pc, frame, C, o)
           B == Backers(k', pc', frame', C, o)
           N == {u \in J : frame[u].call \in C /\ frame[u].obj = o}
<1>1. \A u \in A : u \in Thread /\ Back(k, pc, frame, u)
  BY DEF Backers
<1>2. \A u \in B : u \in Thread /\ Back(k', pc', frame', u)
  BY DEF Backers
<1>3. ASSUME NEW u \in Thread \ (J \cup L) PROVE u \in A <=> u \in B
  BY <1>3 DEF Flow, Same, Backers
<1>4. ASSUME NEW u \in J PROVE u \notin A /\ (u \in B <=> u \in N) /\ u \notin L
  BY <1>1 DEF Flow, Backers
<1>5. ASSUME NEW u \in L PROVE u \notin B
  BY <1>2 DEF Flow
<1>6. B \subseteq (A \ L) \cup N
  BY <1>2, <1>3, <1>4, <1>5
<1>7. (A \ L) \cup N \subseteq B
  BY <1>1, <1>3, <1>4
<1> HIDE DEF A, B, N
<1>8. B = (A \ L) \cup N
  BY <1>6, <1>7
<1> QED BY <1>8 DEF A, B, N

LEMMA BackersCount ==
    ASSUME NEW x, NEW p, NEW f, NEW C, NEW o
    PROVE  LET A == Backers(x, p, f, C, o)
           IN  /\ IsFiniteSet(A) /\ Cardinality(A) \in Nat
               /\ \A u \in A : Cardinality(A \ {u}) = Cardinality(A) - 1
               /\ \A u : u \notin A => Cardinality(A \cup {u}) = Cardinality(A) + 1
<1> DEFINE A == Backers(x, p, f, C, o)
<1>1. A \subseteq Thread
  BY DEF Backers
<1> HIDE DEF A
<1>2. IsFiniteSet(A)
  BY <1>1, WaitAssumption, FS_Subset
<1>3. Cardinality(A) \in Nat
  BY <1>2, FS_CardinalityType
<1>4. ASSUME NEW u \in A PROVE Cardinality(A \ {u}) = Cardinality(A) - 1
  BY <1>2, FS_RemoveElement
<1>5. ASSUME NEW u, u \notin A PROVE Cardinality(A \cup {u}) = Cardinality(A) + 1
  BY <1>2, <1>5, FS_AddElement
<1> QED BY <1>2, <1>3, <1>4, <1>5 DEF A

(* A step after which those in J are on their way and those in L have        *)
(* arrived, and no list but those in X has grown.                            *)
Shrinks(X) ==
    \A o \in Obj \ X : /\ Elems(k'.wait[o]) \subseteq Elems(k.wait[o])
                       /\ k'.wait[o] # <<>> => k.wait[o] # <<>>
                       /\ \A f : InOrder(k.wait[o], f) => InOrder(k'.wait[o], f)

(* Only a mutex lends a priority or takes it back. *)
Lends == \E t \in Thread, m \in Mutex : MutexRelease(t, m) \/ \E n \in app.timeouts[t] : MutexTakeWait(t, m, n)
Lent(r, x) == r.prio = x.prio \/ prog.prio # {} \/ Lends

Passes(J, L, X) == (Breaks \/ ObjCallInv') /\ Flow(J, L) /\ Shrinks(X) /\ Lent(k', k)

LEMMA WaiterFits ==
    ASSUME ObjCallInv, Patient, NEW o \in Obj, NEW u \in Elems(k.wait[o])
    PROVE  /\ u \in Thread /\ frame[u].call \in Waiters /\ frame[u].obj = o /\ ~Ready(k, u)
           /\ CallFits(frame[u].call, o) /\ pc[u] \in {"wait_sched", "woken"}
           /\ k.stat[u] = "suspend" /\ k.err[u] = "ok"
<1>1. u \in Thread /\ k.stat[u] = "suspend" /\ pc[u] \in {"wait_sched", "woken"} /\ frame[u].obj = o
      /\ k.err[u] = "ok"
  BY WaitersCall DEF ObjCallInv
<1>2. FitsObj(pc, frame, u)
  BY <1>1 DEF ObjCallInv
<1> QED BY <1>1, <1>2 DEF FitsObj, CallFits, Waiters, Ready

(* What the call on a list is. *)
LEMMA CallOfList ==
    ASSUME NEW c, NEW o, CallFits(c, o)
    PROVE  /\ o \in Mutex => c = "mutex_take"
           /\ o \in Event => c = "event_recv"
           /\ o \in Mq => c = "mq_recv"
           /\ o \in MqLists => c = "mq_send"
           /\ o \in Pool => c = "mp_alloc"
BY ObjectListsApart DEF CallFits

LEMMA QuitsLess ==
    ASSUME NEW x, NEW r, NEW M, NEW b, Quits(r, x, M, b)
    PROVE  \A o \in Obj : /\ Elems(r.wait[o]) \subseteq Elems(x.wait[o])
                          /\ r.wait[o] # <<>> => x.wait[o] # <<>>
                          /\ \A f : InOrder(x.wait[o], f) => InOrder(r.wait[o], f)
<1> SUFFICES ASSUME NEW o \in Obj
             PROVE  /\ Elems(r.wait[o]) \subseteq Elems(x.wait[o])
                    /\ r.wait[o] # <<>> => x.wait[o] # <<>>
  BY DEF Quits, Thins
<1>1. r.wait[o] \in Seq(Thread)
  BY DEF Quits, Fit, Sound, SoundBut, Kernel
<1>2. Elems(r.wait[o]) \subseteq Elems(x.wait[o])
  BY DEF Quits
<1>3. r.wait[o] # <<>> => Elems(r.wait[o]) # {}
  BY <1>1, EmptyElems
<1>4. Elems(<<>>) = {}
  BY DEF Elems
<1> QED BY <1>2, <1>3, <1>4

LEMMA HandledSame ==
    ASSUME NEW M, Handled(k', k, M), NEW u \in Thread \ M, frame'[u] = frame[u], pc'[u] = pc[u]
    PROVE  Same(u)
BY DEF Handled, Undisturbed, Same, Back, Ready

(* The threads that a step wakes have waited; what they find says whether    *)
(* they have been given something.                                           *)
LEMMA WokenFlow ==
    ASSUME ObjCallInv, Patient, NEW M, Handled(k', k, M),
           NEW t, NEW L, L = {} \/ L = {t},
           \A u \in M \ {t} : \E o \in Obj : u \in Elems(k.wait[o]),
           \A u \in Thread \ {t} : frame'[u] = frame[u] /\ pc'[u] = pc[u],
           NEW J \in SUBSET (M \ {t}),
           \A u \in J : Ready(k', u), \A u \in M \ (J \cup {t}) : ~Ready(k', u),
           t \in Thread => IF L = {} THEN Same(t) ELSE Back(k, pc, frame, t) /\ ~Back(k', pc', frame', t),
           L \subseteq Thread
    PROVE  Flow(J, L)
<1>1. ASSUME NEW u \in M, u # t
      PROVE  /\ u \in Thread /\ frame[u].call \in Waiters /\ ~Ready(k, u)
             /\ frame'[u] = frame[u] /\ pc'[u] = pc[u] /\ pc[u] \in {"wait_sched", "woken"}
  <2>1. PICK o \in Obj : u \in Elems(k.wait[o])
    BY <1>1
  <2> QED BY <2>1, <1>1, WaiterFits
<1>2. ASSUME NEW u \in Thread, u # t, u \notin J PROVE Same(u)
  <2>1. CASE u \in M
    BY <1>1, <1>2, <2>1 DEF Same, Back
  <2>2. CASE u \notin M
    BY <1>2, <2>2, HandledSame
  <2> QED BY <2>1, <2>2
<1>3. ASSUME NEW u \in J
      PROVE  /\ u \in Thread /\ ~Back(k, pc, frame, u) /\ Back(k', pc', frame', u)
             /\ frame'[u].call = frame[u].call /\ frame'[u].obj = frame[u].obj
  BY <1>1 DEF Back
<1>4. ASSUME NEW u \in Thread \ (J \cup L) PROVE Same(u)
  BY <1>2
<1>5. J \cap L = {}
  OBVIOUS
<1>6. \A u \in L : Back(k, pc, frame, u) /\ ~Back(k', pc', frame', u)
  OBVIOUS
<1> QED BY <1>3, <1>4, <1>5, <1>6 DEF Flow

-----------------------------------------------------------------------------
(* What the running thread does. *)
Leaving(t) == {u \in {t} : Back(k, pc, frame, u)}

(* It stays what it is, or is on its way no longer. *)
Parts(t, L) == \/ L = {} /\ Same(t)
               \/ L = Leaving(t) /\ ~Back(k', pc', frame', t)

(* It goes from c to w, and those in M are woken, those in J with what they  *)
(* wait for.                                                                 *)
LEMMA PassStep ==
    ASSUME ObjCallInv, Patient, NEW t \in Thread, NEW c, c \in InCall \cup {"user"}, c # "wait_sched",
           At(t, c), NEW w, CallerMove(t, w), FitsObj(pc', frame', t),
           NEW M, Quits(k', k, M, Base(k, isr)),
           (M = {t} /\ k'.stat = k.stat) \/ \A u \in M : \E o \in Obj : u \in Elems(k.wait[o]),
           NEW J \in SUBSET (M \ {t}),
           \A u \in J : Ready(k', u), \A u \in M \ (J \cup {t}) : ~Ready(k', u),
           NEW L, Parts(t, L), Lent(k', k)
    PROVE  Passes(J, L, {})
<1>1. WaitInv'
  BY CallerGoes DEF ObjCallInv
<1>2. \A u \in Thread \ {t} : frame'[u] = frame[u] /\ pc'[u] = pc[u]
  BY NowWaiting DEF ObjCallInv, CallerMove
<1>3. \A u \in Thread : FitsObj(pc', frame', u)
  BY <1>2 DEF ObjCallInv, FitsObj
<1>4. L = {} \/ L = {t}
  BY DEF Parts, Leaving
<1>5. IF L = {} THEN Same(t) ELSE Back(k, pc, frame, t) /\ ~Back(k', pc', frame', t)
  BY DEF Parts, Leaving, Same
<1>6. Handled(k', k, M) /\ \A u \in M \ {t} : \E o \in Obj : u \in Elems(k.wait[o])
  BY DEF Quits
<1>7. Flow(J, L)
  BY <1>2, <1>4, <1>5, <1>6, WokenFlow
<1>8. Shrinks({})
  BY QuitsLess DEF Shrinks
<1> QED BY <1>1, <1>3, <1>7, <1>8 DEF Passes, ObjCallInv

(* It wakes nobody, and at most its own error changes. *)
Plain(t) == k' = k \/ \E e \in Err : k' = ErrorSet(k, t, e)

LEMMA WakesQuits ==
    ASSUME NEW x, NEW r, NEW M, NEW b, Wakes(r, x, M, b)
    PROVE  Quits(r, x, M, b) /\ Lent(r, x)
BY DEF Wakes, Quits, Attended, Lent

LEMMA PlainStep ==
    ASSUME ObjCallInv, Patient, NEW t \in Thread, NEW c, c \in InCall \cup {"user"}, c # "wait_sched",
           At(t, c), NEW w, CallerMove(t, w), FitsObj(pc', frame', t), Plain(t),
           NEW L, Parts(t, L)
    PROVE  Passes({}, L, {})
<1> DEFINE J == {}
<1>0. J = {} /\ \A M : J \in SUBSET (M \ {t}) /\ \A u \in J : Ready(k', u)
  OBVIOUS
<1> HIDE DEF J
<1>1. CASE k' = k
  <2> DEFINE M == {}
  <2>1. Quits(k', k, M, Base(k, isr)) /\ Lent(k', k)
    BY <1>1, NowWaiting, NoneWakes, WakesQuits DEF ObjCallInv
  <2>2. (\A u \in M : \E o \in Obj : u \in Elems(k.wait[o])) /\ \A u \in M \ (J \cup {t}) : ~Ready(k', u)
    OBVIOUS
  <2> HIDE DEF M
  <2>3. Passes(J, L, {})
    BY <1>0, <2>1, <2>2, PassStep
  <2> QED BY <2>3, <1>0
<1>2. ASSUME NEW e \in Err, k' = ErrorSet(k, t, e) PROVE Passes({}, L, {})
  <2> DEFINE M == {t}
  <2>1. k.stat[t] # "suspend" /\ Fit(k, Base(k, isr))
    BY CallerRuns, NowWaiting DEF ObjCallInv, About, InCall
  <2>2. Quits(k', k, M, Base(k, isr)) /\ k'.stat = k.stat /\ Lent(k', k)
    BY <1>2, <2>1, ErrorWakes, WakesQuits
  <2>3. M = {t} /\ \A u \in M \ (J \cup {t}) : ~Ready(k', u)
    OBVIOUS
  <2> HIDE DEF M
  <2>4. Passes(J, L, {})
    BY <1>0, <2>2, <2>3, PassStep
  <2> QED BY <2>4, <1>0
<1> QED BY <1>1, <1>2 DEF Plain

(* It wakes the first thread of a list. *)
LEMMA FirstStep ==
    ASSUME ObjCallInv, Patient, NEW t \in Thread, NEW c, c \in InCall \cup {"user"}, c # "wait_sched",
           At(t, c), NEW w, CallerMove(t, w), FitsObj(pc', frame', t),
           NEW o \in Obj, Quits(k', k, First(k, o), Base(k, isr)),
           \A u \in First(k, o) : Ready(k', u), NEW L, Parts(t, L), Lent(k', k)
    PROVE  Passes(First(k, o), L, {})
<1>1. k.wait[o] \in Seq(Thread) /\ k.stat[t] = "running"
  BY CallerRuns, NowWaiting DEF ObjCallInv, Kernel, About, InCall
<1>2. \A u \in First(k, o) : u \in Elems(k.wait[o])
  BY <1>1, HeadElem DEF First
<1>3. t \notin First(k, o)
  BY <1>1, <1>2, WaiterFits
<1>4. First(k, o) \in SUBSET (First(k, o) \ {t})
  BY <1>3
<1>5. \A u \in First(k, o) \ (First(k, o) \cup {t}) : ~Ready(k', u)
  OBVIOUS
<1> QED BY <1>2, <1>4, <1>5, PassStep

(* A thread that makes a call is not in one, and not the idle thread. *)
LEMMA Asker ==
    ASSUME ObjCallInv, Patient, NEW t \in Thread, NEW c, Asks(t, c)
    PROVE  /\ At(t, "user") /\ pc[t] = "user" /\ t # Idle /\ frame[t].call = "none"
           /\ ~Back(k, pc, frame, t) /\ "user" \in InCall \cup {"user"} /\ "user" # "wait_sched"
           /\ pc[t] \notin InCall /\ Leaving(t) = {}
           /\ k.cur = t /\ k.stat[t] = "running"
<1>1. pc[t] = "user" /\ t # Idle /\ At(t, "user")
  BY NowWaiting DEF ObjCallInv, Asks, At
<1>2. frame[t].call = "none" /\ pc[t] \notin InCall
  BY <1>1 DEF ObjCallInv, WaitInv, CallsSound, CallSound, InCall
<1>3. k.cur = t /\ k.stat[t] = "running"
  BY <1>1, CallerRuns DEF ObjCallInv, About
<1> QED BY <1>1, <1>2, <1>3 DEF Back, Waiters, InCall, Leaving

LEMMA TimesGiven ==
    ASSUME ObjCallInv, NEW t \in Thread, NEW n \in app.timeouts[t]
    PROVE  n \in Times \cup {Forever}
BY WaitAssumption DEF ObjCallInv, WaitInv, App, Times

(* It makes a call and goes on in its own code. *)
LEMMA AskMove ==
    ASSUME ObjCallInv, Patient, NEW t \in Thread, NEW c, Asks(t, c), NEW w \in {"user", "sched"},
           Goto(t, w) \/ (w = "user" /\ pc' = pc), UNCHANGED <<cpu, arg, isr, prog, waitVars>>
    PROVE  CallerMove(t, w) /\ FitsObj(pc', frame', t) /\ Same(t)
<1>1. pc[t] = "user" /\ pc[t] \notin InCall /\ frame[t].call = "none"
  BY Asker
<1>2. Goto(t, w) /\ UNCHANGED <<cpu, arg, isr, prog, app, frame>> /\ frame' = frame
  BY <1>1, NowWaiting DEF ObjCallInv, Goto, waitVars
<1>3. w \in Onward /\ w \notin InCall
  BY DEF Onward, InCall
<1>4. CallerMove(t, w) /\ pc'[t] = w
  BY <1>1, <1>2, <1>3, StayMove DEF ObjCallInv
<1> QED BY <1>1, <1>2, <1>4 DEF Same, Back, Waiters, FitsObj

LEMMA PlainCall ==
    ASSUME ObjCallInv, Patient, NEW t \in Thread, NEW c, Asks(t, c), Plain(t),
           UNCHANGED <<cpu, pc, arg, isr, prog, waitVars>>
    PROVE  Passes({}, {}, {})
<1>1. At(t, "user") /\ "user" \in InCall \cup {"user"} /\ "user" # "wait_sched"
  BY Asker
<1>2. CallerMove(t, "user") /\ FitsObj(pc', frame', t) /\ Same(t)
  <2>1. "user" \in {"user", "sched"} /\ pc' = pc /\ UNCHANGED <<cpu, arg, isr, prog, waitVars>>
    OBVIOUS
  <2> QED BY <2>1, AskMove
<1>3. Parts(t, {})
  BY <1>2 DEF Parts
<1> QED BY <1>1, <1>2, <1>3, PlainStep

LEMMA FirstCall ==
    ASSUME ObjCallInv, Patient, NEW t \in Thread, NEW c, Asks(t, c), NEW o \in Obj,
           Quits(k', k, First(k, o), Base(k, isr)), Lent(k', k), \A u \in First(k, o) : Ready(k', u),
           NEW w \in {"user", "sched"}, Goto(t, w) \/ (w = "user" /\ pc' = pc),
           UNCHANGED <<cpu, arg, isr, prog, waitVars>>
    PROVE  Passes(First(k, o), {}, {})
<1>1. At(t, "user") /\ "user" \in InCall \cup {"user"} /\ "user" # "wait_sched"
  BY Asker
<1>2. CallerMove(t, w) /\ FitsObj(pc', frame', t) /\ Parts(t, {})
  BY AskMove DEF Parts
<1> QED BY <1>1, <1>2, FirstStep

(* It returns from a call. *)
LEMMA LeaveCall ==
    ASSUME ObjCallInv, Patient, NEW t \in Thread, NEW c, c \in InCall \cup {"user"}, c # "wait_sched",
           At(t, c), NEW w \in {"user", "sched"}, Leave(t), Goto(t, w), Plain(t),
           UNCHANGED <<cpu, arg, isr, prog, app>>
    PROVE  Passes({}, Leaving(t), {})
<1>1. CallerMove(t, w) /\ pc'[t] = w /\ frame'[t].call = "none"
  BY LeaveMove DEF ObjCallInv
<1>2. FitsObj(pc', frame', t) /\ Parts(t, Leaving(t))
  BY <1>1 DEF FitsObj, Parts, Back, Waiters
<1> QED BY <1>1, <1>2, PlainStep

(* It begins to detach an object, or returns from that. *)
LEMMA DetachBegins ==
    ASSUME ObjCallInv, Patient, NEW t \in Thread, NEW c, Asks(t, c), NEW call, NEW o \in Obj,
           call # "none", Enter(t, call, o, NoTime, NoCall.msg), Goto(t, "wake_test"),
           call \notin Waiters, UNCHANGED <<k, cpu, arg, isr, prog, app>>
    PROVE  Passes({}, {}, {})
<1>1. At(t, "user") /\ "user" \in InCall \cup {"user"} /\ "user" # "wait_sched"
      /\ ~Back(k, pc, frame, t)
  BY Asker
<1>2. CallerMove(t, "wake_test") /\ pc'[t] = "wake_test" /\ frame'[t].call = call /\ frame'[t].obj = o
  <2>1. "wake_test" \in InCall
    BY DEF InCall
  <2> QED BY <2>1, NoCallFramed, EnterMove DEF ObjCallInv
<1>3. FitsObj(pc', frame', t) /\ Parts(t, {}) /\ Plain(t)
  BY <1>1, <1>2 DEF FitsObj, Parts, Same, Back, Plain
<1> QED BY <1>1, <1>2, <1>3, PlainStep

LEMMA DetachEnds ==
    ASSUME ObjCallInv, Patient, NEW t \in Thread, NEW call, call \notin Waiters,
           AllWoken(t, call), Leave(t), NEW w \in {"user", "sched"}, Goto(t, w),
           UNCHANGED <<k, cpu, arg, isr, prog, app>>
    PROVE  Passes({}, {}, {})
<1>1. At(t, "wake_test") /\ frame[t].call = call
      /\ "wake_test" \in InCall \cup {"user"} /\ "wake_test" # "wait_sched"
  BY DEF AllWoken, InCall
<1>2. Passes({}, Leaving(t), {})
  BY <1>1, LeaveCall DEF Plain
<1>3. Leaving(t) = {}
  BY <1>1 DEF Leaving, Back
<1> QED BY <1>2, <1>3

(* It begins to copy, or to look again. *)
LEMMA CopyBegins ==
    ASSUME ObjCallInv, Patient, NEW t \in Thread, NEW c \in {"user", "woken"}, At(t, c), t # Idle,
           NEW call, call # "none", NEW o, NEW v \in Msg, Enter(t, call, o, NoTime, v),
           Goto(t, "between"), ~(call \in Waiters /\ call \notin {"mq_send", "mq_recv"}),
           UNCHANGED <<k, cpu, arg, isr, prog, app>>
    PROVE  Passes({}, Leaving(t), {})
<1>1. /\ frame' = [frame EXCEPT ![t] = [call |-> call, obj |-> o, left |-> 0, since |-> 0, msg |-> v]]
      /\ frame = [u \in Thread |-> frame[u]] /\ pc \in [Thread -> Pc] /\ pc' = [pc EXCEPT ![t] = "between"]
  BY DEF ObjCallInv, WaitInv, IInv, Places, Framed, Enter, Goto, NoTime
<1>2. 0 \in Times /\ 0 \in Tick
  BY HalfIs, KernelAssumption DEF Times, Tick
<1>3. FrameFits(pc', frame', t)
  BY <1>1, <1>2 DEF FrameFits, InCall
<1>4. Framed(frame')
  BY EnterFramed DEF ObjCallInv, WaitInv
<1>5. CallerMove(t, "between")
  BY <1>1, <1>3, <1>4 DEF CallerMove, Onward, InCall
<1>6. FitsObj(pc', frame', t) /\ Parts(t, Leaving(t)) /\ Plain(t)
  BY <1>1 DEF FitsObj, Parts, Back, Plain
<1>7. c \in InCall \cup {"user"} /\ c # "wait_sched"
  BY DEF InCall
<1> QED BY <1>5, <1>6, <1>7, PlainStep

(* It suspends itself in a list, after it has changed priorities at most. *)
LEMMA ParkPass ==
    ASSUME ObjCallInv, Patient, NEW t \in Thread, NEW c \in {"user", "woken", "between"}, At(t, c), t # Idle,
           NEW o \in Obj, NEW n \in Times \cup {Forever}, NEW call, CallFits(call, o), NEW v \in Msg,
           NEW x, SameButPrio(x, k), Lent(x, k), Parked(k', x, t, o, n), Enter(t, call, o, n, v),
           Goto(t, "wait_sched"), UNCHANGED <<cpu, arg, isr, prog, app>>
    PROVE  Passes({}, Leaving(t), {o}) /\ Elems(k'.wait[o]) = Elems(k.wait[o]) \cup {t}
           /\ frame'[t].obj = o
<1>0. call # "none"
  BY DEF CallFits
<1>1. WaitInv' /\ Handled(k', k, {t})
  BY <1>0, ParkGoes DEF ObjCallInv
<1>2. /\ pc \in [Thread -> Pc] /\ \A u \in Thread : pc'[u] = IF u = t THEN "wait_sched" ELSE pc[u]
      /\ \A u \in Thread \ {t} : frame'[u] = frame[u]
      /\ frame'[t].call = call /\ frame'[t].obj = o
  BY NowWaiting DEF Goto, Enter, ObjCallInv, WaitInv, Framed
<1>3. \A u \in Thread : FitsObj(pc', frame', u)
  BY <1>2 DEF FitsObj, ObjCallInv
<1>4. /\ ~Ready(k', t) /\ \A q \in Obj \ {o} : k'.wait[q] = k.wait[q]
      /\ Elems(k'.wait[o]) = Elems(k.wait[o]) \cup {t}
  BY DEF Parked, Ready, SameButPrio
<1>5. \A u \in Thread \ {t} : Same(u)
  BY <1>1, <1>2, HandledSame
<1>6. ~Back(k', pc', frame', t)
  BY <1>4 DEF Back
<1>7. Flow({}, Leaving(t))
  BY <1>5, <1>6 DEF Flow, Same, Leaving
<1>8. Shrinks({o}) /\ Lent(k', k)
  BY <1>4 DEF Shrinks, Lent, Parked, Attended
<1> QED BY <1>1, <1>2, <1>3, <1>4, <1>7, <1>8 DEF Passes, ObjCallInv

LEMMA BlockPass ==
    ASSUME ObjCallInv, Patient, NEW t \in Thread, NEW c \in {"user", "woken", "between"}, At(t, c), t # Idle,
           NEW o \in Obj, NEW n \in Times \cup {Forever}, NEW call, CallFits(call, o), NEW v \in Msg,
           NEW x, SameButPrio(x, k), Lent(x, k), k' = Block(x, t, o, n), Enter(t, call, o, n, v),
           Goto(t, "wait_sched"), UNCHANGED <<cpu, arg, isr, prog, app>>
    PROVE  Passes({}, Leaving(t), {o}) /\ Elems(k'.wait[o]) = Elems(k.wait[o]) \cup {t}
           /\ frame'[t].obj = o
<1>1. k.cur = t /\ k.stat[t] = "running" /\ isr = "off"
  BY CallerRuns DEF ObjCallInv, About
<1>2. Fit(x, x.tick) /\ t = x.cur /\ x.stat[t] = "running"
  BY <1>1 DEF SameButPrio, SameSwitch, Handled
<1>3. BlockedIn(k', x, t, o, n)
  BY <1>2, BlockServes
<1> QED BY <1>3, ParkPass DEF BlockedIn

(* Steps inside calls that every object shares. *)
LEMMA WaitPass ==
    ASSUME ObjCallInv, Patient, NEW t \in Thread, WaitStep(t)
    PROVE  Passes({}, {}, {})
<1>0. WaitInv /\ pc \in [Thread -> Pc] /\ k \in Kernel /\ FitsObj(pc, frame, t)
  BY NowWaiting DEF ObjCallInv
<1>1. CASE WaitSchedule(t)
  <2>1. WaitInv' /\ Handled(k', k, {}) /\ k'.wait = k.wait /\ Lent(k', k)
    BY <1>0, <1>1, WaitScheduleKeeps DEF Attended, Lent
  <2>2. /\ \A u \in Thread : pc'[u] = IF u = t THEN "woken" ELSE pc[u]
        /\ pc[t] = "wait_sched" /\ frame' = frame /\ prog' = prog
    BY <1>0, <1>1 DEF WaitSchedule, At, Goto, waitVars
  <2>3. ASSUME NEW u \in Thread PROVE FitsObj(pc', frame', u) /\ Same(u)
    <3>1. FitsObj(pc, frame, u)
      BY DEF ObjCallInv
    <3>2. FitsObj(pc', frame', u)
      BY <2>2, <3>1 DEF FitsObj
    <3>3. Same(u)
      BY <2>1, <2>2 DEF Handled, Undisturbed, Same, Back, Ready
    <3> QED BY <3>2, <3>3
  <2>4. Flow({}, {})
    BY <2>3 DEF Flow
  <2> QED BY <2>1, <2>3, <2>4 DEF Passes, ObjCallInv, Shrinks
<1>2. CASE WaitFails(t)
  <2>1. At(t, "woken") /\ "woken" \in InCall \cup {"user"} /\ "woken" # "wait_sched" /\ Plain(t)
        /\ Leave(t) /\ Goto(t, "user") /\ UNCHANGED <<cpu, arg, isr, prog, app>> /\ k.err[t] # "ok"
    BY <1>2 DEF WaitFails, InCall, Plain
  <2>2. Passes({}, Leaving(t), {})
    <3>1. "user" \in {"user", "sched"}
      OBVIOUS
    <3> QED BY <2>1, <3>1, LeaveCall
  <2>3. Leaving(t) = {}
    BY <2>1 DEF Leaving, Back, Ready
  <2> QED BY <2>2, <2>3
<1>3. CASE WakeMore(t)
  <2>1. At(t, "wake_test") /\ Goto(t, "wake_take") /\ Plain(t) /\ frame' = frame /\ pc[t] = "wake_test"
        /\ UNCHANGED <<cpu, arg, isr, prog, app, frame>> /\ k' = k
    BY <1>3 DEF WakeMore, At, waitVars, Plain
  <2>2. "wake_take" \in Onward /\ "wake_take" \in InCall /\ "wake_test" \in InCall
    BY DEF InCall, Onward
  <2>3. CallerMove(t, "wake_take") /\ pc'[t] = "wake_take"
    BY <1>0, <2>1, <2>2, StayMove
  <2>4. Parts(t, {}) /\ FitsObj(pc', frame', t)
    BY <1>0, <2>1, <2>3 DEF Parts, Same, Back, FitsObj
  <2> QED BY <2>1, <2>2, <2>3, <2>4, PlainStep
<1>4. CASE WakeTake(t)
  <2> DEFINE o == frame[t].obj
  <2>1. /\ At(t, "wake_take") /\ Goto(t, "wake_test") /\ frame' = frame /\ pc[t] = "wake_take"
        /\ UNCHANGED <<cpu, arg, isr, prog, app, frame>>
    BY <1>4 DEF WakeTake, At, waitVars
  <2>2. "wake_test" \in Onward /\ "wake_take" \in InCall /\ "wake_test" \in InCall
    BY DEF InCall, Onward
  <2>3. CallerMove(t, "wake_test") /\ pc'[t] = "wake_test"
    BY <1>0, <2>1, <2>2, StayMove
  <2>4. FitsObj(pc', frame', t) /\ o \in Obj
    BY <1>0, <2>1, <2>3 DEF FitsObj
  <2>5. k.stat[t] = "running"
    BY <1>0, <2>1, CallerRuns DEF About
  <2>6. CASE k.wait[o] # <<>>
    <3> DEFINE h == Head(k.wait[o])
    <3>1. k' = WakeWithError(k, h)
      BY <1>4, <2>6 DEF WakeTake
    <3>2. Wakes(k', k, {h}, Base(k, isr)) /\ h \in Elems(k.wait[o]) /\ ~Ready(k', h)
      BY <1>0, <2>4, <2>6, <3>1, TurnWakes
    <3>3. h # t
      BY <2>4, <2>5, <3>2, WaiterFits
    <3>4. Parts(t, {})
      BY <2>1, <2>3, <3>2, <3>3 DEF Wakes, Attended, Handled, Undisturbed, Parts, Same, Back, Ready
    <3> HIDE DEF h, o
    <3> DEFINE M == {h}
               J == {}
    <3>5. /\ Lent(k', k) /\ Quits(k', k, M, Base(k, isr)) /\ \A u \in M : \E q \in Obj : u \in Elems(k.wait[q])
          /\ J \in SUBSET (M \ {t}) /\ \A u \in J : Ready(k', u)
          /\ \A u \in M \ (J \cup {t}) : ~Ready(k', u)
      BY <2>4, <3>2, WakesQuits
    <3> HIDE DEF M, J
    <3>6. Passes(J, {}, {})
      BY <2>1, <2>2, <2>3, <2>4, <3>4, <3>5, PassStep
    <3> QED BY <3>6 DEF J
  <2>7. CASE k.wait[o] = <<>>
    <3>1. k' = [k EXCEPT !.bad = TRUE]
      BY <1>4, <2>7 DEF WakeTake
    <3>2. k'.err = k.err /\ k'.stat = k.stat /\ k'.wait = k.wait /\ Lent(k', k)
      BY <1>0, <3>1 DEF Kernel, Lent
    <3>3. \A u \in Thread : pc'[u] = IF u = t THEN "wake_test" ELSE pc[u]
      BY <1>0, <2>1 DEF Goto
    <3>4. Flow({}, {})
      BY <2>1, <3>2, <3>3 DEF Flow, Same, Back, Ready
    <3>5. Breaks
      BY <2>1, <3>1 DEF Goto, Breaks
    <3> QED BY <3>2, <3>4, <3>5 DEF Passes, Shrinks
  <2> QED BY <2>6, <2>7
<1> QED BY <1>1, <1>2, <1>3, <1>4 DEF WaitStep

(* The kernel's own steps. *)
LEMMA NextPass ==
    ASSUME ObjCallInv, Patient, [Next]_vars, UNCHANGED waitVars
    PROVE  Passes({}, {}, {})
<1>1. WaitInv' /\ Effect /\ frame' = frame
  BY NextKeepsWaiting DEF ObjCallInv, waitVars
<1>2. /\ Traffic({}, {}) /\ \A o \in Obj : k'.wait[o] # <<>> => k.wait[o] # <<>>
      /\ Thins(k', k) /\ Lent(k', k)
  BY <1>1, EffectSteady DEF ObjCallInv, Effect, Lent
<1>3. \A o \in Obj : Elems(k'.wait[o]) \subseteq Elems(k.wait[o])
  <2>1. CASE k'.wait = k.wait
    BY <2>1
  <2>2. ASSUME NEW h \in Thread, TimedOut(k', k, pc, h)
        PROVE  \A o \in Obj : Elems(k'.wait[o]) \subseteq Elems(k.wait[o])
    <3>1. k \in Kernel /\ \A o \in Obj : IsOnce(k.wait[o])
      BY NowWaiting DEF ObjCallInv, Fit, Sound, SoundBut, Waits
    <3> QED BY <2>2, <3>1, WaitsLess DEF TimedOut
  <2> QED BY <1>1, <2>1, <2>2 DEF Effect
<1>4. ASSUME NEW u \in Thread PROVE FitsObj(pc', frame', u) /\ Same(u)
  <2>1. FitsObj(pc, frame, u) /\ IF pc[u] \in InCall THEN pc'[u] = pc[u] ELSE pc'[u] \notin InCall
    BY <1>1 DEF ObjCallInv, Effect
  <2>2. Steady(u)
    BY <1>2 DEF Traffic
  <2>3. FitsObj(pc', frame', u)
    BY <1>1, <2>1 DEF FitsObj, InCall
  <2>4. pc[u] = "between" <=> pc'[u] = "between"
    BY <2>1 DEF InCall
  <2>5. Same(u)
    BY <1>1, <2>2, <2>4 DEF Steady, Comes, Same, Back
  <2> QED BY <2>3, <2>5
<1>5. Flow({}, {})
  BY <1>4 DEF Flow
<1> QED BY <1>1, <1>2, <1>3, <1>4, <1>5 DEF Passes, ObjCallInv, Shrinks, Thins

LEMMA StillPass ==
    ASSUME ObjCallInv, UNCHANGED <<k, cpu, pc, arg, isr, prog, waitVars>>
    PROVE  Passes({}, {}, {})
<1>1. k' = k /\ pc' = pc /\ frame' = frame /\ app' = app
  BY DEF waitVars
<1>2. Flow({}, {}) /\ Shrinks({}) /\ Lent(k', k)
  BY <1>1 DEF Flow, Same, Shrinks, Lent
<1>3. ObjCallInv'
  BY <1>1 DEF ObjCallInv, WaitInv, IInv, SwitchRecord, Places, Timely, FitsObj
<1> QED BY <1>2, <1>3 DEF Passes

(* A handler wakes those in M, those in J with what they wait for. *)
LEMMA HandlerPass ==
    ASSUME ObjCallInv, Patient, NEW x, NEW M, Wakes(x, k, M, Base(k, isr)), k' = Schedule(x),
           \A u \in M : \E o \in Obj : u \in Elems(k.wait[o]),
           NEW J \in SUBSET M, \A u \in J : Ready(x, u), \A u \in M \ J : ~Ready(x, u),
           UNCHANGED <<cpu, pc, arg, isr, prog, waitVars>>
    PROVE  Passes(J, {}, {})
<1>1. WaitInv' /\ k'.wait = x.wait /\ Handled(k', x, {}) /\ Handled(k', k, M) /\ Lent(k', k)
  BY HandlerKeeps DEF ObjCallInv, Attended, Lent
<1>2. frame' = frame /\ pc' = pc
  BY DEF waitVars
<1>3. \A u \in M : u \in Thread /\ (Ready(k', u) <=> Ready(x, u))
  BY <1>1, WaiterFits DEF Handled, Undisturbed, Ready
<1>4. Flow(J, {})
  <2>1. ASSUME NEW u \in M
        PROVE  /\ u \in Thread /\ frame[u].call \in Waiters /\ ~Ready(k, u)
               /\ pc[u] \in {"wait_sched", "woken"}
    <3>1. PICK o \in Obj : u \in Elems(k.wait[o])
      OBVIOUS
    <3> QED BY <3>1, WaiterFits
  <2>2. \A u \in Thread \ M : Same(u)
    BY <1>1, <1>2, HandledSame
  <2>3. \A u \in M \ J : Same(u)
    BY <1>2, <1>3, <2>1 DEF Same, Back
  <2>4. \A u \in J : ~Back(k, pc, frame, u) /\ Back(k', pc', frame', u)
    BY <1>2, <1>3, <2>1 DEF Back
  <2> QED BY <1>2, <2>1, <2>2, <2>3, <2>4 DEF Flow
<1>5. Shrinks({})
  BY <1>1, WakesQuits, QuitsLess DEF Shrinks
<1>6. \A u \in Thread : FitsObj(pc', frame', u)
  BY <1>2 DEF ObjCallInv, FitsObj
<1> QED BY <1>1, <1>4, <1>5, <1>6 DEF Passes, ObjCallInv

(* It wakes the first thread of a list. *)
LEMMA FirstHandler ==
    ASSUME ObjCallInv, Patient, NEW o \in Obj, NEW x, x = WakeFirst(k, o),
           k' = IF k.wait[o] # <<>> THEN Schedule(x) ELSE k,
           UNCHANGED <<cpu, pc, arg, isr, prog, waitVars>>
    PROVE  Passes(First(k, o), {}, {})
<1>1. CASE k.wait[o] = <<>>
  <2>1. First(k, o) = {} /\ k' = k
    BY <1>1 DEF First
  <2>2. Passes({}, {}, {})
    BY <2>1, StillPass
  <2> QED BY <2>1, <2>2
<1>2. CASE k.wait[o] # <<>>
  <2> DEFINE M == First(k, o)
  <2>1. /\ Wakes(x, k, M, Base(k, isr)) /\ \A u \in M : u \in Elems(k.wait[o]) /\ Ready(x, u)
    BY FirstWakes DEF ObjCallInv
  <2>2. k' = Schedule(x) /\ M \in SUBSET M /\ \A u \in M \ M : ~Ready(x, u)
    BY <1>2
  <2> HIDE DEF M
  <2>3. Passes(M, {}, {})
    BY <2>1, <2>2, HandlerPass
  <2> QED BY <2>3 DEF M
<1> QED BY <1>1, <1>2

(* The running thread sets the error of all threads that wait in a list and  *)
(* wakes them, or those of two lists.                                        *)
LEMMA WakeAllPass ==
    ASSUME ObjCallInv, Patient, NEW t \in Thread, NEW c, Asks(t, c), NEW o \in Obj, NEW q \in Obj,
           \/ k' = WakeAll(k, o)
           \/ o # q /\ k' = WakeAll(WakeAll(k, o), q),
           Goto(t, "sched"), UNCHANGED <<cpu, arg, isr, prog, waitVars>>
    PROVE  /\ Passes({}, {}, {}) /\ k'.wait[o] = <<>>
           /\ o # q /\ k' = WakeAll(WakeAll(k, o), q) => k'.wait[q] = <<>>
<1>1. At(t, "user") /\ "user" \in InCall \cup {"user"} /\ "user" # "wait_sched"
  BY Asker
<1>2. CallerMove(t, "sched") /\ FitsObj(pc', frame', t) /\ Parts(t, {})
  <2>1. "sched" \in {"user", "sched"}
    OBVIOUS
  <2> QED BY <2>1, AskMove DEF Parts
<1> DEFINE b == Base(k, isr)
           x == WakeAll(k, o)
           A == Elems(k.wait[o])
<1>6. Wakes(k, k, {}, b)
  BY NowWaiting, NoneWakes DEF ObjCallInv
<1>7. Wakes(x, k, {} \cup A, b) /\ x.wait[o] = <<>> /\ \A u \in A : ~Ready(x, u)
  <2> HIDE DEF b
  <2> QED BY <1>6, AllWakes DEF ObjCallInv
<1> HIDE DEF x, b
<1>8. \E M : /\ Wakes(k', k, M, b) /\ k'.wait[o] = <<>>
             /\ o # q /\ k' = WakeAll(x, q) => k'.wait[q] = <<>>
             /\ \A u \in M : ~Ready(k', u) /\ \E p \in Obj : u \in Elems(k.wait[p])
  <2>1. CASE k' = x /\ ~(o # q /\ k' = WakeAll(x, q))
    <3>1. {} \cup A = A
      OBVIOUS
    <3> QED BY <1>7, <2>1, <3>1
  <2>2. CASE o # q /\ k' = WakeAll(x, q)
    <3> DEFINE B == Elems(x.wait[q])
               N == ({} \cup A) \cup B
    <3>1. \A u \in B : u \in Elems(k.wait[q]) /\ u \notin {} \cup A
      BY <1>7 DEF Wakes
    <3>2. /\ Wakes(k', k, N, b) /\ Wakes(k', x, B, b) /\ k'.wait[q] = <<>>
          /\ \A u \in B : ~Ready(k', u)
      <4> HIDE DEF A
      <4> QED BY <1>7, <2>2, <3>1, AllWakes DEF ObjCallInv
    <3>3. k'.wait[o] = <<>>
      BY <1>7, <3>2, WakesLess
    <3>4. ASSUME NEW u \in N PROVE ~Ready(k', u) /\ \E p \in Obj : u \in Elems(k.wait[p])
      <4>1. CASE u \in B
        BY <3>1, <3>2, <4>1
      <4>2. CASE u \in A /\ u \notin B
        <5>1. u \in Thread
          BY <4>2, WaiterFits
        <5>2. ~Ready(x, u) /\ Undisturbed(k', x, u)
          BY <1>7, <3>2, <4>2, <5>1 DEF Wakes, Attended, Handled
        <5> QED BY <4>2, <5>2 DEF Ready, Undisturbed
      <4> QED BY <4>1, <4>2
    <3> HIDE DEF N, A, B
    <3> QED BY <3>2, <3>3, <3>4
  <2> QED BY <2>1, <2>2 DEF x
<1>9. PICK M : /\ Wakes(k', k, M, b) /\ k'.wait[o] = <<>>
               /\ o # q /\ k' = WakeAll(x, q) => k'.wait[q] = <<>>
               /\ \A u \in M : ~Ready(k', u) /\ \E p \in Obj : u \in Elems(k.wait[p])
  BY <1>8
<1> DEFINE J == {}
<1>10. J \in SUBSET (M \ {t}) /\ \A u \in J : Ready(k', u)
  OBVIOUS
<1>11. (\A u \in M \ (J \cup {t}) : ~Ready(k', u)) /\ Quits(k', k, M, Base(k, isr)) /\ Lent(k', k)
  BY <1>9, WakesQuits DEF b
<1> HIDE DEF J
<1>12. Passes(J, {}, {})
  BY <1>1, <1>2, <1>9, <1>10, <1>11, PassStep
<1> QED BY <1>9, <1>12 DEF J, x

-----------------------------------------------------------------------------
(* What the objects promise. *)
MutexSafe ==
    /\ mx \in [Mutex -> MutexState] /\ depth \in [Thread -> [Mutex -> Int]]
    /\ \A m \in Mutex : /\ mx[m].owner = Nobody => mx[m].hold = 0
                        /\ mx[m].owner # Nobody => mx[m].orig \in Prio
    /\ MutexExclusive

Wish == [set : SUBSET Bit, all : BOOLEAN, clear : BOOLEAN]
EventSafe == flags \in [Event -> SUBSET Bit] /\ want \in [Thread -> Wish] /\ NoMetWaiter

(* A step that is none of an object's business leaves its promise alone.     *)
LEMMA HandedAre ==
    ASSUME NEW t \in Thread, NEW m
    PROVE  /\ Handed(t, m) <=> t \in Backers(k, pc, frame, {"mutex_take"}, m)
           /\ Handed(t, m)' <=> t \in Backers(k', pc', frame', {"mutex_take"}, m)
BY DEF Handed, Backers, Back, Ready, Waiters

LEMMA MqComingAre == \A o : /\ MqComing(o) = Backers(k, pc, frame, {"mq_send", "mq_recv"}, o)
                             /\ MqComing(o)' = Backers(k', pc', frame', {"mq_send", "mq_recv"}, o)
<1> SUFFICES ASSUME NEW o
             PROVE  /\ MqComing(o) = Backers(k, pc, frame, {"mq_send", "mq_recv"}, o)
                    /\ MqComing(o)' = Backers(k', pc', frame', {"mq_send", "mq_recv"}, o)
  OBVIOUS
<1>1. \A u : u \in MqComing(o) <=> u \in Backers(k, pc, frame, {"mq_send", "mq_recv"}, o)
  BY DEF MqComing, Backers, Back, Ready, Waiters
<1>2. \A u : u \in MqComing(o)' <=> u \in Backers(k', pc', frame', {"mq_send", "mq_recv"}, o)
  BY DEF MqComing, Backers, Back, Ready, Waiters
<1> QED BY <1>1, <1>2

LEMMA PoolComingAre == \A o : /\ PoolComing(o) = Backers(k, pc, frame, {"mp_alloc"}, o)
                               /\ PoolComing(o)' = Backers(k', pc', frame', {"mp_alloc"}, o)
<1> SUFFICES ASSUME NEW o
             PROVE  /\ PoolComing(o) = Backers(k, pc, frame, {"mp_alloc"}, o)
                    /\ PoolComing(o)' = Backers(k', pc', frame', {"mp_alloc"}, o)
  OBVIOUS
<1>1. \A u : u \in PoolComing(o) <=> u \in Backers(k, pc, frame, {"mp_alloc"}, o)
  BY DEF PoolComing, Backers, Back, Ready, Waiters
<1>2. \A u : u \in PoolComing(o)' <=> u \in Backers(k', pc', frame', {"mp_alloc"}, o)
  BY DEF PoolComing, Backers, Back, Ready, Waiters
<1> QED BY <1>1, <1>2

LEMMA BackersStay ==
    ASSUME NEW J, NEW L, Flow(J, L), NEW C, \A u \in J \cup L : frame[u].call \notin C, NEW o
    PROVE  Backers(k', pc', frame', C, o) = Backers(k, pc, frame, C, o)
<1>1. Backers(k', pc', frame', C, o)
        = (Backers(k, pc, frame, C, o) \ L) \cup {u \in J : frame[u].call \in C /\ frame[u].obj = o}
  BY FlowMoves
<1>2. {u \in J : frame[u].call \in C /\ frame[u].obj = o} = {}
  OBVIOUS
<1>3. Backers(k, pc, frame, C, o) \cap L = {}
  BY DEF Backers
<1> QED BY <1>1, <1>2, <1>3

LEMMA MutexKept ==
    ASSUME MutexSafe, NEW J, NEW L, Flow(J, L), \A u \in J \cup L : frame[u].call # "mutex_take",
           mx' = mx, depth' = depth
    PROVE  MutexSafe'
<1>1. \A u \in Thread, m \in Mutex : Handed(u, m)' <=> Handed(u, m)
  <2>1. \A u \in J \cup L : frame[u].call \notin {"mutex_take"}
    OBVIOUS
  <2>2. \A m : Backers(k', pc', frame', {"mutex_take"}, m) = Backers(k, pc, frame, {"mutex_take"}, m)
    BY <2>1, BackersStay
  <2> QED BY <2>2, HandedAre
<1>2. MutexExclusive'
  BY <1>1 DEF MutexSafe, MutexExclusive
<1> QED BY <1>2 DEF MutexSafe

LEMMA EventKept ==
    ASSUME EventSafe, NEW X, Shrinks(X), X \cap Event = {}, UNCHANGED eventVars
    PROVE  EventSafe'
<1>1. flags' = flags /\ want' = want /\ over' = over
  BY DEF eventVars
<1>2. \A e \in Event : \A t : Waiting(t, e)' => Waiting(t, e)
  BY ObjectListsApart DEF Shrinks, Waiting
<1> QED BY <1>1, <1>2 DEF EventSafe, NoMetWaiter

LEMMA MqWaitKept ==
    ASSUME NoMqWaitInVain, NEW J, NEW L, NEW X, Flow(J, L), Shrinks(X), X \cap (Mq \cup MqLists) = {},
           \A u \in J \cup L : frame[u].call \notin {"mq_send", "mq_recv"}, mq' = mq
    PROVE  NoMqWaitInVain'
<1>1. \A o : MqComing(o)' = MqComing(o)
  BY BackersStay, MqComingAre
<1>2. \A o \in Mq \cup MqLists : k'.wait[o] # <<>> => k.wait[o] # <<>>
  BY ObjectListsApart DEF Shrinks
<1> QED BY <1>1, <1>2, ObjectListsApart DEF NoMqWaitInVain

LEMMA PoolWaitKept ==
    ASSUME NoPoolWaitInVain, NEW J, NEW L, NEW X, Flow(J, L), Shrinks(X), X \cap Pool = {},
           \A u \in J \cup L : frame[u].call # "mp_alloc", mp' = mp, shut' = shut
    PROVE  NoPoolWaitInVain'
<1>1. \A o : PoolComing(o)' = PoolComing(o)
  <2>1. \A u \in J \cup L : frame[u].call \notin {"mp_alloc"}
    OBVIOUS
  <2> QED BY <2>1, BackersStay, PoolComingAre
<1>2. \A p \in Pool : k'.wait[p] # <<>> => k.wait[p] # <<>>
  BY ObjectListsApart DEF Shrinks
<1> QED BY <1>1, <1>2 DEF NoPoolWaitInVain

(* The step is about calls in C on lists in O. *)
Confined(J, L, X, C, O) ==
    /\ Passes(J, L, X) /\ X \subseteq O
    /\ \A u \in J \cup L : frame[u].call \in C

LEMMA MutexAlone ==
    ASSUME NEW J, NEW L, NEW X, Confined(J, L, X, {"mutex_take"}, Mutex), OnlyMutexes,
           EventSafe, NoMqWaitInVain, NoPoolWaitInVain
    PROVE  EventSafe' /\ NoMqWaitInVain' /\ NoPoolWaitInVain'
<1>1. /\ UNCHANGED eventVars /\ mq' = mq /\ mp' = mp /\ shut' = shut
      /\ X \cap Event = {} /\ X \cap (Mq \cup MqLists) = {} /\ X \cap Pool = {}
      /\ \A u \in J \cup L : frame[u].call # "mp_alloc" /\ frame[u].call \notin {"mq_send", "mq_recv"}
      /\ Flow(J, L) /\ Shrinks(X)
  BY ObjectListsApart DEF Confined, Passes, OnlyMutexes, mqVars, poolVars
<1> QED BY <1>1, EventKept, MqWaitKept, PoolWaitKept

LEMMA EventAlone ==
    ASSUME NEW J, NEW L, NEW X, Confined(J, L, X, {"event_recv"}, Event), OnlyEvents,
           MutexSafe, NoMqWaitInVain, NoPoolWaitInVain
    PROVE  MutexSafe' /\ NoMqWaitInVain' /\ NoPoolWaitInVain'
<1>1. /\ mx' = mx /\ depth' = depth /\ mq' = mq /\ mp' = mp /\ shut' = shut
      /\ X \cap (Mq \cup MqLists) = {} /\ X \cap Pool = {}
      /\ \A u \in J \cup L : frame[u].call # "mp_alloc" /\ frame[u].call \notin {"mq_send", "mq_recv"}
                             /\ frame[u].call # "mutex_take"
      /\ Flow(J, L) /\ Shrinks(X)
  BY ObjectListsApart DEF Confined, Passes, OnlyEvents, mqVars, poolVars, mutexVars
<1> QED BY <1>1, MutexKept, MqWaitKept, PoolWaitKept

LEMMA MqAlone ==
    ASSUME NEW J, NEW L, NEW X, Confined(J, L, X, {"mq_send", "mq_recv"}, Mq \cup MqLists), OnlyQueues,
           MutexSafe, EventSafe, NoPoolWaitInVain
    PROVE  MutexSafe' /\ EventSafe' /\ NoPoolWaitInVain'
<1>1. /\ UNCHANGED eventVars /\ mx' = mx /\ depth' = depth /\ mp' = mp /\ shut' = shut
      /\ X \cap Event = {} /\ X \cap Pool = {}
      /\ \A u \in J \cup L : frame[u].call # "mp_alloc" /\ frame[u].call # "mutex_take"
      /\ Flow(J, L) /\ Shrinks(X)
  BY ObjectListsApart DEF Confined, Passes, OnlyQueues, poolVars, mutexVars
<1> QED BY <1>1, MutexKept, EventKept, PoolWaitKept

LEMMA PoolAlone ==
    ASSUME NEW J, NEW L, NEW X, Confined(J, L, X, {"mp_alloc"}, Pool), OnlyPools,
           MutexSafe, EventSafe, NoMqWaitInVain
    PROVE  MutexSafe' /\ EventSafe' /\ NoMqWaitInVain'
<1>1. /\ UNCHANGED eventVars /\ mx' = mx /\ depth' = depth /\ mq' = mq
      /\ X \cap Event = {} /\ X \cap (Mq \cup MqLists) = {}
      /\ \A u \in J \cup L : frame[u].call # "mutex_take" /\ frame[u].call \notin {"mq_send", "mq_recv"}
      /\ Flow(J, L) /\ Shrinks(X)
  BY ObjectListsApart DEF Confined, Passes, OnlyPools, mqVars, mutexVars
<1> QED BY <1>1, MutexKept, EventKept, MqWaitKept

-----------------------------------------------------------------------------
(* Mutexes. *)

(* rt_thread_control changes a priority: the thread may change its queue.    *)
LEMMA PriorityMoves ==
    ASSUME NEW x, NEW b, Fit(x, b), NEW u \in Thread, NEW p \in Prio
    PROVE  LET r == ChangePriority(x, u, p)
           IN  /\ Fit(r, b) /\ SameSwitch(r, x) /\ Handled(r, x, {})
               /\ r.stat = x.stat /\ r.wait = x.wait /\ r.err = x.err
<1> DEFINE r == ChangePriority(x, u, p)
<1>1. Sound(x) /\ CurrentRuns(x) /\ OnTime(x, b, Times) /\ IdleAlive(x) /\ x \in Kernel
  BY DEF Fit, Sound, SoundBut
<1>2. /\ Sound(r) /\ SameSwitch(r, x) /\ r.act = x.act /\ r.stat = x.stat
      /\ SameClock(r, x) /\ r.wait = x.wait /\ r.err = x.err /\ r.lock = x.lock
  BY <1>1, ChangePriorityFacts, ChangePriorityRest
<1> HIDE DEF r
<1>3. r \in Kernel
  BY <1>2 DEF Sound, SoundBut
<1>4. OnTime(r, b, Times)
  BY <1>1, <1>2, <1>3, OnTimeSame, TimesAreDurations DEF SameClock
<1>5. CurrentRuns(r) /\ IdleAlive(r)
  BY <1>1, <1>2 DEF CurrentRuns, IdleAlive, SameSwitch
<1>6. Handled(r, x, {})
  BY <1>2 DEF Handled, Undisturbed, SameClock, SameSwitch
<1> QED BY <1>2, <1>4, <1>5, <1>6 DEF Fit, r

LEMMA OwnerIs ==
    ASSUME MutexSafe, NEW m \in Mutex
    PROVE  /\ mx[m] \in MutexState /\ (mx[m].owner = Nobody <=> mx[m].value = 1)
           /\ mx[m].value = 0 => mx[m].owner \in Thread /\ mx[m].orig \in Prio
           /\ mx[m].owner = Nobody => mx[m].hold = 0
           /\ mx[m].hold \in 0..HoldMax
           /\ \A u \in Thread : mx[m].owner = u => mx[m].value = 0
           /\ \A u \in Thread : /\ depth[u][m] \in Int
                                /\ depth[u][m] + (IF Handed(u, m) THEN 1 ELSE 0)
                                     = IF mx[m].owner = u THEN mx[m].hold ELSE 0
<1>1. mx[m] \in MutexState
  BY DEF MutexSafe
<1>2. (mx[m].owner = Nobody <=> mx[m].value = 1) /\ (mx[m].owner = Nobody => mx[m].hold = 0)
      /\ (mx[m].owner # Nobody => mx[m].orig \in Prio)
  BY DEF MutexSafe, MutexExclusive
<1>3. \A u \in Thread : /\ depth[u][m] \in Int
                        /\ depth[u][m] + (IF Handed(u, m) THEN 1 ELSE 0)
                             = IF mx[m].owner = u THEN mx[m].hold ELSE 0
  BY DEF MutexSafe, MutexExclusive
<1>4. /\ mx[m].value \in {0, 1} /\ mx[m].owner \in Thread \cup {Nobody} /\ mx[m].hold \in 0..HoldMax
  BY <1>1 DEF MutexState
<1>5. \A u \in Thread : u # Nobody
  BY MutexAssumption
<1>6. mx[m].value = 0 => mx[m].owner \in Thread /\ mx[m].orig \in Prio
  BY <1>2, <1>4
<1>7. \A u \in Thread : mx[m].owner = u => mx[m].value = 0
  BY <1>2, <1>4, <1>5
<1> QED BY <1>1, <1>2, <1>3, <1>4, <1>6, <1>7

(* One mutex changes. *)
LEMMA MutexChange ==
    ASSUME MutexSafe, NEW m \in Mutex, NEW b \in MutexState, mx' = [mx EXCEPT ![m] = b],
           depth' \in [Thread -> [Mutex -> Int]],
           \A u \in Thread, l \in Mutex \ {m} :
              depth'[u][l] = depth[u][l] /\ (Handed(u, l)' <=> Handed(u, l)),
           b.owner = Nobody <=> b.value = 1, b.owner = Nobody => b.hold = 0,
           b.owner # Nobody => b.orig \in Prio,
           \A u \in Thread : depth'[u][m] + (IF Handed(u, m)' THEN 1 ELSE 0)
                               = IF b.owner = u THEN b.hold ELSE 0
    PROVE  MutexSafe'
<1>1. mx \in [Mutex -> MutexState]
  BY DEF MutexSafe
<1>2. mx' \in [Mutex -> MutexState] /\ \A l \in Mutex : mx'[l] = IF l = m THEN b ELSE mx[l]
  BY <1>1
<1>3. \A l \in Mutex : /\ mx'[l].owner = Nobody => mx'[l].hold = 0
                       /\ mx'[l].owner # Nobody => mx'[l].orig \in Prio
                       /\ mx'[l].owner = Nobody <=> mx'[l].value = 1
  BY <1>2 DEF MutexSafe, MutexExclusive
<1>4. ASSUME NEW l \in Mutex, NEW u \in Thread
      PROVE  depth'[u][l] + (IF Handed(u, l)' THEN 1 ELSE 0)
               = IF mx'[l].owner = u THEN mx'[l].hold ELSE 0
  <2>1. CASE l = m
    BY <1>2, <2>1
  <2>2. CASE l # m
    <3>1. mx'[l] = mx[l] /\ depth'[u][l] = depth[u][l] /\ (Handed(u, l)' <=> Handed(u, l))
      BY <1>2, <2>2
    <3> QED BY <3>1 DEF MutexSafe, MutexExclusive
  <2> QED BY <2>1, <2>2
<1>5. MutexExclusive'
  BY <1>3, <1>4 DEF MutexExclusive
<1> QED BY <1>2, <1>3, <1>5 DEF MutexSafe

LEMMA DepthMoves ==
    ASSUME MutexSafe, NEW t \in Thread, NEW m \in Mutex, NEW n \in Int,
           depth' = [depth EXCEPT ![t][m] = depth[t][m] + n]
    PROVE  /\ depth' \in [Thread -> [Mutex -> Int]]
           /\ \A u \in Thread, l \in Mutex :
                 depth'[u][l] = IF u = t /\ l = m THEN depth[t][m] + n ELSE depth[u][l]
<1>1. depth \in [Thread -> [Mutex -> Int]]
  BY DEF MutexSafe
<1> QED BY <1>1

LEMMA HandedStays ==
    ASSUME Flow({}, {})
    PROVE  \A u \in Thread : \A m : Handed(u, m)' <=> Handed(u, m)
<1> DEFINE J == {}
<1>1. Flow(J, J) /\ \A u \in J \cup J : frame[u].call \notin {"mutex_take"}
  OBVIOUS
<1> HIDE DEF J
<1>2. \A m : Backers(k', pc', frame', {"mutex_take"}, m) = Backers(k, pc, frame, {"mutex_take"}, m)
  BY <1>1, BackersStay
<1> QED BY <1>2, HandedAre

(* The last release: the priority is restored and the first waiter woken. *)
LEMMA ReleaseQuits ==
    ASSUME ObjCallInv, Patient, MutexSafe, NEW t \in Thread, NEW m \in Mutex, mx[m].owner = t
    PROVE  LET x == WakeFirst(Restored(t, m), m)
           IN  /\ Quits(x, k, First(k, m), Base(k, isr))
               /\ \A u \in First(k, m) : u \in Elems(k.wait[m]) /\ Ready(x, u)
<1> DEFINE r == Restored(t, m)
           x == WakeFirst(r, m)
           b == Base(k, isr)
           h == Head(k.wait[m])
<1>1. Fit(k, b) /\ k.wait[m] \in Seq(Thread) /\ m \in Obj
  BY NowWaiting, ObjectListsApart DEF ObjCallInv, Kernel
<1>2. mx[m].orig \in Prio
  BY OwnerIs
<1>3. /\ Fit(r, b) /\ SameSwitch(r, k) /\ Handled(r, k, {})
      /\ r.stat = k.stat /\ r.wait = k.wait /\ r.err = k.err
  <2>1. CASE mx[m].orig # k.prio[t]
    <3>1. r = ChangePriority(k, t, mx[m].orig)
      BY <2>1 DEF Restored
    <3> HIDE DEF b, r
    <3> QED BY <1>1, <1>2, <3>1, PriorityMoves
  <2>2. CASE mx[m].orig = k.prio[t]
    <3>1. r = k
      BY <2>2 DEF Restored
    <3> HIDE DEF b, r
    <3> QED BY <1>1, <3>1 DEF SameSwitch, Handled, Undisturbed
  <2> QED BY <2>1, <2>2
<1> HIDE DEF r
<1>4. CASE k.wait[m] = <<>>
  <2>1. x = r /\ First(k, m) = {}
    BY <1>3, <1>4 DEF WakeFirst, First
  <2> HIDE DEF x, b
  <2>2. Quits(x, k, First(k, m), b)
    BY <1>3, <2>1 DEF Quits, Thins
  <2> QED BY <2>1, <2>2 DEF x, b, r
<1>5. CASE k.wait[m] # <<>>
  <2>1. h \in Elems(k.wait[m]) /\ h \in Thread
    BY <1>1, <1>5, HeadElem
  <2>2. r.stat[h] = "suspend" /\ r.err[h] = "ok"
    BY <1>1, <1>3, <2>1, WaiterFits
  <2>3. x = Resume(r, h) /\ First(k, m) = {h}
    BY <1>3, <1>5 DEF WakeFirst, First
  <2> HIDE DEF x, h, b
  <2>4. WokenIn(x, r, h, "ok", b)
    BY <1>3, <2>1, <2>2, <2>3, ResumeServes
  <2>5. Quits(x, r, {h}, b)
    BY <1>3, <2>1, <2>4, OneWakes, WakesQuits
  <2>6. Handled(x, k, {h})
    BY <1>3, <2>5 DEF Quits, Handled, Undisturbed, SameSwitch
  <2>7. Quits(x, k, {h}, b)
    BY <1>3, <2>5, <2>6 DEF Quits, SameSwitch, Thins
  <2> QED BY <2>1, <2>3, <2>4, <2>7 DEF WokenIn, Ready, x, b, r
<1> QED BY <1>4, <1>5

(* The owner, or a thread that finds it free, counts up or down. *)
LEMMA MutexCounted ==
    ASSUME MutexSafe, Flow({}, {}), NEW t \in Thread, NEW m \in Mutex, NEW n \in Int,
           mx[m].owner \in {t, Nobody}, NEW b \in MutexState, mx' = [mx EXCEPT ![m] = b],
           b.owner = t, b.value = 0, b.orig \in Prio, b.hold = mx[m].hold + n,
           depth' = [depth EXCEPT ![t][m] = depth[t][m] + n]
    PROVE  MutexSafe'
<1>1. /\ depth' \in [Thread -> [Mutex -> Int]]
      /\ \A u \in Thread, l \in Mutex :
            depth'[u][l] = IF u = t /\ l = m THEN depth[t][m] + n ELSE depth[u][l]
  BY DepthMoves
<1>2. \A u \in Thread : \A l : Handed(u, l)' <=> Handed(u, l)
  BY HandedStays
<1>3. t # Nobody
  BY MutexAssumption
<1>4. ASSUME NEW u \in Thread
      PROVE  depth'[u][m] + (IF Handed(u, m)' THEN 1 ELSE 0) = IF b.owner = u THEN b.hold ELSE 0
  <2> DEFINE H == IF Handed(u, m) THEN 1 ELSE 0
             G == IF Handed(u, m)' THEN 1 ELSE 0
  <2>1. H = G /\ H \in Int
    BY <1>2
  <2>2. /\ depth[u][m] \in Int /\ mx[m].hold \in Int
        /\ depth[u][m] + H = IF mx[m].owner = u THEN mx[m].hold ELSE 0
        /\ mx[m].owner = Nobody => mx[m].hold = 0
    BY OwnerIs
  <2> HIDE DEF H, G
  <2>3. depth'[u][m] + G = IF b.owner = u THEN b.hold ELSE 0
    <3>1. CASE u = t
      BY <1>1, <1>3, <2>1, <2>2, <3>1
    <3>2. CASE u # t
      <4>1. mx[m].owner # u
        BY <3>2, MutexAssumption
      <4> QED BY <1>1, <2>1, <2>2, <3>2, <4>1
    <3> QED BY <3>1, <3>2
  <2> QED BY <2>3 DEF G
<1>5. \A u \in Thread, l \in Mutex \ {m} :
        depth'[u][l] = depth[u][l] /\ (Handed(u, l)' <=> Handed(u, l))
  BY <1>1, <1>2
<1>6. (b.owner = Nobody <=> b.value = 1) /\ (b.owner = Nobody => b.hold = 0)
      /\ (b.owner # Nobody => b.orig \in Prio)
  BY <1>3
<1> QED BY <1>1, <1>4, <1>5, <1>6, MutexChange

(* rt_mutex_take that does not wait, and the inner releases. *)
LEMMA MutexTakeTurn ==
    ASSUME ObjCallInv, Patient, MutexSafe, NEW t \in Thread, NEW m \in Mutex,
           \/ MutexTakeFree(t, m)
           \/ MutexTakeAgain(t, m)
           \/ MutexReleaseInner(t, m)
    PROVE  Passes({}, {}, {}) /\ MutexSafe'
<1>1. ASSUME NEW c, Asks(t, c), Plain(t), UNCHANGED <<cpu, pc, arg, isr, prog, waitVars>>
      PROVE  Passes({}, {}, {}) /\ Flow({}, {})
  BY <1>1, PlainCall DEF Passes
<1>2. Fit(k, Base(k, isr)) /\ k \in Kernel /\ k.prio[t] \in Prio
  BY NowWaiting DEF ObjCallInv, Kernel
<1>3. k' = Cleared(t) => Plain(t)
  BY DEF Plain, Cleared, ErrorSet, Err
<1>4. /\ mx[m] \in MutexState /\ (mx[m].owner = Nobody <=> mx[m].value = 1)
      /\ mx[m].value = 0 => mx[m].owner \in Thread /\ mx[m].orig \in Prio
      /\ mx[m].owner = Nobody => mx[m].hold = 0
      /\ mx[m].owner = t => mx[m].value = 0
      /\ mx[m].value \in {0, 1} /\ mx[m].hold \in 0..HoldMax
  BY OwnerIs DEF MutexState
<1>5. mx \in [Mutex -> MutexState] /\ HoldMax \in Nat \ {0} /\ t # Nobody
  BY MutexAssumption DEF MutexSafe
<1>6. CASE MutexTakeFree(t, m)
  <2> DEFINE b == Own(t, m, mx[m].hold + 1)
  <2>1. /\ Asks(t, "mutex_take") /\ mx[m].owner = Nobody /\ k' = Cleared(t)
        /\ mx' = [mx EXCEPT ![m] = b] /\ depth' = [depth EXCEPT ![t][m] = depth[t][m] + 1]
        /\ UNCHANGED <<cpu, pc, arg, isr, prog, waitVars>>
    BY <1>4, <1>5, <1>6 DEF MutexTakeFree
  <2>2. Passes({}, {}, {}) /\ Flow({}, {})
    BY <1>1, <1>3, <2>1
  <2>3. /\ b.owner = t /\ b.value = 0 /\ b.orig \in Prio /\ b.hold = mx[m].hold + 1
        /\ b \in MutexState
    BY <1>2, <1>4, <1>5, <2>1 DEF Own, MutexState
  <2> HIDE DEF b
  <2>4. MutexSafe'
    <3> DEFINE n == 1
    <3>1. /\ n \in Int /\ b.hold = mx[m].hold + n /\ depth' = [depth EXCEPT ![t][m] = depth[t][m] + n]
         /\ mx[m].owner \in {t, Nobody}
      BY <2>1, <2>1, <2>3
    <3> HIDE DEF n
    <3> QED BY <2>1, <2>2, <2>3, <3>1, MutexCounted
  <2> QED BY <2>2, <2>4
<1>7. CASE MutexTakeAgain(t, m)
  <2>1. /\ Asks(t, "mutex_take") /\ mx[m].owner = t /\ k' = Cleared(t)
        /\ UNCHANGED <<cpu, pc, arg, isr, prog, waitVars>>
    BY <1>7 DEF MutexTakeAgain
  <2>2. Passes({}, {}, {}) /\ Flow({}, {})
    BY <1>1, <1>3, <2>1
  <2>3. CASE mx[m].hold < HoldMax
    <3> DEFINE b == [mx[m] EXCEPT !.hold = mx[m].hold + 1]
    <3>1. mx' = [mx EXCEPT ![m] = b] /\ depth' = [depth EXCEPT ![t][m] = depth[t][m] + 1]
      BY <1>5, <1>7, <2>3 DEF MutexTakeAgain
    <3>2. /\ b.owner = t /\ b.value = 0 /\ b.orig \in Prio /\ b.hold = mx[m].hold + 1
          /\ b \in MutexState
      BY <1>4, <1>5, <2>1, <2>3 DEF MutexState
    <3> HIDE DEF b
    <3>3. MutexSafe'
      <4> DEFINE n == 1
      <4>1. /\ n \in Int /\ b.hold = mx[m].hold + n /\ depth' = [depth EXCEPT ![t][m] = depth[t][m] + n]
           /\ mx[m].owner \in {t, Nobody}
        BY <2>1, <3>1, <3>2
      <4> HIDE DEF n
      <4> QED BY <2>1, <2>2, <3>1, <3>2, <4>1, MutexCounted
    <3> QED BY <2>2, <3>3
  <2>4. CASE ~(mx[m].hold < HoldMax)
    <3>1. mx' = mx /\ depth' = depth
      BY <1>7, <2>4 DEF MutexTakeAgain
    <3> DEFINE J == {}
    <3>2. Flow(J, J) /\ \A u \in J \cup J : frame[u].call # "mutex_take"
      BY <2>2
    <3> HIDE DEF J
    <3>3. MutexSafe'
      BY <3>1, <3>2, MutexKept
    <3> QED BY <2>2, <3>3
  <2> QED BY <2>3, <2>4
<1>8. CASE MutexReleaseInner(t, m)
  <2> DEFINE b == [mx[m] EXCEPT !.hold = mx[m].hold - 1]
  <2>1. /\ Asks(t, "mutex_release") /\ mx[m].owner = t /\ mx[m].hold > 1 /\ k' = k
        /\ mx' = [mx EXCEPT ![m] = b] /\ depth' = [depth EXCEPT ![t][m] = depth[t][m] - 1]
        /\ UNCHANGED <<cpu, pc, arg, isr, prog, waitVars>>
    BY <1>8 DEF MutexReleaseInner
  <2>2. Passes({}, {}, {}) /\ Flow({}, {})
    BY <1>1, <2>1 DEF Plain
  <2>3. depth[t][m] - 1 = depth[t][m] + (-1) /\ mx[m].hold - 1 = mx[m].hold + (-1) /\ -1 \in Int
    BY <1>4, OwnerIs
  <2>4. /\ b.owner = t /\ b.value = 0 /\ b.orig \in Prio /\ b.hold = mx[m].hold + (-1)
        /\ b \in MutexState
    BY <1>4, <1>5, <2>1, <2>3 DEF MutexState
  <2>5. depth' = [depth EXCEPT ![t][m] = depth[t][m] + (-1)]
    BY <2>1, <2>3
  <2> HIDE DEF b
  <2>6. MutexSafe'
    <3> DEFINE n == -1
    <3>1. n \in Int /\ b.hold = mx[m].hold + n /\ depth' = [depth EXCEPT ![t][m] = depth[t][m] + n]
      BY <2>3, <2>4, <2>5
    <3> HIDE DEF n
    <3> QED BY <2>1, <2>2, <2>4, <3>1, MutexCounted
  <2> QED BY <2>2, <2>6
<1> QED BY <1>6, <1>7, <1>8

(* The calls that are refused. *)
LEMMA MutexRefusedTurn ==
    ASSUME ObjCallInv, Patient, MutexSafe, NEW t \in Thread, NEW m \in Mutex,
           MutexTakeRefused(t, m) \/ MutexReleaseRefused(t, m)
    PROVE  Passes({}, {}, {}) /\ MutexSafe'
<1>1. PICK c : Asks(t, c)
  BY DEF MutexTakeRefused, MutexReleaseRefused
<1>2. /\ Plain(t) /\ UNCHANGED <<cpu, pc, arg, isr, prog, waitVars>>
      /\ mx' = mx /\ depth' = depth
  BY DEF MutexTakeRefused, MutexReleaseRefused, Plain, ErrorSet, Err, mutexVars
<1>3. Passes({}, {}, {}) /\ Flow({}, {})
  BY <1>1, <1>2, PlainCall DEF Passes
<1> DEFINE J == {}
<1>4. Flow(J, J) /\ \A u \in J \cup J : frame[u].call # "mutex_take"
  BY <1>3
<1> HIDE DEF J
<1>5. MutexSafe'
  BY <1>2, <1>4, MutexKept
<1> QED BY <1>3, <1>5

(* The caller raises the owner and waits. *)
LEMMA BoostIsPrio ==
    ASSUME ObjCallInv, Patient, MutexSafe, NEW t \in Thread, t = k.cur, k.stat[t] = "running",
           Base(k, isr) = k.tick, NEW m \in Mutex, Busy(t, m)
    PROVE  SameButPrio(Boost(Cleared(t), t, m), k)
<1> DEFINE e == Cleared(t)
           x == Boost(e, t, m)
           w == mx[m].owner
<1>1. Fit(k, k.tick) /\ w \in Thread /\ k \in Kernel
  BY NowWaiting, OwnerIs DEF ObjCallInv, Busy
<1>2. e = ErrorSet(k, t, "ok") /\ "ok" \in Err
  BY DEF Cleared, ErrorSet, Err
<1>3. Fit(e, k.tick) /\ SameSwitch(e, k) /\ Handled(e, k, {t}) /\ e.wait = k.wait /\ e.stat = k.stat
      /\ e.prio = k.prio
  <2> HIDE DEF e
  <2>1. Wakes(e, k, {t}, k.tick) /\ e.stat = k.stat /\ e.wait = k.wait
    BY <1>1, <1>2, ErrorWakes
  <2> QED BY <2>1 DEF Wakes, Attended
<1>4. e.prio[t] \in Prio
  BY <1>1, <1>3 DEF Kernel
<1>5. /\ Fit(x, k.tick) /\ SameSwitch(x, e) /\ Handled(x, e, {})
      /\ x.stat = e.stat /\ x.wait = e.wait /\ x.err = e.err
  <2>1. CASE e.prio[t] < e.prio[w]
    <3>1. x = ChangePriority(e, w, e.prio[t])
      BY <2>1 DEF Boost
    <3> HIDE DEF e, x, w
    <3> QED BY <1>1, <1>3, <1>4, <3>1, PriorityMoves
  <2>2. CASE ~(e.prio[t] < e.prio[w])
    <3>1. x = e
      BY <2>2 DEF Boost
    <3> HIDE DEF e, x
    <3> QED BY <1>3, <3>1 DEF SameSwitch, Handled, Undisturbed
  <2> QED BY <2>1, <2>2
<1> HIDE DEF e, x
<1>6. SameSwitch(x, k) /\ Handled(x, k, {t}) /\ x.wait = k.wait /\ x.stat = k.stat
  BY <1>3, <1>5 DEF SameSwitch, Handled, Undisturbed
<1>7. SameButPrio(x, k)
  BY <1>5, <1>6 DEF SameButPrio
<1> QED BY <1>7 DEF x, e

LEMMA MutexWaitTurn ==
    ASSUME ObjCallInv, Patient, MutexSafe, NEW t \in Thread, NEW m \in Mutex,
           NEW n \in app.timeouts[t], MutexTakeWait(t, m, n)
    PROVE  Passes({}, {}, {m}) /\ MutexSafe'
<1>1. Asks(t, "mutex_take") /\ Busy(t, m) /\ mx' = mx /\ depth' = depth
  BY DEF MutexTakeWait, mutexVars
<1>2. /\ At(t, "user") /\ t # Idle /\ Leaving(t) = {} /\ k.cur = t /\ k.stat[t] = "running"
  BY <1>1, Asker
<1>3. Base(k, isr) = k.tick
  BY <1>2, CallerRuns DEF ObjCallInv, Base, About
<1> DEFINE x == Boost(Cleared(t), t, m)
<1>4. /\ k' = Block(x, t, m, n) /\ Enter(t, "mutex_take", m, n, NoCall.msg)
      /\ Goto(t, "wait_sched") /\ UNCHANGED <<cpu, arg, isr, prog, app>>
  BY DEF MutexTakeWait
<1>5. SameButPrio(x, k)
  BY <1>1, <1>2, <1>3, BoostIsPrio
<1> HIDE DEF x
<1>6. n \in Times \cup {Forever} /\ CallFits("mutex_take", m) /\ m \in Obj
  BY TimesGiven, ObjectListsApart DEF CallFits
<1>7. PICK v \in Msg : v = NoCall.msg
  BY NoCallFramed
<1>8. Passes({}, Leaving(t), {m})
  <2>1. Lent(x, k)
    BY DEF Lent, Lends
  <2> QED BY <1>2, <1>4, <1>5, <1>6, <1>7, <2>1, BlockPass
<1>9. Passes({}, {}, {m})
  BY <1>2, <1>8
<1> DEFINE J == {}
<1>10. Flow(J, J) /\ \A u \in J \cup J : frame[u].call # "mutex_take"
  BY <1>9 DEF Passes
<1> HIDE DEF J
<1>11. MutexSafe'
  BY <1>1, <1>10, MutexKept
<1> QED BY <1>9, <1>11

(* rt_mutex_take returns with the mutex. *)
LEMMA MutexTakenTurn ==
    ASSUME ObjCallInv, Patient, MutexSafe, NEW t \in Thread, MutexTaken(t)
    PROVE  Passes({}, {t}, {}) /\ frame[t].call = "mutex_take" /\ MutexSafe'
<1> DEFINE L == {t}
           E == {}
<1>0. PICK m : m = frame[t].obj
  OBVIOUS
<1>1. /\ At(t, "woken") /\ frame[t].call = "mutex_take" /\ k.err[t] = "ok"
      /\ depth' = [depth EXCEPT ![t][m] = depth[t][m] + 1] /\ mx' = mx
      /\ Leave(t) /\ Goto(t, "user") /\ k' = k /\ UNCHANGED <<cpu, arg, isr, prog, app>>
  BY <1>0 DEF MutexTaken, Woken
<1>2. pc[t] = "woken" /\ k.stat[t] = "running" /\ "woken" \in InCall \cup {"user"} /\ "woken" # "wait_sched"
  BY <1>1, CallerRuns DEF ObjCallInv, About, InCall
<1>3. m \in Mutex
  BY <1>0, <1>1, <1>2, ObjectListsApart DEF ObjCallInv, FitsObj, CallFits
<1>4. Back(k, pc, frame, t)
  BY <1>1, <1>2 DEF Back, Waiters, Ready
<1>5. Leaving(t) = {t}
  BY <1>4 DEF Leaving
<1>6. Passes({}, Leaving(t), {})
  BY <1>1, <1>2, LeaveCall DEF Plain
<1>7. Passes({}, {t}, {}) /\ Flow(E, L)
  BY <1>5, <1>6 DEF Passes
<1> HIDE DEF E, L
<1>8. \A l : Backers(k', pc', frame', {"mutex_take"}, l)
               = (Backers(k, pc, frame, {"mutex_take"}, l) \ L)
                    \cup {u \in E : frame[u].call \in {"mutex_take"} /\ frame[u].obj = l}
  BY <1>7, FlowMoves
<1>9. \A l : Backers(k', pc', frame', {"mutex_take"}, l) = Backers(k, pc, frame, {"mutex_take"}, l) \ {t}
  BY <1>8 DEF E, L
<1>10. \A u \in Thread : \A l : Handed(u, l)' <=> (u # t /\ Handed(u, l))
  BY <1>9, HandedAre
<1>11. \A l \in Mutex : Handed(t, l) <=> l = m
  BY <1>0, <1>1, <1>2 DEF Handed
<1>12. /\ depth' \in [Thread -> [Mutex -> Int]]
       /\ \A u \in Thread, l \in Mutex :
             depth'[u][l] = IF u = t /\ l = m THEN depth[t][m] + 1 ELSE depth[u][l]
  <2> DEFINE n == 1
  <2>1. depth' = [depth EXCEPT ![t][m] = depth[t][m] + n] /\ n \in Int
    BY <1>1
  <2> HIDE DEF n
  <2>2. /\ depth' \in [Thread -> [Mutex -> Int]]
        /\ \A u \in Thread, l \in Mutex :
              depth'[u][l] = IF u = t /\ l = m THEN depth[t][m] + n ELSE depth[u][l]
    BY <1>3, <2>1, DepthMoves
  <2> QED BY <2>2 DEF n
<1>13. /\ mx[m] \in MutexState /\ mx' = [mx EXCEPT ![m] = mx[m]]
  BY <1>1, <1>3 DEF MutexSafe
<1>14. ASSUME NEW u \in Thread, NEW l \in Mutex \ {m}
       PROVE  depth'[u][l] = depth[u][l] /\ (Handed(u, l)' <=> Handed(u, l))
  BY <1>10, <1>11, <1>12
<1>15. ASSUME NEW u \in Thread
       PROVE  depth'[u][m] + (IF Handed(u, m)' THEN 1 ELSE 0) = IF mx[m].owner = u THEN mx[m].hold ELSE 0
  <2> DEFINE H == IF Handed(u, m) THEN 1 ELSE 0
             G == IF Handed(u, m)' THEN 1 ELSE 0
  <2>1. IF u = t THEN H = 1 /\ G = 0 ELSE G = H
    BY <1>3, <1>10, <1>11
  <2>2. depth[u][m] \in Int /\ H \in {0, 1} /\ depth[u][m] + H = IF mx[m].owner = u THEN mx[m].hold ELSE 0
    BY <1>3, OwnerIs
  <2> HIDE DEF H, G
  <2>3. depth'[u][m] = IF u = t THEN depth[u][m] + 1 ELSE depth[u][m]
    BY <1>3, <1>12
  <2>4. depth'[u][m] + G = depth[u][m] + H
    BY <2>1, <2>2, <2>3
  <2>5. depth'[u][m] + G = IF mx[m].owner = u THEN mx[m].hold ELSE 0
    BY <2>2, <2>4
  <2> QED BY <2>5 DEF G
<1>16. /\ mx[m].owner = Nobody <=> mx[m].value = 1
       /\ mx[m].owner = Nobody => mx[m].hold = 0
       /\ mx[m].owner # Nobody => mx[m].orig \in Prio
  BY <1>3 DEF MutexSafe, MutexExclusive
<1>17. MutexSafe'
  BY <1>3, <1>12, <1>13, <1>14, <1>15, <1>16, MutexChange
<1> QED BY <1>1, <1>7, <1>17

(* rt_mutex_release hands the mutex to the first waiter or frees it. *)
LEMMA MutexReleaseTurn ==
    ASSUME ObjCallInv, Patient, MutexSafe, NEW t \in Thread, NEW m \in Mutex, MutexRelease(t, m)
    PROVE  /\ Passes(First(k, m), {}, {}) /\ MutexSafe'
           /\ \A u \in First(k, m) : frame[u].call = "mutex_take"
<1> DEFINE F == First(k, m)
           h == Head(k.wait[m])
           b == IF k.wait[m] = <<>> THEN Free ELSE Own(h, m, 1)
           x == WakeFirst(Restored(t, m), m)
           L == {}
<1>1. /\ Asks(t, "mutex_release") /\ mx[m].owner = t /\ mx[m].hold = 1
      /\ mx' = [mx EXCEPT ![m] = b] /\ k' = x
      /\ IF k.wait[m] # <<>> THEN Goto(t, "sched") ELSE pc' = pc
      /\ depth' = [depth EXCEPT ![t][m] = depth[t][m] - 1]
      /\ UNCHANGED <<cpu, arg, isr, prog, waitVars>>
  BY DEF MutexRelease
<1>2. PICK w \in {"user", "sched"} : Goto(t, w) \/ (w = "user" /\ pc' = pc)
  BY <1>1
<1>3. Quits(x, k, F, Base(k, isr)) /\ \A u \in F : u \in Elems(k.wait[m]) /\ Ready(x, u)
  BY <1>1, ReleaseQuits
<1>4. m \in Obj
  BY ObjectListsApart
<1> HIDE DEF x
<1>5. Passes(First(k, m), {}, {})
  <2>1. Lent(k', k)
    BY DEF Lent, Lends
  <2> QED BY <1>1, <1>2, <1>3, <1>4, <2>1, FirstCall
<1>6. \A u \in F : /\ u \in Thread /\ frame[u].call = "mutex_take" /\ frame[u].obj = m
                   /\ k.stat[u] = "suspend"
  BY <1>3, <1>4, WaiterFits, CallOfList
<1>7. Flow(F, L)
  BY <1>5 DEF Passes
<1>8. /\ k.stat[t] = "running" /\ ~Back(k, pc, frame, t) /\ k \in Kernel
      /\ k.wait[m] \in Seq(Thread)
  BY <1>1, <1>4, Asker, NowWaiting DEF ObjCallInv, Kernel
<1>9. \A u \in F : ~Back(k, pc, frame, u) /\ u # t
  BY <1>6, <1>7, <1>8 DEF Flow
<1>10. (k.wait[m] = <<>> => F = {}) /\ (k.wait[m] # <<>> => F = {h} /\ h \in Thread)
  BY <1>6 DEF First
<1> HIDE DEF F, L, h
<1>11. \A l : Backers(k', pc', frame', {"mutex_take"}, l)
               = (Backers(k, pc, frame, {"mutex_take"}, l) \ L)
                    \cup {u \in F : frame[u].call \in {"mutex_take"} /\ frame[u].obj = l}
  BY <1>7, FlowMoves
<1>12. \A l, u : u \in Backers(k', pc', frame', {"mutex_take"}, l)
                   <=> (u \in Backers(k, pc, frame, {"mutex_take"}, l) \/ (u \in F /\ l = m))
  BY <1>6, <1>11 DEF L
<1>13. \A u \in Thread : \A l : Handed(u, l)' <=> (Handed(u, l) \/ (u \in F /\ l = m))
  BY <1>12, HandedAre
<1>14. \A u \in F : ~Handed(u, m)
  BY <1>6 DEF Handed
<1>15. ~Handed(t, m)
  BY <1>8, HandedAre DEF Backers
<1>16. /\ depth' \in [Thread -> [Mutex -> Int]]
       /\ \A u \in Thread, l \in Mutex :
             depth'[u][l] = IF u = t /\ l = m THEN depth[t][m] + (-1) ELSE depth[u][l]
  <2> DEFINE n == -1
  <2>1. depth' = [depth EXCEPT ![t][m] = depth[t][m] + n] /\ n \in Int
    <3>1. depth[t][m] \in Int
      BY OwnerIs
    <3>2. depth[t][m] - 1 = depth[t][m] + n /\ n \in Int
      BY <3>1
    <3>3. depth' = [depth EXCEPT ![t][m] = depth[t][m] - 1]
      BY <1>1
    <3> HIDE DEF n
    <3> QED BY <3>2, <3>3
  <2> HIDE DEF n
  <2>2. /\ depth' \in [Thread -> [Mutex -> Int]]
        /\ \A u \in Thread, l \in Mutex :
              depth'[u][l] = IF u = t /\ l = m THEN depth[t][m] + n ELSE depth[u][l]
    BY <2>1, DepthMoves
  <2> QED BY <2>2 DEF n
<1>17. /\ b \in MutexState
       /\ b.owner = Nobody <=> b.value = 1
       /\ b.owner = Nobody => b.hold = 0
       /\ b.owner # Nobody => b.orig \in Prio
       /\ b.hold = IF F = {} THEN 0 ELSE 1
       /\ \A u \in Thread : b.owner = u <=> u \in F
  <2>1. HoldMax \in Nat \ {0} /\ Nobody \notin Thread
    BY MutexAssumption
  <2>2. CASE k.wait[m] = <<>>
    BY <1>10, <2>1, <2>2 DEF Free, MutexState
  <2>3. CASE k.wait[m] # <<>>
    <3>1. k.prio[h] \in Prio /\ F = {h} /\ h \in Thread
      BY <1>8, <1>10, <2>3 DEF Kernel
    <3>2. b = [value |-> 0, owner |-> h, hold |-> 1, orig |-> k.prio[h]]
      BY <2>3 DEF Own
    <3>3. 1 \in 0..HoldMax /\ h # Nobody
      BY <2>1, <3>1
    <3> HIDE DEF b
    <3> QED BY <3>1, <3>2, <3>3 DEF MutexState
  <2> QED BY <2>2, <2>3
<1> HIDE DEF b
<1>18. ASSUME NEW u \in Thread, NEW l \in Mutex \ {m}
       PROVE  depth'[u][l] = depth[u][l] /\ (Handed(u, l)' <=> Handed(u, l))
  BY <1>13, <1>16
<1>19. ASSUME NEW u \in Thread
       PROVE  depth'[u][m] + (IF Handed(u, m)' THEN 1 ELSE 0) = IF b.owner = u THEN b.hold ELSE 0
  <2> DEFINE H == IF Handed(u, m) THEN 1 ELSE 0
             G == IF Handed(u, m)' THEN 1 ELSE 0
  <2>1. (u \in F => H = 0 /\ G = 1) /\ (u \notin F => G = H) /\ (u = t => H = 0)
    BY <1>13, <1>14, <1>15
  <2>2. depth[u][m] \in Int /\ H \in {0, 1} /\ depth[u][m] + H = IF t = u THEN 1 ELSE 0
    BY <1>1, OwnerIs
  <2> HIDE DEF H, G
  <2>3. depth'[u][m] = IF u = t THEN depth[u][m] + (-1) ELSE depth[u][m]
    BY <1>16
  <2>4. CASE u \in F
    <3>1. u # t /\ b.owner = u /\ b.hold = 1
      BY <1>9, <1>17, <2>4
    <3>2. depth'[u][m] + G = 1
      BY <2>1, <2>2, <2>3, <2>4, <3>1
    <3> QED BY <3>1, <3>2 DEF G
  <2>5. CASE u \notin F
    <3>1. b.owner # u
      BY <1>17, <2>5
    <3>2. depth'[u][m] + G = 0
      BY <2>1, <2>2, <2>3, <2>5
    <3> QED BY <3>1, <3>2 DEF G
  <2> QED BY <2>4, <2>5
<1>20. mx' = [mx EXCEPT ![m] = b] /\ depth' \in [Thread -> [Mutex -> Int]] /\ b \in MutexState
  BY <1>1, <1>16, <1>17
<1>21. (b.owner = Nobody <=> b.value = 1) /\ (b.owner = Nobody => b.hold = 0)
       /\ (b.owner # Nobody => b.orig \in Prio)
  BY <1>17
<1>22. MutexSafe'
  BY <1>18, <1>19, <1>20, <1>21, MutexChange
<1> QED BY <1>5, <1>6, <1>22 DEF F

(* A mutex is detached, whoever owns it. *)
LEMMA MutexDetachTurn ==
    ASSUME ObjCallInv, Patient, MutexSafe, NEW t \in Thread,
           MutexDetached(t) \/ \E m \in Mutex : MutexDetach(t, m)
    PROVE  Passes({}, {}, {}) /\ MutexSafe'
<1>1. Passes({}, {}, {}) /\ mx' = mx /\ depth' = depth
  <2>1. CASE MutexDetached(t)
    <3>1. PICK w \in {"user", "sched"} : Goto(t, w)
      BY <2>1 DEF MutexDetached
    <3>2. AllWoken(t, "mutex_detach") /\ Leave(t) /\ UNCHANGED <<k, cpu, arg, isr, prog, app>>
      BY <2>1 DEF MutexDetached
    <3>3. "mutex_detach" \notin Waiters
      BY DEF Waiters
    <3>4. Passes({}, {}, {})
      BY <3>1, <3>2, <3>3, DetachEnds
    <3> QED BY <2>1, <3>4 DEF MutexDetached, mutexVars
  <2>2. ASSUME NEW m \in Mutex, MutexDetach(t, m)
        PROVE  Passes({}, {}, {}) /\ mx' = mx /\ depth' = depth
    <3>1. /\ Asks(t, "mutex_detach") /\ Enter(t, "mutex_detach", m, NoTime, NoCall.msg)
          /\ Goto(t, "wake_test") /\ UNCHANGED <<k, cpu, arg, isr, prog, app>>
      BY <2>2 DEF MutexDetach
    <3>2. "mutex_detach" \notin Waiters /\ m \in Obj
      BY ObjectListsApart DEF Waiters
    <3>3. Passes({}, {}, {})
      BY <3>1, <3>2, DetachBegins
    <3> QED BY <2>2, <3>3 DEF MutexDetach
  <2> QED BY <2>1, <2>2
<1> DEFINE J == {}
<1>2. Flow(J, J) /\ \A u \in J \cup J : frame[u].call # "mutex_take"
  BY <1>1 DEF Passes
<1> HIDE DEF J
<1>3. MutexSafe'
  BY <1>1, <1>2, MutexKept
<1> QED BY <1>1, <1>3

LEMMA MutexTurns ==
    ASSUME ObjCallInv, Patient, MutexSafe, NEW t \in Thread, MutexStep(t)
    PROVE  (\E J, L, X : Confined(J, L, X, {"mutex_take"}, Mutex)) /\ MutexSafe'
<1>1. Passes({}, {}, {}) => Confined({}, {}, {}, {"mutex_take"}, Mutex)
  BY DEF Confined
<1>2. CASE \E m \in Mutex : \/ MutexTakeFree(t, m) \/ MutexTakeAgain(t, m) \/ MutexReleaseInner(t, m)
  BY <1>1, <1>2, MutexTakeTurn
<1>3. CASE \E m \in Mutex : MutexTakeRefused(t, m) \/ MutexReleaseRefused(t, m)
  BY <1>1, <1>3, MutexRefusedTurn
<1>4. ASSUME NEW m \in Mutex, NEW n \in app.timeouts[t], MutexTakeWait(t, m, n)
      PROVE  (\E J, L, X : Confined(J, L, X, {"mutex_take"}, Mutex)) /\ MutexSafe'
  <2>1. Passes({}, {}, {m}) /\ MutexSafe'
    BY <1>4, MutexWaitTurn
  <2>2. Confined({}, {}, {m}, {"mutex_take"}, Mutex)
    BY <2>1 DEF Confined
  <2> QED BY <2>1, <2>2
<1>5. ASSUME NEW m \in Mutex, MutexRelease(t, m)
      PROVE  (\E J, L, X : Confined(J, L, X, {"mutex_take"}, Mutex)) /\ MutexSafe'
  <2>1. /\ Passes(First(k, m), {}, {}) /\ MutexSafe'
        /\ \A u \in First(k, m) : frame[u].call = "mutex_take"
    BY <1>5, MutexReleaseTurn
  <2>2. Confined(First(k, m), {}, {}, {"mutex_take"}, Mutex)
    BY <2>1 DEF Confined
  <2> QED BY <2>1, <2>2
<1>6. CASE MutexTaken(t)
  <2>1. Passes({}, {t}, {}) /\ frame[t].call = "mutex_take" /\ MutexSafe'
    BY <1>6, MutexTakenTurn
  <2>2. Confined({}, {t}, {}, {"mutex_take"}, Mutex)
    BY <2>1 DEF Confined
  <2> QED BY <2>1, <2>2
<1>7. CASE MutexDetached(t) \/ \E m \in Mutex : MutexDetach(t, m)
  BY <1>1, <1>7, MutexDetachTurn
<1> QED BY <1>2, <1>3, <1>4, <1>5, <1>6, <1>7 DEF MutexStep

-----------------------------------------------------------------------------
(* Things that threads wait for.  In O no list is waited in beside more       *)
(* things S than threads are on their way for.                               *)
Supplied(x, p, f, C, O, S) ==
    \A o \in O : x.wait[o] # <<>> => S[o] <= Cardinality(Backers(x, p, f, C, o))

LEMMA EnoughBack ==
    ASSUME NEW A, IsFiniteSet(A), NEW B, NEW n \in Int, n <= Cardinality(A), NEW m \in Int,
           \/ B = A /\ m <= n
           \/ \E h : h \notin A /\ B = A \cup {h} /\ m <= n + 1
           \/ \E t \in A : B = A \ {t} /\ m <= n - 1
    PROVE  m <= Cardinality(B)
<1>1. Cardinality(A) \in Nat
  BY FS_CardinalityType
<1>2. CASE B = A /\ m <= n
  BY <1>1, <1>2
<1>3. ASSUME NEW h, h \notin A, B = A \cup {h}, m <= n + 1
      PROVE  m <= Cardinality(B)
  BY <1>1, <1>3, FS_AddElement
<1>4. ASSUME NEW t \in A, B = A \ {t}, m <= n - 1
      PROVE  m <= Cardinality(B)
  BY <1>1, <1>4, FS_RemoveElement
<1> QED BY <1>2, <1>3, <1>4

(* One thing more in p, and its first thread is woken. *)
LEMMA SupplyFirst ==
    ASSUME ObjCallInv, Patient, NEW O \in SUBSET Obj, NEW C, NEW S \in [O -> Int], NEW R \in [O -> Int],
           Supplied(k, pc, frame, C, O, S), NEW p \in Obj, Passes(First(k, p), {}, {}),
           \A c : CallFits(c, p) => c \in C,
           \A o \in O : R[o] <= IF o = p THEN S[o] + 1 ELSE S[o]
    PROVE  Supplied(k', pc', frame', C, O, R)
<1> DEFINE F == First(k, p)
           L == {}
<1>1. Flow(F, L) /\ Shrinks({})
  BY DEF Passes
<1>2. k.wait[p] \in Seq(Thread)
  BY NowWaiting DEF ObjCallInv, Kernel
<1>3. \A u \in F : /\ u \in Elems(k.wait[p]) /\ u \in Thread /\ frame[u].obj = p
                   /\ frame[u].call \in C /\ ~Ready(k, u)
  BY <1>2, HeadElem, WaiterFits DEF First
<1>4. (k.wait[p] = <<>> => F = {}) /\ (k.wait[p] # <<>> => \E h : F = {h})
  BY DEF First
<1> HIDE DEF F, L
<1>5. \A o : Backers(k', pc', frame', C, o)
               = (Backers(k, pc, frame, C, o) \ L) \cup {u \in F : frame[u].call \in C /\ frame[u].obj = o}
  BY <1>1, FlowMoves
<1>6. SUFFICES ASSUME NEW o \in O, k'.wait[o] # <<>>
               PROVE  R[o] <= Cardinality(Backers(k', pc', frame', C, o))
  BY DEF Supplied
<1> DEFINE A == Backers(k, pc, frame, C, o)
           B == Backers(k', pc', frame', C, o)
<1>7. k.wait[o] # <<>> /\ S[o] \in Int /\ R[o] \in Int
  BY <1>1, <1>6 DEF Shrinks
<1>8. S[o] <= Cardinality(A) /\ IsFiniteSet(A)
  BY <1>7, BackersCount DEF Supplied
<1>9. \A u \in F : u \notin A
  BY <1>3 DEF Backers, Back
<1>10. CASE o = p
  <2>1. PICK h : F = {h}
    BY <1>4, <1>7, <1>10
  <2>2. {u \in F : frame[u].call \in C /\ frame[u].obj = o} = {h}
    BY <1>3, <1>10, <2>1
  <2>3. B = A \cup {h}
    BY <1>5, <2>2 DEF L
  <2>4. h \notin A /\ R[o] <= S[o] + 1
    BY <1>9, <1>10, <2>1
  <2> HIDE DEF A, B
  <2>5. R[o] <= Cardinality(B)
    BY <1>7, <1>8, <2>3, <2>4, EnoughBack
  <2> QED BY <2>5 DEF B
<1>11. CASE o # p
  <2>1. {u \in F : frame[u].call \in C /\ frame[u].obj = o} = {}
    BY <1>3, <1>11
  <2>2. B = A
    BY <1>5, <2>1 DEF L
  <2>3. R[o] <= S[o]
    BY <1>11
  <2> HIDE DEF A, B
  <2>4. R[o] <= Cardinality(B)
    BY <1>7, <1>8, <2>2, <2>3, EnoughBack
  <2> QED BY <2>4 DEF B
<1> QED BY <1>10, <1>11

(* A thread arrives and takes one, or finds none and may wait again. *)
LEMMA SupplyLeave ==
    ASSUME NEW O \in SUBSET Obj, NEW C, NEW S \in [O -> Int], NEW R \in [O -> Int],
           Supplied(k, pc, frame, C, O, S), NEW t, NEW X, NEW L, L = {} \/ L = {t}, Passes({}, L, X),
           \A o \in O : \/ R[o] <= 0
                        \/ /\ o \notin X
                           /\ R[o] <= IF L # {} /\ frame[t].obj = o THEN S[o] - 1 ELSE S[o]
    PROVE  Supplied(k', pc', frame', C, O, R)
<1> DEFINE F == {}
<1>1. Flow(F, L) /\ Shrinks(X)
  BY DEF Passes
<1> HIDE DEF F
<1>5. \A o : Backers(k', pc', frame', C, o)
               = (Backers(k, pc, frame, C, o) \ L) \cup {u \in F : frame[u].call \in C /\ frame[u].obj = o}
  BY <1>1, FlowMoves
<1>6. SUFFICES ASSUME NEW o \in O, k'.wait[o] # <<>>
               PROVE  R[o] <= Cardinality(Backers(k', pc', frame', C, o))
  BY DEF Supplied
<1> DEFINE A == Backers(k, pc, frame, C, o)
           B == Backers(k', pc', frame', C, o)
<1>7. B = A \ L
  BY <1>5 DEF F
<1>8. S[o] \in Int /\ R[o] \in Int /\ IsFiniteSet(A) /\ IsFiniteSet(B) /\ Cardinality(B) \in Nat
  <2>1. IsFiniteSet(A) /\ IsFiniteSet(B)
    BY BackersCount
  <2> HIDE DEF A, B
  <2> QED BY <2>1, FS_CardinalityType
<1>9. CASE R[o] <= 0
  BY <1>8, <1>9
<1>10. CASE o \notin X /\ R[o] <= IF L # {} /\ frame[t].obj = o THEN S[o] - 1 ELSE S[o]
  <2>1. k.wait[o] # <<>>
    BY <1>1, <1>6, <1>10 DEF Shrinks
  <2>2. S[o] <= Cardinality(A)
    BY <2>1 DEF Supplied
  <2>3. CASE L = {t} /\ t \in A
    <3>1. frame[t].obj = o /\ L # {}
      BY <2>3 DEF Backers
    <3> HIDE DEF A, B
    <3>2. R[o] <= S[o] - 1 /\ B = A \ {t}
      BY <1>7, <1>10, <2>3, <3>1
    <3>3. R[o] <= Cardinality(B)
      BY <1>8, <2>2, <2>3, <3>2, EnoughBack
    <3> QED BY <3>3 DEF B
  <2>4. CASE ~(L = {t} /\ t \in A)
    <3> HIDE DEF A, B
    <3>1. B = A /\ R[o] <= S[o]
      BY <1>7, <1>8, <1>10, <2>4
    <3>2. R[o] <= Cardinality(B)
      BY <1>8, <2>2, <3>1, EnoughBack
    <3> QED BY <3>2 DEF B
  <2> QED BY <2>3, <2>4
<1> QED BY <1>9, <1>10

-----------------------------------------------------------------------------
(* Message queues: messages for the receivers, free cells for the senders.   *)
MqSide == Mq \cup MqLists
MqCall == {"mq_send", "mq_recv"}
Stock(b) == [o \in MqSide |-> IF o \in Mq THEN b[o].entry
                              ELSE Len(b[CHOOSE q \in Mq : MqSenders[q] = o].free)]

LEMMA SendersApart ==
    \A q, r \in Mq : /\ MqSenders[q] \in MqLists /\ MqSenders[q] \notin Mq /\ MqSenders[q] # r
                     /\ MqSenders[q] \in MqSide /\ q \in MqSide
                     /\ MqSenders[q] = MqSenders[r] => q = r
<1>1. \A q, r \in Mq : MqSenders[q] = MqSenders[r] => q = r
  BY MqAssumption
<1>2. \A q \in Mq : MqSenders[q] \in MqLists /\ MqSenders[q] \notin Mq
  BY ObjectListsApart
<1> QED BY <1>1, <1>2 DEF MqSide

LEMMA StockAre ==
    ASSUME NEW b, \A q \in Mq : b[q].entry \in Nat /\ Len(b[q].free) \in Nat
    PROVE  /\ Stock(b) \in [MqSide -> Int]
           /\ \A q \in Mq : Stock(b)[q] = b[q].entry /\ Stock(b)[MqSenders[q]] = Len(b[q].free)
<1>1. ASSUME NEW q \in Mq
      PROVE  Stock(b)[q] = b[q].entry /\ Stock(b)[MqSenders[q]] = Len(b[q].free)
  <2>1. q \in MqSide /\ MqSenders[q] \in MqSide /\ MqSenders[q] \notin Mq
    BY SendersApart
  <2>2. (CHOOSE r \in Mq : MqSenders[r] = MqSenders[q]) = q
    BY SendersApart
  <2> QED BY <2>1, <2>2 DEF Stock
<1>2. ASSUME NEW o \in MqSide PROVE Stock(b)[o] \in Int
  <2>1. CASE o \in Mq
    BY <1>1, <2>1
  <2>2. CASE o \notin Mq
    <3>1. PICK q \in Mq : o = MqSenders[q]
      BY <2>2 DEF MqSide, MqLists
    <3> QED BY <1>1, <3>1
  <2> QED BY <2>1, <2>2
<1>3. Stock(b) = [o \in MqSide |-> Stock(b)[o]]
  BY DEF Stock
<1> QED BY <1>1, <1>2, <1>3

LEMMA MqNumbers ==
    /\ MqInv => \A q \in Mq : mq[q].entry \in Nat /\ Len(mq[q].free) \in Nat
    /\ MqInv' => \A q \in Mq : mq'[q].entry \in Nat /\ Len(mq'[q].free) \in Nat
BY DEF MqInv, CellsSound, QueueOf

LEMMA MqSupplied ==
    ASSUME MqInv, MqInv'
    PROVE  /\ NoMqWaitInVain <=> Supplied(k, pc, frame, MqCall, MqSide, Stock(mq))
           /\ NoMqWaitInVain' <=> Supplied(k', pc', frame', MqCall, MqSide, Stock(mq'))
<1>1. \A q \in Mq : /\ Stock(mq)[q] = mq[q].entry /\ Stock(mq)[MqSenders[q]] = Len(mq[q].free)
                    /\ Stock(mq')[q] = mq'[q].entry /\ Stock(mq')[MqSenders[q]] = Len(mq'[q].free)
  BY MqNumbers, StockAre
<1>2. \A q \in Mq : q \in MqSide /\ MqSenders[q] \in MqSide
  BY SendersApart
<1>3. \A o \in MqSide : o \in Mq \/ \E q \in Mq : o = MqSenders[q]
  BY DEF MqSide, MqLists
<1>4. NoMqWaitInVain <=> Supplied(k, pc, frame, MqCall, MqSide, Stock(mq))
  BY <1>1, <1>2, <1>3, MqComingAre DEF NoMqWaitInVain, Supplied, MqCall
<1>5. NoMqWaitInVain' <=> Supplied(k', pc', frame', MqCall, MqSide, Stock(mq'))
  BY <1>1, <1>2, <1>3, MqComingAre DEF NoMqWaitInVain, Supplied, MqCall
<1> QED BY <1>4, <1>5

(* One queue changes. *)
OneQueue(a, c, q, b) ==
    \A r \in Mq : /\ c[r] = IF r = q THEN b ELSE a[r]
                 /\ a[r].entry \in Nat /\ Len(a[r].free) \in Nat
                 /\ c[r].entry \in Nat /\ Len(c[r].free) \in Nat
StockOf(a, c, q, b) ==
    /\ Stock(a) \in [MqSide -> Int] /\ Stock(c) \in [MqSide -> Int]
    /\ Stock(a)[q] = a[q].entry /\ Stock(a)[MqSenders[q]] = Len(a[q].free)
    /\ Stock(c)[q] = b.entry /\ Stock(c)[MqSenders[q]] = Len(b.free)
    /\ \A o \in MqSide \ {q, MqSenders[q]} : Stock(c)[o] = Stock(a)[o]
    /\ b.entry \in Nat /\ Len(b.free) \in Nat

LEMMA StockChange ==
    ASSUME NEW a, NEW c, NEW q \in Mq, NEW b, OneQueue(a, c, q, b)
    PROVE  StockOf(a, c, q, b)
<1>1. /\ Stock(a) \in [MqSide -> Int] /\ Stock(c) \in [MqSide -> Int]
      /\ \A r \in Mq : /\ Stock(a)[r] = a[r].entry /\ Stock(a)[MqSenders[r]] = Len(a[r].free)
                       /\ Stock(c)[r] = c[r].entry /\ Stock(c)[MqSenders[r]] = Len(c[r].free)
  BY StockAre DEF OneQueue
<1>2. ASSUME NEW o \in MqSide \ {q, MqSenders[q]} PROVE Stock(c)[o] = Stock(a)[o]
  <2>1. PICK r \in Mq : o = r \/ o = MqSenders[r]
    BY DEF MqSide, MqLists
  <2>2. c[r] = a[r]
    BY <2>1 DEF OneQueue
  <2> QED BY <1>1, <2>1, <2>2
<1> QED BY <1>1, <1>2 DEF StockOf, OneQueue

LEMMA StockMoves ==
    ASSUME MqInv, MqInv', NEW q \in Mq, NEW b, mq' = [mq EXCEPT ![q] = b]
    PROVE  StockOf(mq, mq', q, b)
<1>1. OneQueue(mq, mq', q, b)
  <2>1. \A r \in Mq : mq'[r] = IF r = q THEN b ELSE mq[r]
    BY DEF MqInv
  <2> QED BY <2>1, MqNumbers DEF OneQueue
<1> QED BY <1>1, StockChange

(* Nothing more is there, and those who arrive have taken one or found none. *)
LEMMA MqLess ==
    ASSUME ObjCallInv, Patient, MqInv, MqInv', NoMqWaitInVain, NEW q \in Mq, NEW b,
           mq' = [mq EXCEPT ![q] = b], NEW t, NEW L, L = {} \/ L = {t}, NEW X, Passes({}, L, X),
           X \subseteq {q, MqSenders[q]}, L # {} => frame[t].obj \in {q, MqSenders[q]},
           \/ b.entry = 0
           \/ q \notin X /\ b.entry <= IF L # {} /\ frame[t].obj = q THEN mq[q].entry - 1 ELSE mq[q].entry,
           \/ Len(b.free) = 0
           \/ /\ MqSenders[q] \notin X
              /\ Len(b.free) <= IF L # {} /\ frame[t].obj = MqSenders[q] THEN Len(mq[q].free) - 1
                                ELSE Len(mq[q].free)
    PROVE  NoMqWaitInVain'
<1>1. Supplied(k, pc, frame, MqCall, MqSide, Stock(mq))
  BY MqSupplied
<1>2. MqSide \in SUBSET Obj
  BY ObjectListsApart DEF MqSide
<1> DEFINE S == Stock(mq)
           R == Stock(mq')
           s == MqSenders[q]
<1>3. /\ S \in [MqSide -> Int] /\ R \in [MqSide -> Int]
      /\ S[q] = mq[q].entry /\ S[s] = Len(mq[q].free) /\ R[q] = b.entry /\ R[s] = Len(b.free)
      /\ \A o \in MqSide \ {q, s} : R[o] = S[o]
  BY StockMoves DEF StockOf
<1> HIDE DEF S, R
<1>4. ASSUME NEW o \in MqSide
      PROVE  \/ R[o] <= 0
             \/ o \notin X /\ R[o] <= IF L # {} /\ frame[t].obj = o THEN S[o] - 1 ELSE S[o]
  <2>1. CASE o = q
    BY <1>3, <2>1
  <2>2. CASE o = s
    BY <1>3, <2>2
  <2>3. CASE o \notin {q, s}
    <3>1. R[o] = S[o] /\ R[o] \in Int /\ o \notin X /\ ~(L # {} /\ frame[t].obj = o)
      BY <1>3, <2>3
    <3> QED BY <3>1
  <2> QED BY <2>1, <2>2, <2>3
<1>5. Supplied(k', pc', frame', MqCall, MqSide, R)
  BY <1>1, <1>2, <1>3, <1>4, SupplyLeave DEF S
<1> QED BY <1>5, MqSupplied DEF R

(* One more is there, and the first of those who wait for it is woken. *)
LEMMA MqMore ==
    ASSUME ObjCallInv, Patient, MqInv, MqInv', NoMqWaitInVain, NEW q \in Mq, NEW b,
           mq' = [mq EXCEPT ![q] = b], NEW p \in {q, MqSenders[q]}, Passes(First(k, p), {}, {}),
           b.entry <= IF p = q THEN mq[q].entry + 1 ELSE mq[q].entry,
           Len(b.free) <= IF p = q THEN Len(mq[q].free) ELSE Len(mq[q].free) + 1
    PROVE  NoMqWaitInVain'
<1>1. Supplied(k, pc, frame, MqCall, MqSide, Stock(mq))
  BY MqSupplied
<1>2. MqSide \in SUBSET Obj /\ p \in Obj /\ p \in MqSide
  BY ObjectListsApart, SendersApart DEF MqSide
<1> DEFINE S == Stock(mq)
           R == Stock(mq')
           s == MqSenders[q]
<1>3. /\ S \in [MqSide -> Int] /\ R \in [MqSide -> Int]
      /\ S[q] = mq[q].entry /\ S[s] = Len(mq[q].free) /\ R[q] = b.entry /\ R[s] = Len(b.free)
      /\ \A o \in MqSide \ {q, s} : R[o] = S[o]
  BY StockMoves DEF StockOf
<1>4. \A c : CallFits(c, p) => c \in MqCall
  BY <1>2, CallOfList DEF MqSide, MqCall
<1>5. q # s
  BY SendersApart
<1> HIDE DEF S, R, s
<1>6. ASSUME NEW o \in MqSide
      PROVE  R[o] <= IF o = p THEN S[o] + 1 ELSE S[o]
  <2>1. CASE o = q
    BY <1>3, <1>5, <2>1 DEF s
  <2>2. CASE o = s
    BY <1>3, <1>5, <2>2 DEF s
  <2>3. CASE o \notin {q, s}
    BY <1>3, <2>3 DEF s
  <2> QED BY <2>1, <2>2, <2>3
<1>7. Supplied(k', pc', frame', MqCall, MqSide, R)
  BY <1>1, <1>2, <1>3, <1>4, <1>6, SupplyFirst DEF S
<1> QED BY <1>7, MqSupplied DEF R

(* Steps of one thread. *)
MqTurn(J, L, X) == Confined(J, L, X, MqCall, MqSide) /\ NoMqWaitInVain'
MqNow == ObjCallInv /\ MqInv /\ MqInv' /\ NoMqWaitInVain

LEMMA WokenIs ==
    ASSUME ObjCallInv, NEW t \in Thread, NEW c, Woken(t, c), c \in Waiters
    PROVE  /\ At(t, "woken") /\ pc[t] = "woken" /\ t # Idle /\ Leaving(t) = {t} /\ frame[t].call = c
           /\ k.stat[t] = "running" /\ k.cur = t /\ "woken" \in InCall \cup {"user"} /\ "woken" # "wait_sched"
           /\ CallFits(c, frame[t].obj)
<1>1. At(t, "woken") /\ pc[t] = "woken" /\ k.stat[t] = "running" /\ k.cur = t /\ frame[t].call = c
      /\ k.err[t] = "ok" /\ "woken" \in InCall
  BY CallerRuns DEF ObjCallInv, Woken, About, InCall
<1>2. t # Idle /\ CallFits(c, frame[t].obj)
  BY <1>1 DEF ObjCallInv, WaitInv, CallsSound, CallSound, FitsObj
<1>3. Back(k, pc, frame, t)
  BY <1>1 DEF Back, Ready
<1> QED BY <1>1, <1>2, <1>3 DEF Leaving

(* Who begins to copy. *)
LEMMA StartSendTurn ==
    ASSUME MqNow, Patient, NEW t \in Thread, NEW q \in Mq, NEW c \in {"user", "woken"}, At(t, c), t # Idle,
           NEW call \in {"mq_send", "mq_urgent"}, NEW v \in Msg, ~MqFull(q), StartSend(t, q, call, v),
           UNCHANGED <<cpu, arg, isr, prog, app>>,
           Leaving(t) # {} => frame[t].obj = MqSenders[q] /\ frame[t].call = "mq_send"
    PROVE  MqTurn({}, Leaving(t), {})
<1> DEFINE L == Leaving(t)
           b == TakeFree(mq[q])
           X == {}
<1>1. /\ Enter(t, call, q, NoTime, v) /\ Goto(t, "between") /\ UNCHANGED <<k, cpu, arg, isr, prog, app>>
      /\ mq' = [mq EXCEPT ![q] = b]
  BY DEF StartSend
<1>2. call # "none" /\ ~(call \in Waiters /\ call \notin {"mq_send", "mq_recv"})
  BY DEF Waiters
<1>3. Passes({}, Leaving(t), {})
  BY <1>1, <1>2, CopyBegins DEF MqNow
<1>4. Passes({}, L, X) /\ (L = {} \/ L = {t}) /\ X \subseteq {q, MqSenders[q]}
      /\ (L # {} => frame[t].obj \in {q, MqSenders[q]})
  BY <1>3 DEF Leaving
<1>5. mq[q].free \in Seq(Cell) /\ mq[q].free # <<>> /\ mq[q].entry \in Nat
  BY DEF MqNow, MqInv, CellsSound, QueueOf, MqFull
<1>6. b.entry = mq[q].entry /\ Len(b.free) = Len(mq[q].free) - 1 /\ Len(mq[q].free) \in Nat
  <2>1. b.entry = mq[q].entry /\ b.free = Tail(mq[q].free)
    BY DEF TakeFree, MqNow, MqInv, CellsSound, QueueOf
  <2> QED BY <1>5, <2>1
<1>7. L # {} => frame[t].obj # q
  BY SendersApart
<1> HIDE DEF L, b, X
<1>8. q \notin X /\ b.entry <= IF L # {} /\ frame[t].obj = q THEN mq[q].entry - 1 ELSE mq[q].entry
  BY <1>5, <1>6, <1>7 DEF X
<1>9. /\ MqSenders[q] \notin X
      /\ Len(b.free) <= IF L # {} /\ frame[t].obj = MqSenders[q] THEN Len(mq[q].free) - 1
                        ELSE Len(mq[q].free)
  BY <1>6 DEF X
<1>10. NoMqWaitInVain'
  BY <1>1, <1>4, <1>8, <1>9, MqLess DEF MqNow
<1>11. Confined({}, Leaving(t), {}, MqCall, MqSide)
  BY <1>3 DEF Confined, Leaving, MqCall
<1> QED BY <1>10, <1>11 DEF MqTurn

LEMMA StartRecvTurn ==
    ASSUME MqNow, Patient, NEW t \in Thread, NEW q \in Mq, NEW c \in {"user", "woken"}, At(t, c), t # Idle,
           ~MqEmpty(q), StartRecv(t, q), UNCHANGED <<cpu, arg, isr, prog, app>>,
           Leaving(t) # {} => frame[t].obj = q /\ frame[t].call = "mq_recv"
    PROVE  MqTurn({}, Leaving(t), {})
<1> DEFINE L == Leaving(t)
           b == TakeHead(mq[q])
           X == {}
<1>0. PICK v \in Msg : v = mq[q].text[Head(mq[q].queue)]
  <2>1. mq[q].queue \in Seq(Cell) /\ mq[q].entry = Len(mq[q].queue) /\ mq[q].text \in [Cell -> Msg]
    BY DEF MqNow, MqInv, CellsSound, QueueOf, Complete
  <2>2. Head(mq[q].queue) \in Cell
    BY <2>1 DEF MqEmpty
  <2> QED BY <2>1, <2>2
<1>1. /\ Enter(t, "mq_recv", q, NoTime, v) /\ Goto(t, "between") /\ UNCHANGED <<k, cpu, arg, isr, prog, app>>
      /\ mq' = [mq EXCEPT ![q] = b]
  BY <1>0 DEF StartRecv
<1>2. "mq_recv" # "none" /\ ~("mq_recv" \in Waiters /\ "mq_recv" \notin {"mq_send", "mq_recv"})
  OBVIOUS
<1>3. Passes({}, Leaving(t), {})
  BY <1>1, <1>2, CopyBegins DEF MqNow
<1>4. Passes({}, L, X) /\ (L = {} \/ L = {t}) /\ X \subseteq {q, MqSenders[q]}
      /\ (L # {} => frame[t].obj \in {q, MqSenders[q]})
  BY <1>3 DEF Leaving
<1>5. mq[q].entry \in Nat /\ Len(mq[q].free) \in Nat
  BY MqNumbers DEF MqNow
<1>6. b.entry = mq[q].entry - 1 /\ b.free = mq[q].free
  BY DEF TakeHead, MqNow, MqInv, CellsSound, QueueOf
<1>7. L # {} => frame[t].obj # MqSenders[q]
  BY SendersApart
<1> HIDE DEF L, b, X
<1>8. q \notin X /\ b.entry <= IF L # {} /\ frame[t].obj = q THEN mq[q].entry - 1 ELSE mq[q].entry
  BY <1>5, <1>6 DEF X
<1>9. /\ MqSenders[q] \notin X
      /\ Len(b.free) <= IF L # {} /\ frame[t].obj = MqSenders[q] THEN Len(mq[q].free) - 1
                        ELSE Len(mq[q].free)
  BY <1>5, <1>6, <1>7 DEF X
<1>10. NoMqWaitInVain'
  BY <1>1, <1>4, <1>8, <1>9, MqLess DEF MqNow
<1>11. Confined({}, Leaving(t), {}, MqCall, MqSide)
  BY <1>3 DEF Confined, Leaving, MqCall
<1> QED BY <1>10, <1>11 DEF MqTurn

(* Who finds nothing returns or waits, again or for the first time. *)
LEMMA MqNothing ==
    ASSUME MqNow, Patient, NEW q \in Mq, NEW p \in {q, MqSenders[q]}, Stock(mq)[p] = 0, mq' = mq,
           NEW t, NEW L, L = {} \/ L = {t}, L # {} => frame[t].obj = p /\ frame[t].call \in MqCall,
           NEW X, X \subseteq {p}, Passes({}, L, X)
    PROVE  MqTurn({}, L, X)
<1> DEFINE b == mq[q]
<1>1. mq' = [mq EXCEPT ![q] = b] /\ b.entry \in Nat /\ Len(b.free) \in Nat
  BY MqNumbers DEF MqNow, MqInv
<1>2. Stock(mq)[q] = b.entry /\ Stock(mq)[MqSenders[q]] = Len(b.free)
  BY MqNumbers, StockAre DEF MqNow
<1>3. q # MqSenders[q] /\ p \in MqSide
  BY SendersApart
<1> HIDE DEF b
<1>4. \/ b.entry = 0
      \/ q \notin X /\ b.entry <= IF L # {} /\ frame[t].obj = q THEN mq[q].entry - 1 ELSE mq[q].entry
  BY <1>1, <1>2, <1>3 DEF b
<1>5. \/ Len(b.free) = 0
      \/ /\ MqSenders[q] \notin X
         /\ Len(b.free) <= IF L # {} /\ frame[t].obj = MqSenders[q] THEN Len(mq[q].free) - 1
                           ELSE Len(mq[q].free)
  BY <1>1, <1>2, <1>3 DEF b
<1>6. X \subseteq {q, MqSenders[q]} /\ (L # {} => frame[t].obj \in {q, MqSenders[q]})
  OBVIOUS
<1>7. NoMqWaitInVain'
  BY <1>1, <1>4, <1>5, <1>6, MqLess DEF MqNow
<1>8. X \subseteq MqSide /\ \A u \in {} \cup L : frame[u].call \in MqCall
  BY <1>3
<1> QED BY <1>7, <1>8 DEF MqTurn, Confined

LEMMA MqGivesUp ==
    ASSUME MqNow, Patient, NEW t \in Thread, NEW q \in Mq, NEW p \in {q, MqSenders[q]}, Stock(mq)[p] = 0,
           mq' = mq, NEW call \in MqCall, Woken(t, call), frame[t].obj = p, Plain(t), Goto(t, "user"), Leave(t),
           UNCHANGED <<cpu, arg, isr, prog, app>>
    PROVE  MqTurn({}, Leaving(t), {})
<1>1. /\ At(t, "woken") /\ Leaving(t) = {t} /\ frame[t].call = call /\ "woken" \in InCall \cup {"user"}
      /\ "woken" # "wait_sched"
  <2>1. call \in Waiters
    BY DEF MqCall, Waiters
  <2> QED BY <2>1, WokenIs DEF MqNow
<1>2. Passes({}, Leaving(t), {})
  BY <1>1, LeaveCall DEF MqNow
<1> DEFINE L == Leaving(t)
           X == {}
<1>3. Passes({}, L, X) /\ (L = {} \/ L = {t}) /\ X \subseteq {p}
      /\ (L # {} => frame[t].obj = p /\ frame[t].call \in MqCall)
  BY <1>1, <1>2
<1> HIDE DEF L, X
<1>4. MqTurn({}, L, X)
  BY <1>3, MqNothing
<1> QED BY <1>4 DEF L, X

LEMMA MqWaits ==
    ASSUME MqNow, Patient, NEW t \in Thread, NEW c \in {"user", "woken"}, At(t, c), t # Idle,
           NEW q \in Mq, NEW p \in {q, MqSenders[q]}, Stock(mq)[p] = 0, mq' = mq,
           NEW call, CallFits(call, p), NEW n \in Times \cup {Forever}, NEW v \in Msg,
           k' = Block(k, t, p, n), Enter(t, call, p, n, v), Goto(t, "wait_sched"),
           UNCHANGED <<cpu, arg, isr, prog, app>>,
           Leaving(t) # {} => frame[t].obj = p /\ frame[t].call \in MqCall
    PROVE  MqTurn({}, Leaving(t), {p})
<1>1. Fit(k, k.tick) /\ p \in Obj
  <2>1. Base(k, isr) = k.tick
    BY CallerRuns DEF MqNow, ObjCallInv, Base, About
  <2>2. p \in Obj
    BY ObjectListsApart
  <2> QED BY <2>1, <2>2, NowWaiting DEF MqNow, ObjCallInv
<1>2. SameButPrio(k, k) /\ Lent(k, k)
  BY <1>1, SameIsButPrio DEF Lent
<1>3. Passes({}, Leaving(t), {p})
  BY <1>1, <1>2, BlockPass DEF MqNow
<1> DEFINE L == Leaving(t)
           X == {p}
<1>4. Passes({}, L, X) /\ (L = {} \/ L = {t}) /\ X \subseteq {p}
      /\ (L # {} => frame[t].obj = p /\ frame[t].call \in MqCall)
  BY <1>3 DEF Leaving
<1> HIDE DEF L, X
<1>5. MqTurn({}, L, X)
  BY <1>4, MqNothing
<1> QED BY <1>5 DEF L, X

(* Who has copied returns and wakes the first thread of the other side. *)
LEMMA CopyEnds ==
    ASSUME ObjCallInv, Patient, NEW t \in Thread, At(t, "between"),
           frame[t].call \in {"mq_send", "mq_urgent", "mq_recv"}, NEW o \in Obj, k' = WakeFirst(k, o),
           Leave(t), NEW w \in {"user", "sched"}, Goto(t, w), UNCHANGED <<cpu, arg, isr, prog, app>>
    PROVE  Passes(First(k, o), {}, {})
<1>1. "between" \in InCall \cup {"user"} /\ "between" # "wait_sched" /\ w \notin InCall
      /\ w \notin {"wait_sched", "woken", "wake_test", "wake_take"}
  BY DEF InCall
<1>2. CallerMove(t, w) /\ pc'[t] = w /\ frame'[t].call = "none"
  BY LeaveMove DEF ObjCallInv
<1>3. FitsObj(pc', frame', t)
  BY <1>1, <1>2 DEF FitsObj
<1>4. pc[t] = "between"
  BY <1>1, CallerRuns DEF ObjCallInv, About
<1>5. ~Back(k, pc, frame, t) /\ ~Back(k', pc', frame', t)
  BY <1>2, <1>4 DEF Back, Waiters
<1> DEFINE L == {}
<1>6. Parts(t, L)
  BY <1>5 DEF Parts, Same
<1>7. Lent(k', k) /\ Quits(k', k, First(k, o), Base(k, isr)) /\ \A u \in First(k, o) : Ready(k', u)
  BY FirstWakes, WakesQuits DEF ObjCallInv
<1> HIDE DEF L
<1>8. Passes(First(k, o), L, {})
  BY <1>1, <1>2, <1>3, <1>6, <1>7, FirstStep
<1> QED BY <1>8 DEF L

LEMMA MqFirstTurn ==
    ASSUME MqNow, Patient, NEW q \in Mq, NEW b, mq' = [mq EXCEPT ![q] = b], NEW p \in {q, MqSenders[q]},
           Passes(First(k, p), {}, {}),
           b.entry <= IF p = q THEN mq[q].entry + 1 ELSE mq[q].entry,
           Len(b.free) <= IF p = q THEN Len(mq[q].free) ELSE Len(mq[q].free) + 1
    PROVE  MqTurn(First(k, p), {}, {})
<1>1. NoMqWaitInVain'
  BY MqMore DEF MqNow
<1>2. p \in Obj /\ p \in MqSide /\ k.wait[p] \in Seq(Thread)
  BY ObjectListsApart, SendersApart, NowWaiting DEF MqNow, ObjCallInv, Kernel
<1>3. \A u \in First(k, p) : frame[u].call \in MqCall
  BY <1>2, HeadElem, WaiterFits, CallOfList DEF First, MqNow, MqSide, MqCall
<1> QED BY <1>1, <1>3 DEF MqTurn, Confined

LEMMA MqSentTurn ==
    ASSUME MqNow, Patient, NEW t \in Thread, NEW q \in Mq, MqSent(t, q)
    PROVE  MqTurn(First(k, q), {}, {})
<1>1. PICK f \in BOOLEAN : f = (frame[t].call = "mq_urgent")
  OBVIOUS
<1> DEFINE b == Link(mq[q], cell[t], frame[t].msg, f)
<1>2. /\ At(t, "between") /\ frame[t].call \in {"mq_send", "mq_urgent", "mq_recv"} /\ k' = WakeFirst(k, q)
      /\ Leave(t) /\ UNCHANGED <<cpu, arg, isr, prog, app>> /\ mq' = [mq EXCEPT ![q] = b]
  BY <1>1 DEF MqSent
<1>3. PICK w \in {"user", "sched"} : Goto(t, w)
  BY DEF MqSent
<1>4. q \in Obj
  BY ObjectListsApart
<1>5. Passes(First(k, q), {}, {})
  BY <1>2, <1>3, <1>4, CopyEnds DEF MqNow
<1>6. b.entry = mq[q].entry + 1 /\ b.free = mq[q].free
  BY DEF Link, MqNow, MqInv, CellsSound, QueueOf
<1>7. mq[q].entry \in Nat /\ Len(mq[q].free) \in Nat
  BY MqNumbers DEF MqNow
<1> HIDE DEF b
<1>8. b.entry <= mq[q].entry + 1 /\ Len(b.free) <= Len(mq[q].free)
  BY <1>6, <1>7
<1>9. mq' = [mq EXCEPT ![q] = b]
  BY <1>2
<1> QED BY <1>5, <1>8, <1>9, MqFirstTurn

LEMMA MqReceivedTurn ==
    ASSUME MqNow, Patient, NEW t \in Thread, NEW q \in Mq, MqReceived(t, q)
    PROVE  MqTurn(First(k, MqSenders[q]), {}, {})
<1> DEFINE b == GiveBack(mq[q], cell[t])
<1>1. PICK s : s = MqSenders[q]
  OBVIOUS
<1>2. /\ At(t, "between") /\ frame[t].call \in {"mq_send", "mq_urgent", "mq_recv"} /\ k' = WakeFirst(k, s)
      /\ Leave(t) /\ UNCHANGED <<cpu, arg, isr, prog, app>> /\ mq' = [mq EXCEPT ![q] = b]
  BY <1>1 DEF MqReceived
<1>3. PICK w \in {"user", "sched"} : Goto(t, w)
  BY DEF MqReceived
<1>4. s \in Obj /\ s # q
  BY <1>1, ObjectListsApart, SendersApart
<1>5. Passes(First(k, s), {}, {})
  BY <1>2, <1>3, <1>4, CopyEnds DEF MqNow
<1>6. b.entry = mq[q].entry /\ b.free = PushFront(mq[q].free, cell[t]) /\ mq[q].free \in Seq(Cell)
  BY DEF GiveBack, MqNow, MqInv, CellsSound, QueueOf
<1>7. mq[q].entry \in Nat /\ Len(mq[q].free) \in Nat /\ Len(b.free) = Len(mq[q].free) + 1
  <2>1. cell[t] \in Nat
    BY MqAssumption DEF MqNow, MqInv, Cell, NoCell
  <2>2. mq[q].free \in Seq(Nat)
    BY <1>6, MqAssumption DEF Cell
  <2> QED BY <1>6, <2>1, <2>2, MqNumbers DEF PushFront, MqNow
<1> HIDE DEF b
<1>8. b.entry <= mq[q].entry /\ Len(b.free) <= Len(mq[q].free) + 1
  BY <1>6, <1>7
<1>9. mq' = [mq EXCEPT ![q] = b]
  BY <1>2
<1>10. MqTurn(First(k, s), {}, {})
  BY <1>1, <1>4, <1>5, <1>8, <1>9, MqFirstTurn
<1> QED BY <1>1, <1>10

LEMMA DeviceMqTurn ==
    ASSUME MqNow, Patient, NEW q \in Mq, NEW v, DeviceMqSend(q, v)
    PROVE  MqTurn(First(k, q), {}, {})
<1> DEFINE b == Link(TakeFree(mq[q]), Head(mq[q].free), v, FALSE)
<1>1. PICK x : x = WakeFirst(k, q)
  OBVIOUS
<1>2. /\ k' = IF k.wait[q] # <<>> THEN Schedule(x) ELSE k
      /\ UNCHANGED <<cpu, pc, arg, isr, prog, waitVars>> /\ mq' = [mq EXCEPT ![q] = b]
      /\ mq[q].free # <<>>
  BY <1>1 DEF DeviceMqSend, MqFull
<1>3. q \in Obj
  BY ObjectListsApart
<1>4. Passes(First(k, q), {}, {})
  BY <1>1, <1>2, <1>3, FirstHandler DEF MqNow
<1>5. b.entry = mq[q].entry + 1 /\ b.free = Tail(mq[q].free) /\ mq[q].free \in Seq(Cell)
  BY DEF Link, TakeFree, MqNow, MqInv, CellsSound, QueueOf
<1>6. mq[q].entry \in Nat /\ Len(mq[q].free) \in Nat
  BY MqNumbers DEF MqNow
<1> HIDE DEF b
<1>7. b.entry <= mq[q].entry + 1 /\ Len(b.free) <= Len(mq[q].free)
  BY <1>2, <1>5, <1>6
<1>8. mq' = [mq EXCEPT ![q] = b]
  BY <1>2
<1> QED BY <1>4, <1>7, <1>8, MqFirstTurn

(* A reset empties both lists. *)
LEMMA MqResetTurn ==
    ASSUME MqNow, Patient, NEW t \in Thread, NEW q \in Mq, MqReset(t, q)
    PROVE  MqTurn({}, {}, {})
<1>1. PICK s : s = MqSenders[q]
  OBVIOUS
<1>2. q \in Obj /\ s \in Obj /\ q # s /\ \A r \in Mq \ {q} : r # s /\ MqSenders[r] # q /\ MqSenders[r] # s
  BY <1>1, ObjectListsApart, SendersApart
<1>3. /\ Asks(t, "mq_reset") /\ k' = WakeAll(WakeAll(k, q), s) /\ Goto(t, "sched")
      /\ UNCHANGED <<cpu, arg, isr, prog, waitVars>>
      /\ mq' = [mq EXCEPT ![q] = Emptied(mq[q])]
  BY <1>1 DEF MqReset
<1>4. Passes({}, {}, {}) /\ k'.wait[q] = <<>> /\ k'.wait[s] = <<>>
  BY <1>2, <1>3, WakeAllPass DEF MqNow
<1> DEFINE J == {}
<1>5. Flow(J, J) /\ \A u \in J \cup J : frame[u].call \notin {"mq_send", "mq_recv"}
  BY <1>4 DEF Passes
<1> HIDE DEF J
<1>6. \A o : MqComing(o)' = MqComing(o)
  BY <1>5, BackersStay, MqComingAre
<1>7. ASSUME NEW r \in Mq
      PROVE  /\ k'.wait[r] # <<>> => mq'[r].entry <= Cardinality(MqComing(r)')
             /\ k'.wait[MqSenders[r]] # <<>> => Len(mq'[r].free) <= Cardinality(MqComing(MqSenders[r])')
  <2>1. CASE r = q
    BY <1>1, <1>4, <2>1
  <2>2. CASE r # q
    <3>1. mq'[r] = mq[r]
      BY <1>3, <2>2 DEF MqNow, MqInv
    <3>2. /\ k'.wait[r] # <<>> => k.wait[r] # <<>>
          /\ k'.wait[MqSenders[r]] # <<>> => k.wait[MqSenders[r]] # <<>>
      BY <1>4, ObjectListsApart DEF Passes, Shrinks
    <3> QED BY <1>6, <3>1, <3>2 DEF MqNow, NoMqWaitInVain
  <2> QED BY <2>1, <2>2
<1>8. NoMqWaitInVain'
  BY <1>7 DEF NoMqWaitInVain
<1> QED BY <1>4, <1>8 DEF MqTurn, Confined

(* Detaching a queue gives nobody anything. *)
LEMMA MqStill ==
    ASSUME MqNow, Passes({}, {}, {}), mq' = mq
    PROVE  MqTurn({}, {}, {})
<1> DEFINE J == {}
<1>1. Flow(J, J) /\ Shrinks(J) /\ J \cap (Mq \cup MqLists) = {}
      /\ \A u \in J \cup J : frame[u].call \notin {"mq_send", "mq_recv"}
  BY DEF Passes
<1> HIDE DEF J
<1>2. NoMqWaitInVain'
  BY <1>1, MqWaitKept DEF MqNow
<1> QED BY <1>2 DEF MqTurn, Confined

LEMMA MqDetachTurn ==
    ASSUME MqNow, Patient, NEW t \in Thread, NEW q \in Mq, MqDetach(t, q) \/ MqDetached(t, q)
    PROVE  MqTurn({}, {}, {})
<1>0. "mq_detach" \notin Waiters /\ "mq_detach" # "none"
  BY DEF Waiters
<1>1. CASE MqDetach(t, q)
  <2>1. /\ Asks(t, "mq_detach") /\ Enter(t, "mq_detach", q, NoTime, NoCall.msg)
        /\ Goto(t, "wake_test") /\ UNCHANGED <<k, cpu, arg, isr, prog, app>> /\ q \in Obj
    BY <1>1, ObjectListsApart DEF MqDetach
  <2>2. Passes({}, {}, {})
    BY <1>0, <2>1, DetachBegins DEF MqNow
  <2>3. mq' = mq
    BY <1>1 DEF MqDetach
  <2> QED BY <2>2, <2>3, MqStill
<1>2. CASE MqDetached(t, q)
  <2>1. AllWoken(t, "mq_detach") /\ UNCHANGED <<k, cpu, arg, isr, prog, app>> /\ mq' = mq
    BY <1>2 DEF MqDetached, mqVars
  <2>2. ASSUME Leave(t), NEW w \in {"user", "sched"}, Goto(t, w) PROVE Passes({}, {}, {})
    BY <1>0, <2>1, <2>2, DetachEnds DEF MqNow
  <2>3. ASSUME frame' = [frame EXCEPT ![t].obj = MqSenders[q]], pc' = pc PROVE Passes({}, {}, {})
    <3>1. PICK o : o = MqSenders[q]
      OBVIOUS
    <3>2. /\ At(t, "wake_test") /\ pc[t] = "wake_test" /\ frame[t].call = "mq_detach" /\ o \in Obj
          /\ "wake_test" \in InCall \cup {"user"} /\ "wake_test" # "wait_sched" /\ "wake_test" \in Onward
      BY <2>1, <3>1, CallerRuns, ObjectListsApart DEF AllWoken, InCall, Onward, MqNow, ObjCallInv, About
    <3>3. /\ Framed(frame') /\ frame'[t] = [frame[t] EXCEPT !.obj = o]
          /\ \A u \in Thread \ {t} : frame'[u] = frame[u]
      BY <2>3, <3>1, TurnFramed DEF MqNow, ObjCallInv, WaitInv, Framed
    <3>4. frame'[t].call = frame[t].call /\ frame'[t].left = frame[t].left /\ frame'[t].since = frame[t].since
          /\ frame'[t].obj = o
      <4>1. frame[t] = [call |-> frame[t].call, obj |-> frame[t].obj, left |-> frame[t].left,
                        since |-> frame[t].since, msg |-> frame[t].msg]
        BY DEF MqNow, ObjCallInv, WaitInv, Framed
      <4> QED BY <3>3, <4>1
    <3>5. pc' = [pc EXCEPT ![t] = "wake_test"]
      BY <2>3, <3>2, NowWaiting DEF MqNow, ObjCallInv
    <3>6. FrameFits(pc', frame', t)
      BY <2>3, <3>4 DEF FrameFits, MqNow, ObjCallInv, WaitInv, CallsSound, CallSound
    <3>7. CallerMove(t, "wake_test")
      BY <2>1, <3>2, <3>3, <3>5, <3>6 DEF CallerMove
    <3>8. FitsObj(pc', frame', t)
      BY <2>3, <3>2, <3>4 DEF FitsObj
    <3> DEFINE L == {}
    <3>9. Parts(t, L)
      BY <3>2, <3>4, <1>0 DEF Parts, Same, Back
    <3>10. Plain(t)
      BY <2>1 DEF Plain
    <3> HIDE DEF L
    <3>11. Passes({}, L, {})
      BY <3>2, <3>7, <3>8, <3>9, <3>10, PlainStep DEF MqNow
    <3> QED BY <3>11 DEF L
  <2>4. Passes({}, {}, {})
    BY <1>2, <2>2, <2>3 DEF MqDetached
  <2> QED BY <2>1, <2>4, MqStill
<1> QED BY <1>1, <1>2

LEMMA MqTurns ==
    ASSUME MqNow, Patient, NEW t \in Thread, MqStep(t)
    PROVE  \E J, L, X : MqTurn(J, L, X)
<1>1. PICK q \in Mq : \/ \E v \in app.mails, call \in {"mq_send", "mq_urgent"} : MqSend(t, q, call, v)
                      \/ \E v \in app.mails, n \in app.timeouts[t] : MqSendWait(t, q, v, n)
                      \/ MqSendAgain(t, q)
                      \/ MqSent(t, q)
                      \/ MqRecv(t, q)
                      \/ \E n \in app.timeouts[t] : MqRecvWait(t, q, n)
                      \/ MqRecvAgain(t, q)
                      \/ MqReceived(t, q)
                      \/ MqReset(t, q)
                      \/ MqDetach(t, q)
                      \/ MqDetached(t, q)
  BY DEF MqStep
<1>2. PICK s : s = MqSenders[q]
  OBVIOUS
<1>3. /\ s # q /\ s \in {q, MqSenders[q]} /\ q \in {q, MqSenders[q]}
      /\ CallFits("mq_send", s) /\ CallFits("mq_recv", q)
  BY <1>2, SendersApart DEF CallFits
<1>4. Stock(mq)[q] = mq[q].entry /\ Stock(mq)[s] = Len(mq[q].free)
  BY <1>2, MqNumbers, StockAre DEF MqNow
<1>5. MqFull(q) => Stock(mq)[s] = 0
  BY <1>4 DEF MqFull
<1>6. MqEmpty(q) => Stock(mq)[q] = 0
  BY <1>4 DEF MqEmpty
<1>7. /\ app.mails \subseteq Msg /\ frame[t].msg \in Msg
      /\ \A n \in app.timeouts[t] : n \in Times \cup {Forever}
  BY MqMails, TimesGiven DEF MqNow
<1>8. PICK m \in Msg : m = NoCall.msg
  BY NoCallFramed
<1>9. ASSUME NEW c, Asks(t, c) PROVE At(t, "user") /\ t # Idle /\ Leaving(t) = {}
  BY <1>9, Asker DEF MqNow
<1>10. ASSUME NEW v \in app.mails, NEW call \in {"mq_send", "mq_urgent"}, MqSend(t, q, call, v)
       PROVE  \E J, L, X : MqTurn(J, L, X)
  <2>1. /\ Asks(t, call) /\ ~MqFull(q) /\ StartSend(t, q, call, v) /\ UNCHANGED <<cpu, arg, isr, prog, app>>
    BY <1>10 DEF MqSend
  <2>2. MqTurn({}, Leaving(t), {})
    BY <1>7, <1>9, <2>1, StartSendTurn
  <2> QED BY <2>2
<1>11. ASSUME NEW v \in app.mails, NEW n \in app.timeouts[t], MqSendWait(t, q, v, n)
       PROVE  \E J, L, X : MqTurn(J, L, X)
  <2>1. /\ Asks(t, "mq_send") /\ MqFull(q) /\ k' = Block(k, t, s, n) /\ Enter(t, "mq_send", s, n, v)
        /\ Goto(t, "wait_sched") /\ UNCHANGED <<cpu, arg, isr, prog, app>> /\ mq' = mq
    BY <1>2, <1>11 DEF MqSendWait, mqVars
  <2>2. MqTurn({}, Leaving(t), {s})
    BY <1>3, <1>5, <1>7, <1>9, <2>1, MqWaits
  <2> QED BY <2>2
<1>12. ASSUME MqSendAgain(t, q) PROVE \E J, L, X : MqTurn(J, L, X)
  <2>1. Woken(t, "mq_send") /\ frame[t].obj = s /\ UNCHANGED <<cpu, arg, isr, prog, app>> /\ "mq_send" \in Waiters
    BY <1>2, <1>12 DEF MqSendAgain, Waiters
  <2>2. At(t, "woken") /\ t # Idle /\ frame[t].call = "mq_send" /\ "mq_send" \in MqCall
    BY <2>1, WokenIs DEF MqNow, MqCall
  <2>3. CASE ~MqFull(q)
    <3>1. StartSend(t, q, "mq_send", frame[t].msg)
      BY <1>12, <2>3 DEF MqSendAgain
    <3>2. PICK v \in Msg : v = frame[t].msg
      BY <1>7
    <3>3. MqTurn({}, Leaving(t), {})
      BY <1>2, <2>1, <2>2, <2>3, <3>1, <3>2, StartSendTurn
    <3> QED BY <3>3
  <2>4. CASE MqFull(q) /\ Left(t) = 0
    <3>1. /\ k' = [k EXCEPT !.err[t] = "ok"] /\ Goto(t, "user") /\ Leave(t) /\ mq' = mq
      BY <1>12, <2>4 DEF MqSendAgain
    <3>2. Plain(t)
      BY <3>1 DEF Plain, ErrorSet, Err
    <3>3. MqTurn({}, Leaving(t), {})
      BY <1>3, <1>5, <2>1, <2>2, <2>4, <3>1, <3>2, MqGivesUp
    <3> QED BY <3>3
  <2>5. CASE MqFull(q) /\ Left(t) # 0
    <3>1. /\ k' = Block(k, t, s, Left(t)) /\ Enter(t, "mq_send", s, Left(t), frame[t].msg)
          /\ Goto(t, "wait_sched") /\ mq' = mq
      BY <1>2, <1>12, <2>5 DEF MqSendAgain
    <3>2. PICK n \in Times \cup {Forever} : n = Left(t)
      BY LeftIs DEF MqNow, ObjCallInv
    <3>3. PICK v \in Msg : v = frame[t].msg
      BY <1>7
    <3>4. k' = Block(k, t, s, n) /\ Enter(t, "mq_send", s, n, v)
      BY <3>1, <3>2, <3>3
    <3>5. MqTurn({}, Leaving(t), {s})
      BY <1>3, <1>5, <2>1, <2>2, <2>5, <3>1, <3>4, MqWaits
    <3> QED BY <3>5
  <2> QED BY <2>3, <2>4, <2>5
<1>13. ASSUME MqRecv(t, q) PROVE \E J, L, X : MqTurn(J, L, X)
  <2>1. Asks(t, "mq_recv") /\ ~MqEmpty(q) /\ StartRecv(t, q) /\ UNCHANGED <<cpu, arg, isr, prog, app>>
    BY <1>13 DEF MqRecv
  <2>2. MqTurn({}, Leaving(t), {})
    BY <1>9, <2>1, StartRecvTurn
  <2> QED BY <2>2
<1>14. ASSUME NEW n \in app.timeouts[t], MqRecvWait(t, q, n)
       PROVE  \E J, L, X : MqTurn(J, L, X)
  <2>1. /\ Asks(t, "mq_recv") /\ MqEmpty(q) /\ k' = Block(k, t, q, n) /\ Enter(t, "mq_recv", q, n, m)
        /\ Goto(t, "wait_sched") /\ UNCHANGED <<cpu, arg, isr, prog, app>> /\ mq' = mq
    BY <1>8, <1>14 DEF MqRecvWait, mqVars
  <2>2. MqTurn({}, Leaving(t), {q})
    BY <1>3, <1>6, <1>7, <1>9, <2>1, MqWaits
  <2> QED BY <2>2
<1>15. ASSUME MqRecvAgain(t, q) PROVE \E J, L, X : MqTurn(J, L, X)
  <2>1. Woken(t, "mq_recv") /\ frame[t].obj = q /\ UNCHANGED <<cpu, arg, isr, prog, app>> /\ "mq_recv" \in Waiters
    BY <1>15 DEF MqRecvAgain, Waiters
  <2>2. At(t, "woken") /\ t # Idle /\ frame[t].call = "mq_recv" /\ "mq_recv" \in MqCall
    BY <2>1, WokenIs DEF MqNow, MqCall
  <2>3. CASE ~MqEmpty(q)
    <3>1. StartRecv(t, q)
      BY <1>15, <2>3 DEF MqRecvAgain
    <3>2. MqTurn({}, Leaving(t), {})
      BY <2>1, <2>2, <2>3, <3>1, StartRecvTurn
    <3> QED BY <3>2
  <2>4. CASE MqEmpty(q) /\ Left(t) = 0
    <3>1. /\ k' = [k EXCEPT !.err[t] = "timeout"] /\ Goto(t, "user") /\ Leave(t) /\ mq' = mq
      BY <1>15, <2>4 DEF MqRecvAgain
    <3>2. Plain(t)
      BY <3>1 DEF Plain, ErrorSet, Err
    <3>3. MqTurn({}, Leaving(t), {})
      BY <1>3, <1>6, <2>1, <2>2, <2>4, <3>1, <3>2, MqGivesUp
    <3> QED BY <3>3
  <2>5. CASE MqEmpty(q) /\ Left(t) # 0
    <3>1. /\ k' = Block(k, t, q, Left(t)) /\ Enter(t, "mq_recv", q, Left(t), m)
          /\ Goto(t, "wait_sched") /\ mq' = mq
      BY <1>8, <1>15, <2>5 DEF MqRecvAgain
    <3>2. PICK n \in Times \cup {Forever} : n = Left(t)
      BY LeftIs DEF MqNow, ObjCallInv
    <3>3. k' = Block(k, t, q, n) /\ Enter(t, "mq_recv", q, n, m)
      BY <3>1, <3>2
    <3>4. MqTurn({}, Leaving(t), {q})
      BY <1>3, <1>6, <2>1, <2>2, <2>5, <3>1, <3>3, MqWaits
    <3> QED BY <3>4
  <2> QED BY <2>3, <2>4, <2>5
<1>16. ASSUME MqSent(t, q) \/ MqReceived(t, q) \/ MqReset(t, q) \/ MqDetach(t, q) \/ MqDetached(t, q)
       PROVE  \E J, L, X : MqTurn(J, L, X)
  BY <1>16, MqSentTurn, MqReceivedTurn, MqResetTurn, MqDetachTurn
<1> QED BY <1>1, <1>10, <1>11, <1>12, <1>13, <1>14, <1>15, <1>16

-----------------------------------------------------------------------------
(* Memory pools: blocks for those who wait. *)
PoolCall == {"mp_alloc"}
PoolTurn(J, L, X) == Confined(J, L, X, PoolCall, Pool) /\ NoPoolWaitInVain'
PoolNow == ObjCallInv /\ PoolInv /\ PoolInv' /\ NoPoolWaitInVain

LEMMA PoolNumbers ==
    /\ PoolInv => \A p \in Pool : mp[p].count \in Nat
    /\ PoolInv' => \A p \in Pool : mp'[p].count \in Nat
BY DEF PoolInv, PoolSound

(* No more blocks are there, and who arrives has taken one or found none. *)
LEMMA PoolLess ==
    ASSUME PoolNow, Patient, shut \subseteq shut', NEW p \in Pool, NEW b, mp' = [mp EXCEPT ![p] = b],
           NEW t, NEW L, L = {} \/ L = {t}, NEW X, Passes({}, L, X), X \subseteq {p},
           L # {} => frame[t].obj = p /\ frame[t].call \in PoolCall,
           \/ b.count = 0
           \/ p \notin X /\ b.count <= IF L # {} THEN mp[p].count - 1 ELSE mp[p].count
    PROVE  PoolTurn({}, L, X)
<1>1. PICK O : O = Pool \ shut'
  OBVIOUS
<1> DEFINE S == [o \in O |-> mp[o].count]
           R == [o \in O |-> mp'[o].count]
<1>2. /\ \A o \in Pool : mp'[o] = IF o = p THEN b ELSE mp[o]
      /\ \A o \in Pool : mp[o].count \in Nat /\ mp'[o].count \in Nat
  BY PoolNumbers DEF PoolNow, PoolInv
<1>3. S \in [O -> Int] /\ R \in [O -> Int]
  BY <1>1, <1>2
<1>4. O \in SUBSET Obj /\ O \in SUBSET (Pool \ shut)
  BY <1>1, ObjectListsApart
<1>5. Supplied(k, pc, frame, PoolCall, O, S)
  BY <1>4, PoolComingAre DEF PoolNow, NoPoolWaitInVain, Supplied, PoolCall
<1>6. ASSUME NEW o \in O
      PROVE  \/ R[o] <= 0
             \/ o \notin X /\ R[o] <= IF L # {} /\ frame[t].obj = o THEN S[o] - 1 ELSE S[o]
  <2>1. CASE o = p
    <3>1. R[o] = b.count /\ S[o] = mp[p].count
      BY <1>2, <1>4, <2>1
    <3> HIDE DEF S, R
    <3> QED BY <2>1, <3>1
  <2>2. CASE o # p
    <3>1. R[o] = S[o] /\ R[o] \in Int
      BY <1>2, <1>3, <1>4, <2>2
    <3> HIDE DEF S, R
    <3> QED BY <2>2, <3>1
  <2> QED BY <2>1, <2>2
<1> HIDE DEF S, R
<1>7. Supplied(k', pc', frame', PoolCall, O, R)
  BY <1>3, <1>4, <1>5, <1>6, SupplyLeave
<1>8. NoPoolWaitInVain'
  BY <1>1, <1>7, PoolComingAre DEF R, NoPoolWaitInVain, Supplied, PoolCall
<1>9. \A u \in {} \cup L : frame[u].call \in PoolCall
  OBVIOUS
<1> QED BY <1>8, <1>9 DEF PoolTurn, Confined

(* One more is there, and the first who waits is woken. *)
LEMMA PoolMore ==
    ASSUME PoolNow, Patient, shut' = shut, NEW p \in Pool, NEW b, mp' = [mp EXCEPT ![p] = b],
           Passes(First(k, p), {}, {}), b.count <= mp[p].count + 1
    PROVE  PoolTurn(First(k, p), {}, {})
<1>1. PICK O : O = Pool \ shut'
  OBVIOUS
<1> DEFINE S == [o \in O |-> mp[o].count]
           R == [o \in O |-> mp'[o].count]
<1>2. /\ \A o \in Pool : mp'[o] = IF o = p THEN b ELSE mp[o]
      /\ \A o \in Pool : mp[o].count \in Nat /\ mp'[o].count \in Nat
  BY PoolNumbers DEF PoolNow, PoolInv
<1>3. S \in [O -> Int] /\ R \in [O -> Int]
  BY <1>1, <1>2
<1>4. O \in SUBSET Obj /\ O \in SUBSET (Pool \ shut) /\ p \in Obj
  BY <1>1, ObjectListsApart
<1>5. Supplied(k, pc, frame, PoolCall, O, S)
  BY <1>4, PoolComingAre DEF PoolNow, NoPoolWaitInVain, Supplied, PoolCall
<1>6. ASSUME NEW o \in O PROVE R[o] <= IF o = p THEN S[o] + 1 ELSE S[o]
  <2>1. R[o] = (IF o = p THEN b.count ELSE mp[o].count) /\ S[o] = mp[o].count /\ R[o] \in Int
    BY <1>2, <1>3, <1>4
  <2> HIDE DEF S, R
  <2> QED BY <2>1
<1>7. \A c : CallFits(c, p) => c \in PoolCall
  BY CallOfList DEF PoolCall
<1> HIDE DEF S, R
<1>8. Supplied(k', pc', frame', PoolCall, O, R)
  BY <1>3, <1>4, <1>5, <1>6, <1>7, SupplyFirst DEF PoolNow
<1>9. NoPoolWaitInVain'
  BY <1>1, <1>8, PoolComingAre DEF R, NoPoolWaitInVain, Supplied, PoolCall
<1>10. k.wait[p] \in Seq(Thread)
  BY <1>4, NowWaiting DEF PoolNow, ObjCallInv, Kernel
<1>11. \A u \in First(k, p) : frame[u].call \in PoolCall
  BY <1>4, <1>7, <1>10, HeadElem, WaiterFits DEF First, PoolNow
<1> QED BY <1>9, <1>11 DEF PoolTurn, Confined

LEMMA PoolStill ==
    ASSUME PoolNow, Passes({}, {}, {}), mp' = mp, shut \subseteq shut'
    PROVE  PoolTurn({}, {}, {})
<1> DEFINE J == {}
<1>1. Flow(J, J) /\ Shrinks(J) /\ \A u \in J \cup J : frame[u].call \notin {"mp_alloc"}
  BY DEF Passes
<1> HIDE DEF J
<1>2. \A p : PoolComing(p)' = PoolComing(p)
  BY <1>1, BackersStay, PoolComingAre
<1>3. \A p \in Pool : k'.wait[p] # <<>> => k.wait[p] # <<>>
  BY ObjectListsApart DEF Passes, Shrinks
<1>4. NoPoolWaitInVain'
  BY <1>2, <1>3 DEF NoPoolWaitInVain, PoolNow
<1> QED BY <1>4 DEF PoolTurn, Confined

(* rt_mp_alloc links the caller in front of the list. *)
LEMMA FrontLinks ==
    ASSUME NEW v \in Seq(Thread), NEW t \in Thread
    PROVE  LET w == PushFront(v, t)
           IN  /\ w \in Seq(Thread) /\ Elems(w) = Elems(v) \cup {t}
               /\ IsOnce(v) /\ t \notin Elems(v) => IsOnce(w)
BY PushFrontFacts

LEMMA FrontParks ==
    ASSUME NEW x, Fit(x, x.tick), NEW t \in Thread, t = x.cur, x.stat[t] = "running", t # Idle,
           NEW o \in Obj, NEW n \in Times \cup {Forever}
    PROVE  Parked(BlockInFront(x, t, o, n), x, t, o, n)
<1> DEFINE s == Stopped(x, t)
           w == PushFront(s.wait[o], t)
           r == [s EXCEPT !.wait[o] = w, !.bad = s.bad \/ Linked(s, t)]
<1>1. SuspendInFront(x, t, o) = r
  BY DEF SuspendInFront, Stopped
<1>2. s.wait = x.wait /\ x.wait[o] \in Seq(Thread)
  BY StoppedFacts DEF Fit, Sound, SoundBut, Kernel
<1> HIDE DEF s
<1>3. w = PushFront(x.wait[o], t)
  BY <1>2
<1>4. /\ w \in Seq(Thread) /\ Elems(w) = Elems(x.wait[o]) \cup {t}
      /\ IsOnce(x.wait[o]) /\ t \notin Elems(x.wait[o]) => IsOnce(w)
  <2>1. PICK v \in Seq(Thread) : v = x.wait[o]
    BY <1>2
  <2> HIDE DEF w
  <2> QED BY <1>3, <2>1, FrontLinks
<1>5. LinkedAs(r, s, t, o, w) /\ s = Stopped(x, t)
  BY DEF s, LinkedAs
<1> HIDE DEF w, r
<1>6. ASSUME NEW i, ~(i > 0) PROVE Parked(r, x, t, o, i)
  BY <1>4, <1>5, <1>6, ListParks
<1>7. BlockInFront(x, t, o, n) = IF n > 0 THEN TimerStart(r, t, n) ELSE r
  BY <1>1 DEF BlockInFront
<1>8. CASE n > 0
  <2>1. n \in Times
    BY <1>8 DEF Forever
  <2> DEFINE z == 0
  <2>2. ~(z > 0)
    OBVIOUS
  <2> HIDE DEF z
  <2>3. Parked(r, x, t, o, z)
    BY <1>6, <2>2
  <2>4. Parked(TimerStart(r, t, n), x, t, o, n)
    BY <1>8, <2>1, <2>3, StartParks DEF z
  <2> QED BY <1>7, <1>8, <2>4
<1>9. CASE ~(n > 0)
  BY <1>6, <1>7, <1>9
<1> QED BY <1>8, <1>9

LEMMA AllocWaits ==
    ASSUME PoolNow, Patient, NEW t \in Thread, NEW c \in {"user", "between"}, At(t, c), t # Idle,
           NEW p \in Pool, mp[p].count = 0, mp' = mp, shut' = shut, NEW n \in Times \cup {Forever},
           k' = BlockInFront(k, t, p, n), Enter(t, "mp_alloc", p, n, NoCall.msg), Goto(t, "wait_sched"),
           UNCHANGED <<cpu, arg, isr, prog, app>>,
           Leaving(t) # {} => frame[t].obj = p /\ frame[t].call \in PoolCall
    PROVE  PoolTurn({}, Leaving(t), {p})
<1>1. /\ Fit(k, k.tick) /\ p \in Obj /\ t = k.cur /\ k.stat[t] = "running" /\ CallFits("mp_alloc", p)
      /\ c \in {"user", "woken", "between"}
  <2>1. Base(k, isr) = k.tick /\ t = k.cur /\ k.stat[t] = "running"
    BY CallerRuns DEF PoolNow, ObjCallInv, Base, About
  <2>2. p \in Obj
    BY ObjectListsApart
  <2> QED BY <2>1, <2>2, NowWaiting DEF PoolNow, ObjCallInv, CallFits
<1>2. SameButPrio(k, k) /\ Lent(k, k)
  BY <1>1, SameIsButPrio DEF Lent
<1>3. Parked(k', k, t, p, n)
  BY <1>1, FrontParks
<1>4. PICK v \in Msg : v = NoCall.msg
  BY NoCallFramed
<1>5. Passes({}, Leaving(t), {p})
  BY <1>1, <1>2, <1>3, <1>4, ParkPass DEF PoolNow
<1> DEFINE L == Leaving(t)
           X == {p}
           b == mp[p]
<1>6. Passes({}, L, X) /\ (L = {} \/ L = {t}) /\ X \subseteq {p}
      /\ (L # {} => frame[t].obj = p /\ frame[t].call \in PoolCall)
      /\ mp' = [mp EXCEPT ![p] = b] /\ b.count = 0 /\ shut \subseteq shut'
  BY <1>5 DEF Leaving, PoolNow, PoolInv
<1> HIDE DEF L, X, b
<1>7. PoolTurn({}, L, X)
  BY <1>6, PoolLess
<1> QED BY <1>7 DEF L, X

(* rt_mp_alloc that need not wait. *)
LEMMA AllocTurn ==
    ASSUME PoolNow, Patient, NEW t \in Thread, NEW p \in Pool, Alloc(t, p) \/ AllocRefused(t, p)
    PROVE  PoolTurn({}, {}, {})
<1>1. PICK c : Asks(t, c)
  BY DEF Alloc, AllocRefused
<1>2. Plain(t) /\ UNCHANGED <<cpu, pc, arg, isr, prog, waitVars>> /\ shut \subseteq shut'
  BY DEF Alloc, AllocRefused, Plain, ErrorSet, Err, poolVars
<1>3. Passes({}, {}, {})
  BY <1>1, <1>2, PlainCall DEF PoolNow
<1>4. mp[p].count \in Nat
  BY PoolNumbers DEF PoolNow
<1>5. PICK b : mp' = [mp EXCEPT ![p] = b] /\ b.count <= mp[p].count
  <2>1. CASE Alloc(t, p)
    <3>1. mp' = [mp EXCEPT ![p] = Pop(mp[p])] /\ Pop(mp[p]).count = mp[p].count - 1
      BY <2>1 DEF Alloc, GetBlock, Pop
    <3>2. Pop(mp[p]).count <= mp[p].count
      BY <1>4, <3>1
    <3> QED BY <3>1, <3>2
  <2>2. CASE AllocRefused(t, p)
    <3>1. mp' = [mp EXCEPT ![p] = mp[p]]
      BY <2>2 DEF AllocRefused, poolVars, PoolNow, PoolInv
    <3>2. mp[p].count <= mp[p].count
      BY <1>4
    <3> QED BY <3>1, <3>2
  <2> QED BY <2>1, <2>2
<1> DEFINE L == {}
<1>6. L = {} /\ Passes({}, L, L) /\ L \subseteq {p} /\ p \notin L
  BY <1>3
<1> HIDE DEF L
<1>7. p \notin L /\ b.count <= IF L # {} THEN mp[p].count - 1 ELSE mp[p].count
  BY <1>5, <1>6
<1>8. PoolTurn({}, L, L)
  BY <1>2, <1>5, <1>6, <1>7, PoolLess
<1> QED BY <1>6, <1>8

(* The caller runs again: it will look. *)
LEMMA AllocWokenTurn ==
    ASSUME PoolNow, Patient, NEW t \in Thread, AllocWoken(t)
    PROVE  PoolTurn({}, {}, {})
<1>1. /\ Woken(t, "mp_alloc") /\ frame' = [frame EXCEPT ![t].left = Left(t), ![t].since = 0]
      /\ Goto(t, "between") /\ UNCHANGED <<k, cpu, arg, isr, prog, app>> /\ mp' = mp /\ shut \subseteq shut'
  BY DEF AllocWoken, poolVars
<1>2. /\ At(t, "woken") /\ pc[t] = "woken" /\ t # Idle /\ frame[t].call = "mp_alloc"
      /\ "woken" \in InCall \cup {"user"} /\ "woken" # "wait_sched" /\ "mp_alloc" \in Waiters
      /\ CallFits("mp_alloc", frame[t].obj)
  <2>1. "mp_alloc" \in Waiters
    BY DEF Waiters
  <2> QED BY <1>1, <2>1, WokenIs DEF PoolNow
<1>3. PICK n \in Times \cup {Forever} : n = Left(t)
  BY LeftIs DEF PoolNow, ObjCallInv
<1>4. /\ frame'[t] = [frame[t] EXCEPT !.left = n, !.since = 0]
      /\ \A u \in Thread \ {t} : frame'[u] = frame[u]
      /\ frame' = [u \in Thread |-> frame'[u]]
      /\ \A u \in Thread : frame[u].msg \in Msg
      /\ \A u \in Thread : frame[u] = [call |-> frame[u].call, obj |-> frame[u].obj, left |-> frame[u].left,
                                       since |-> frame[u].since, msg |-> frame[u].msg]
  BY <1>1, <1>3 DEF PoolNow, ObjCallInv, WaitInv, Framed
<1>5. frame'[t] = [call |-> frame[t].call, obj |-> frame[t].obj, left |-> n, since |-> 0, msg |-> frame[t].msg]
  <2>1. PICK f : f = frame[t]
    OBVIOUS
  <2>2. f = [call |-> f.call, obj |-> f.obj, left |-> f.left, since |-> f.since, msg |-> f.msg]
    BY <1>4, <2>1
  <2>3. frame'[t] = [f EXCEPT !.left = n, !.since = 0]
    BY <1>4, <2>1
  <2> QED BY <2>1, <2>2, <2>3
<1>6. Framed(frame')
  BY <1>4, <1>5 DEF Framed
<1>7. pc' = [pc EXCEPT ![t] = "between"] /\ pc'[t] = "between" /\ "between" \in Onward /\ "between" \in InCall
  BY <1>1, NowWaiting DEF Goto, PoolNow, ObjCallInv, Onward, InCall
<1>8. FrameFits(pc', frame', t)
  <2>1. 0 \in Tick
    BY KernelAssumption DEF Tick
  <2> QED BY <1>2, <1>5, <1>7, <2>1 DEF FrameFits
<1>9. CallerMove(t, "between")
  BY <1>1, <1>4, <1>6, <1>7, <1>8 DEF CallerMove
<1>10. FitsObj(pc', frame', t)
  BY <1>7 DEF FitsObj
<1>11. Plain(t)
  BY <1>1 DEF Plain
<1> DEFINE L == {}
<1>12. Parts(t, L)
  BY <1>1, <1>2, <1>5, <1>7 DEF Parts, Same, Back
<1> HIDE DEF L
<1>13. Passes({}, L, {})
  BY <1>2, <1>9, <1>10, <1>11, <1>12, PlainStep DEF PoolNow
<1>14. Passes({}, {}, {})
  BY <1>13 DEF L
<1> QED BY <1>1, <1>14, PoolStill

(* It looks. *)
LEMMA AllocAgainTurn ==
    ASSUME PoolNow, Patient, NEW t \in Thread, NEW p \in Pool, AllocAgain(t, p)
    PROVE  \E X : PoolTurn({}, Leaving(t), X)
<1>1. /\ At(t, "between") /\ frame[t].call = "mp_alloc" /\ frame[t].obj = p /\ pc[t] = "between"
      /\ UNCHANGED <<cpu, arg, isr, prog, app>> /\ shut' = shut /\ t # Idle
      /\ "between" \in InCall \cup {"user"} /\ "between" # "wait_sched"
      /\ frame[t].left \in Times \cup {Forever} /\ frame[t].call \in PoolCall
  <2>1. /\ At(t, "between") /\ frame[t].call = "mp_alloc" /\ frame[t].obj = p
        /\ UNCHANGED <<cpu, arg, isr, prog, app>> /\ shut' = shut
    BY DEF AllocAgain
  <2>2. pc[t] = "between" /\ "between" \in InCall
    BY <2>1, CallerRuns DEF PoolNow, ObjCallInv, About, InCall
  <2>3. t # Idle /\ frame[t].left \in Times \cup {Forever}
    BY <2>2 DEF PoolNow, ObjCallInv, WaitInv, CallsSound, CallSound
  <2> QED BY <2>1, <2>2, <2>3 DEF PoolCall
<1>2. mp[p].count \in Nat
  BY PoolNumbers DEF PoolNow
<1>3. CASE mp[p].count > 0 \/ frame[t].left = 0
  <2>1. Leave(t) /\ Goto(t, "user") /\ Plain(t)
    BY <1>3 DEF AllocAgain, Plain, ErrorSet, Err
  <2>2. Passes({}, Leaving(t), {})
    BY <1>1, <2>1, LeaveCall DEF PoolNow
  <2>3. PICK b : mp' = [mp EXCEPT ![p] = b] /\ (b.count = 0 \/ b.count = mp[p].count - 1)
    <3>1. CASE mp[p].count > 0
      <4>1. mp' = [mp EXCEPT ![p] = Pop(mp[p])] /\ Pop(mp[p]).count = mp[p].count - 1
        BY <3>1 DEF AllocAgain, GetBlock, Pop
      <4> QED BY <4>1
    <3>2. CASE ~(mp[p].count > 0)
      <4>1. mp' = [mp EXCEPT ![p] = mp[p]] /\ mp[p].count = 0
        BY <1>2, <3>2 DEF AllocAgain, PoolNow, PoolInv
      <4> QED BY <4>1
    <3> QED BY <3>1, <3>2
  <2> DEFINE L == Leaving(t)
             X == {}
  <2>4. (L = {} \/ L = {t}) /\ Passes({}, L, X) /\ X \subseteq {p} /\ p \notin X /\ shut \subseteq shut'
        /\ (L # {} => frame[t].obj = p /\ frame[t].call \in PoolCall)
    BY <1>1, <2>2 DEF Leaving
  <2> HIDE DEF L, X
  <2>5. \/ b.count = 0
        \/ p \notin X /\ b.count <= IF L # {} THEN mp[p].count - 1 ELSE mp[p].count
    BY <1>2, <2>3, <2>4
  <2>6. PoolTurn({}, L, X)
    BY <2>3, <2>4, <2>5, PoolLess
  <2> QED BY <2>6 DEF L
<1>4. CASE ~(mp[p].count > 0) /\ frame[t].left # 0
  <2>1. PICK n \in Times \cup {Forever} : n = frame[t].left
    BY <1>1
  <2>2. /\ k' = BlockInFront(k, t, p, n) /\ Enter(t, "mp_alloc", p, n, NoCall.msg)
        /\ Goto(t, "wait_sched") /\ mp' = mp /\ mp[p].count = 0
    BY <1>2, <1>4, <2>1 DEF AllocAgain
  <2>3. PoolTurn({}, Leaving(t), {p})
    BY <1>1, <2>2, AllocWaits
  <2> QED BY <2>3
<1> QED BY <1>3, <1>4

(* A thread that waits has no error yet: rt_mp_free clears none. *)
LEMMA FreeWakesFirst ==
    ASSUME ObjCallInv, Patient, NEW p \in Pool
    PROVE  WakeForBlock(p) = WakeFirst(k, p)
<1>1. CASE k.wait[p] = <<>>
  BY <1>1 DEF WakeForBlock, WakeFirst
<1>2. CASE k.wait[p] # <<>>
  <2>1. p \in Obj /\ k \in Kernel
    BY ObjectListsApart, NowWaiting DEF ObjCallInv
  <2>2. k.wait[p] \in Seq(Thread)
    BY <2>1 DEF Kernel
  <2>3. PICK h : h = Head(k.wait[p])
    OBVIOUS
  <2>4. h \in Elems(k.wait[p])
    BY <1>2, <2>2, <2>3, HeadElem
  <2>5. h \in Thread /\ k.err[h] = "ok"
    BY <2>1, <2>4, WaiterFits
  <2>6. k.err = [u \in Thread |-> k.err[u]]
    BY <2>1 DEF Kernel
  <2>7. [k.err EXCEPT ![h] = "ok"] = k.err
    BY <2>5, <2>6
  <2>8. [k EXCEPT !.err = k.err] = k
    BY <2>1 DEF Kernel
  <2>9. [k EXCEPT !.err[h] = "ok"] = k
    BY <2>7, <2>8
  <2> QED BY <1>2, <2>3, <2>9 DEF WakeForBlock, WakeFirst
<1> QED BY <1>1, <1>2

(* rt_mp_free. *)
LEMMA FreeTurn ==
    ASSUME PoolNow, Patient, NEW t \in Thread, NEW p \in Pool, NEW b, FreeBlock(t, p, b)
    PROVE  PoolTurn(First(k, p), {}, {})
<1>1. /\ Asks(t, "mp_free") /\ shut' = shut /\ k' = WakeForBlock(p)
      /\ UNCHANGED <<cpu, arg, isr, prog, waitVars>>
  BY DEF FreeBlock
<1>2. p \in Obj
  BY ObjectListsApart
<1>3. k' = WakeFirst(k, p)
  BY <1>1, FreeWakesFirst DEF PoolNow
<1>4. Lent(k', k) /\ Quits(k', k, First(k, p), Base(k, isr)) /\ \A u \in First(k, p) : Ready(k', u)
  BY <1>2, <1>3, FirstWakes, WakesQuits DEF PoolNow, ObjCallInv
<1>5. PICK w \in {"user", "sched"} : Goto(t, w) \/ (w = "user" /\ pc' = pc)
  <2>1. CASE k.wait[p] # <<>>
    BY <2>1 DEF FreeBlock
  <2>2. CASE k.wait[p] = <<>>
    BY <2>2 DEF FreeBlock
  <2> QED BY <2>1, <2>2
<1>6. Passes(First(k, p), {}, {})
  BY <1>1, <1>2, <1>4, <1>5, FirstCall DEF PoolNow
<1>7. PICK d : mp' = [mp EXCEPT ![p] = d] /\ d.count = mp[p].count + 1
  <2>1. PICK d : d = [list |-> PushFront(mp[p].list, b), count |-> mp[p].count + 1]
    OBVIOUS
  <2>2. mp' = [mp EXCEPT ![p] = d]
    BY <2>1 DEF FreeBlock, PutBlock
  <2>3. d.count = mp[p].count + 1
    BY <2>1
  <2> QED BY <2>2, <2>3
<1>8. mp[p].count \in Nat
  BY PoolNumbers DEF PoolNow
<1>9. d.count <= mp[p].count + 1
  BY <1>7, <1>8
<1> QED BY <1>1, <1>6, <1>7, <1>9, PoolMore

LEMMA DevicePoolTurn ==
    ASSUME PoolNow, Patient, NEW p \in Pool, NEW b, DeviceFree(p, b)
    PROVE  PoolTurn(First(k, p), {}, {})
<1>1. /\ shut' = shut /\ k' = IF k.wait[p] # <<>> THEN Schedule(WakeForBlock(p)) ELSE k
      /\ UNCHANGED <<cpu, pc, arg, isr, prog, waitVars>>
  BY DEF DeviceFree
<1>2. p \in Obj
  BY ObjectListsApart
<1>3. PICK x : x = WakeFirst(k, p)
  OBVIOUS
<1>4. k' = IF k.wait[p] # <<>> THEN Schedule(x) ELSE k
  BY <1>1, <1>3, FreeWakesFirst DEF PoolNow
<1>5. Passes(First(k, p), {}, {})
  BY <1>1, <1>2, <1>3, <1>4, FirstHandler DEF PoolNow
<1>6. PICK d : mp' = [mp EXCEPT ![p] = d] /\ d.count = mp[p].count + 1
  <2>1. PICK d : d = [list |-> PushFront(mp[p].list, b), count |-> mp[p].count + 1]
    OBVIOUS
  <2>2. mp' = [mp EXCEPT ![p] = d]
    BY <2>1 DEF DeviceFree, PutBlock
  <2>3. d.count = mp[p].count + 1
    BY <2>1
  <2> QED BY <2>2, <2>3
<1>7. mp[p].count \in Nat
  BY PoolNumbers DEF PoolNow
<1>8. d.count <= mp[p].count + 1
  BY <1>6, <1>7
<1> QED BY <1>1, <1>5, <1>6, <1>8, PoolMore

(* rt_mp_detach begins or ends. *)
LEMMA PoolDetachTurn ==
    ASSUME PoolNow, Patient, NEW t \in Thread, PoolDetached(t) \/ \E p \in Pool : PoolDetach(t, p)
    PROVE  PoolTurn({}, {}, {})
<1>1. "mp_detach" \notin Waiters /\ "mp_detach" # "none"
  BY DEF Waiters
<1>2. CASE PoolDetached(t)
  <2>1. /\ AllWoken(t, "mp_detach") /\ Leave(t) /\ UNCHANGED <<k, cpu, arg, isr, prog, app>>
        /\ mp' = mp /\ shut \subseteq shut'
    BY <1>2 DEF PoolDetached, poolVars
  <2>2. PICK w \in {"user", "sched"} : Goto(t, w)
    BY <1>2 DEF PoolDetached
  <2>3. Passes({}, {}, {})
    BY <1>1, <2>1, <2>2, DetachEnds DEF PoolNow
  <2> QED BY <2>1, <2>3, PoolStill
<1>3. ASSUME NEW p \in Pool, PoolDetach(t, p) PROVE PoolTurn({}, {}, {})
  <2>1. /\ Asks(t, "mp_detach") /\ Enter(t, "mp_detach", p, NoTime, NoCall.msg) /\ Goto(t, "wake_test")
        /\ UNCHANGED <<k, cpu, arg, isr, prog, app>> /\ mp' = mp /\ shut \subseteq shut'
    BY <1>3 DEF PoolDetach
  <2>2. p \in Obj
    BY ObjectListsApart
  <2>3. Passes({}, {}, {})
    BY <1>1, <2>1, <2>2, DetachBegins DEF PoolNow
  <2> QED BY <2>1, <2>3, PoolStill
<1> QED BY <1>2, <1>3

LEMMA PoolTurns ==
    ASSUME PoolNow, Patient, NEW t \in Thread, PoolStep(t)
    PROVE  \E J, L, X : PoolTurn(J, L, X)
<1>1. CASE \E p \in Pool : Alloc(t, p) \/ AllocRefused(t, p)
  BY <1>1, AllocTurn
<1>2. ASSUME NEW p \in Pool, NEW n \in app.timeouts[t], AllocWait(t, p, n)
      PROVE  \E J, L, X : PoolTurn(J, L, X)
  <2>1. /\ Asks(t, "mp_alloc") /\ mp[p].count = 0 /\ k' = BlockInFront(k, t, p, n)
        /\ Enter(t, "mp_alloc", p, n, NoCall.msg) /\ Goto(t, "wait_sched")
        /\ UNCHANGED <<cpu, arg, isr, prog, app>> /\ mp' = mp /\ shut' = shut
    BY <1>2 DEF AllocWait, poolVars
  <2>2. At(t, "user") /\ t # Idle /\ Leaving(t) = {} /\ n \in Times \cup {Forever}
    BY <2>1, Asker, TimesGiven DEF PoolNow
  <2>3. PoolTurn({}, Leaving(t), {p})
    BY <2>1, <2>2, AllocWaits
  <2> QED BY <2>3
<1>3. CASE \E p \in Pool : AllocAgain(t, p)
  BY <1>3, AllocAgainTurn
<1>4. CASE \E p \in Pool : \E b \in out[p] : FreeBlock(t, p, b)
  BY <1>4, FreeTurn
<1>5. CASE AllocWoken(t)
  BY <1>5, AllocWokenTurn
<1>6. CASE PoolDetached(t) \/ \E p \in Pool : PoolDetach(t, p)
  BY <1>6, PoolDetachTurn
<1> QED BY <1>1, <1>2, <1>3, <1>4, <1>5, <1>6 DEF PoolStep

-----------------------------------------------------------------------------
(* Events: a send goes through the threads that wait, and clears flags as it *)
(* goes.  As with _ipc_list_resume_all, the fold is a sequence of states.    *)
ServeInTurn(x, w) == FoldLeft(Serve, x, w)

LEMMA ServeTurns ==
    ASSUME NEW x, NEW w \in Seq(Thread)
    PROVE  \E z : /\ z[0] = x /\ z[Len(w)] = ServeInTurn(x, w)
                  /\ \A i \in 1..Len(w) : z[i] = Serve(z[i - 1], w[i])
<1> DEFINE P(n) == \E g : g = [s \in SUBSET (1..n) |->
                                 IF s = {} THEN x
                                 ELSE Serve(g[s \ {Max(s)}], w[Max(s)])]
           n == Len(w)
           T == {m \in Nat : ~P(m)}
<1>1. P(0)
  <2> DEFINE g == [s \in SUBSET (1..0) |-> x]
  <2>1. 1..0 = {} /\ SUBSET (1..0) = {{}}
    OBVIOUS
  <2>2. g = [s \in SUBSET (1..0) |-> IF s = {} THEN x
                                     ELSE Serve(g[s \ {Max(s)}], w[Max(s)])]
    BY <2>1
  <2> HIDE DEF g
  <2> QED BY <2>2
<1>2. ASSUME NEW m \in Nat, P(m) PROVE P(m + 1)
  <2>1. PICK g : g = [s \in SUBSET (1..m) |-> IF s = {} THEN x
                        ELSE Serve(g[s \ {Max(s)}], w[Max(s)])]
    BY <1>2
  <2>2. \A s \in SUBSET (1..m) : g[s] = IF s = {} THEN x
                        ELSE Serve(g[s \ {Max(s)}], w[Max(s)])
    BY <2>1
  <2> DEFINE h == [s \in SUBSET (1..(m + 1)) |->
                     IF m + 1 \in s THEN Serve(g[s \ {m + 1}], w[m + 1]) ELSE g[s]]
  <2>3. ASSUME NEW s \in SUBSET (1..(m + 1))
        PROVE  h[s] = IF s = {} THEN x ELSE Serve(h[s \ {Max(s)}], w[Max(s)])
    <3>1. CASE m + 1 \in s
      <4>1. Max(s) = m + 1 /\ s # {} /\ s \ {m + 1} \in SUBSET (1..(m + 1)) /\ m + 1 \notin s \ {m + 1}
        BY <3>1, TopIsMax
      <4>2. h[s] = Serve(g[s \ {m + 1}], w[m + 1]) /\ h[s \ {m + 1}] = g[s \ {m + 1}]
        BY <3>1, <4>1
      <4> HIDE DEF h
      <4> QED BY <4>1, <4>2
    <3>2. CASE m + 1 \notin s
      <4>1. s \in SUBSET (1..m) /\ s \ {Max(s)} \in SUBSET (1..(m + 1)) /\ m + 1 \notin s \ {Max(s)}
        <5> HIDE DEF h, P, T
        <5>1. \A e \in 1..(m + 1) : e # m + 1 => e \in 1..m
          OBVIOUS
        <5>2. \A e \in s : e \in 1..m
          BY <5>1, <3>2
        <5> QED BY <5>2, <3>2
      <4>2. h[s] = g[s] /\ h[s \ {Max(s)}] = g[s \ {Max(s)}]
        BY <3>2, <4>1
      <4> HIDE DEF h
      <4> QED BY <4>1, <4>2, <2>2
    <3> QED BY <3>1, <3>2
  <2>4. h = [s \in SUBSET (1..(m + 1)) |-> h[s]]
    OBVIOUS
  <2> HIDE DEF h
  <2>5. h = [s \in SUBSET (1..(m + 1)) |->
               IF s = {} THEN x ELSE Serve(h[s \ {Max(s)}], w[Max(s)])]
    BY <2>3, <2>4
  <2> QED BY <2>5
<1>3. n \in Nat /\ DOMAIN w = 1..n
  OBVIOUS
<1> HIDE DEF P, n
<1>4. T = {}
  <2> SUFFICES ASSUME T # {} PROVE FALSE
    OBVIOUS
  <2>1. PICK m \in T : \A l \in T : m <= l
    <3>1. T \subseteq Nat
      OBVIOUS
    <3> HIDE DEF T
    <3> QED BY <3>1, Least
  <2>2. m \in Nat /\ ~P(m)
    OBVIOUS
  <2>3. m # 0
    BY <2>2, <1>1
  <2>4. m - 1 \in Nat /\ m - 1 \notin T
    <3>1. m - 1 \in Nat /\ ~(m <= m - 1)
      BY <2>2, <2>3
    <3> HIDE DEF T
    <3> QED BY <2>1, <3>1
  <2>5. P(m - 1)
    BY <2>4
  <2>6. P((m - 1) + 1) /\ (m - 1) + 1 = m
    BY <2>4, <2>5, <1>2
  <2> QED BY <2>2, <2>6
<1>5. P(n)
  BY <1>3, <1>4
<1> DEFINE Rec(g) == g = [s \in SUBSET (1..n) |->
                            IF s = {} THEN x ELSE Serve(g[s \ {Max(s)}], w[Max(s)])]
           g == CHOOSE f : Rec(f)
<1>6. Rec(g)
  BY <1>5 DEF P
<1>7. ServeInTurn(x, w) = g[1..n]
  <2>1. FoldLeft(Serve, x, w) =
             LET iter[s \in SUBSET (DOMAIN w)] ==
                   IF s = {} THEN x ELSE Serve(iter[s \ {Max(s)}], w[Max(s)])
             IN iter[DOMAIN w]
    <3> HIDE DEF Serve
    <3> QED BY DEF FoldLeft, MapThenFoldSet
  <2> QED BY <2>1, <1>3 DEF ServeInTurn
<1>8. \A s \in SUBSET (1..n) : g[s] = IF s = {} THEN x
                                      ELSE Serve(g[s \ {Max(s)}], w[Max(s)])
  <2> HIDE DEF g
  <2> QED BY <1>6
<1> HIDE DEF g
<1> DEFINE z == [i \in 0..n |-> g[1..i]]
<1>9. z[0] = x
  <2>1. 0 \in 0..n /\ 1..0 = {} /\ {} \in SUBSET (1..n)
    BY <1>3
  <2> QED BY <2>1, <1>8
<1>10. z[n] = ServeInTurn(x, w)
  BY <1>3, <1>7
<1>11. ASSUME NEW i \in 1..n PROVE z[i] = Serve(z[i - 1], w[i])
  <2>1. i \in Nat /\ i \in 0..n /\ i - 1 \in 0..n
    BY <1>3
  <2>2. (1..i) \in SUBSET (1..n) /\ i \in 1..i /\ 1..i # {} /\ (1..i) \ {i} = 1..(i - 1)
    BY <1>3
  <2>3. Max(1..i) = i
    BY <2>1, <2>2, TopIsMax
  <2>4. g[1..i] = Serve(g[1..(i - 1)], w[i])
    BY <2>2, <2>3, <1>8
  <2> QED BY <2>1, <2>4
<1> HIDE DEF z
<1> QED BY <1>9, <1>10, <1>11 DEF n

(* Flags that are cleared meet nobody's wish. *)
LEMMA MetWithMore ==
    ASSUME NEW w, NEW fs, NEW gs, fs \subseteq gs, Met(w, fs)
    PROVE  Met(w, gs)
<1>1. CASE w.all
  BY <1>1 DEF Met
<1>2. CASE ~w.all
  BY <1>2 DEF Met
<1> QED BY <1>1, <1>2

(* The send has come past the threads in U, of which it has served J. *)
Walked(y, x, e, U, J, b) ==
    /\ Wakes(y.k, k, J, b) /\ J \subseteq U /\ \A u \in J : Ready(y.k, u)
    /\ y.flags \in SUBSET Bit /\ y.flags \subseteq x.flags
    /\ y.want \in [Thread -> Wish]
    /\ \A u \in Thread \ J : y.want[u] = want[u]
    /\ \A u \in U \ J : ~Met(want[u], y.flags)

LEMMA ServedTurn ==
    ASSUME ObjCallInv, Patient, NEW e \in Event, NEW x, NEW y, NEW U, NEW J, NEW b, Walked(y, x, e, U, J, b),
           U \subseteq Elems(k.wait[e]), NEW h \in Elems(k.wait[e]), h \notin U
    PROVE  Walked(Serve(y, h), x, e, U \cup {h}, IF Met(want[h], y.flags) THEN J \cup {h} ELSE J, b)
<1>1. /\ h \in Thread /\ h \notin J /\ k.stat[h] = "suspend" /\ k.err[h] = "ok" /\ y.want[h] = want[h]
  <2>1. e \in Obj
    BY ObjectListsApart
  <2>2. h \in Thread /\ k.stat[h] = "suspend" /\ k.err[h] = "ok"
    BY <2>1, WaiterFits
  <2> QED BY <2>2 DEF Walked
<1>2. /\ Wakes(y.k, k, J, b) /\ J \subseteq U /\ \A u \in J : Ready(y.k, u)
  BY DEF Walked
<1>3. /\ y.flags \in SUBSET Bit /\ y.flags \subseteq x.flags /\ y.want \in [Thread -> Wish]
      /\ \A u \in Thread \ J : y.want[u] = want[u]
      /\ \A u \in U \ J : ~Met(want[u], y.flags)
  BY DEF Walked
<1>4. CASE ~Met(want[h], y.flags)
  <2>1. Serve(y, h) = y
    BY <1>1, <1>4 DEF Serve
  <2>2. Walked(y, x, e, U \cup {h}, J, b)
    BY <1>2, <1>3, <1>4 DEF Walked
  <2> QED BY <1>4, <2>1, <2>2
<1>5. CASE Met(want[h], y.flags)
  <2>1. PICK got : got = want[h].set \cap y.flags
    OBVIOUS
  <2>2. PICK r : r = Serve(y, h)
    OBVIOUS
  <2>3. /\ r.k = Resume(y.k, h)
        /\ r.flags = IF want[h].clear THEN y.flags \ got ELSE y.flags
        /\ r.want = [y.want EXCEPT ![h].set = got]
    BY <1>1, <1>5, <2>1, <2>2 DEF Serve
  <2>4. /\ Fit(y.k, b) /\ y.k.stat[h] = "suspend" /\ y.k.err[h] = "ok"
    BY <1>1, <1>2 DEF Wakes, Attended, Handled, Undisturbed
  <2>5. WokenIn(r.k, y.k, h, "ok", b)
    BY <1>1, <2>3, <2>4, ResumeServes
  <2>6. Wakes(r.k, k, J \cup {h}, b)
    <3>1. Wakes(r.k, y.k, {h}, b)
      BY <1>1, <2>4, <2>5, OneWakes
    <3> QED BY <1>2, <3>1, WakesTwice
  <2>7. \A u \in J \cup {h} : Ready(r.k, u)
    <3>1. Ready(r.k, h)
      BY <2>5 DEF WokenIn, Ready
    <3>2. ASSUME NEW u \in J PROVE Ready(r.k, u)
      <4>1. u # h /\ u \in Thread /\ Ready(y.k, u)
        <5>1. e \in Obj
          BY ObjectListsApart
        <5>2. u \in Elems(k.wait[e])
          BY <1>2
        <5> QED BY <1>1, <1>2, <5>1, <5>2, WaiterFits
      <4>2. Undisturbed(r.k, y.k, u)
        BY <2>5, <4>1 DEF WokenIn, Attended, Handled
      <4> QED BY <4>1, <4>2 DEF Ready, Undisturbed
    <3> QED BY <3>1, <3>2
  <2>8. r.flags \in SUBSET Bit /\ r.flags \subseteq y.flags
    BY <1>3, <2>3
  <2>9. r.want \in [Thread -> Wish] /\ \A u \in Thread \ {h} : r.want[u] = y.want[u]
    <3>1. got \in SUBSET Bit
      BY <1>3, <2>1
    <3>2. [y.want[h] EXCEPT !.set = got] \in Wish
      BY <1>1, <1>3, <3>1 DEF Wish
    <3> QED BY <1>1, <1>3, <2>3, <3>2
  <2>10. \A u \in (U \cup {h}) \ (J \cup {h}) : ~Met(want[u], r.flags)
    BY <1>3, <2>8, MetWithMore
  <2>11. Walked(r, x, e, U \cup {h}, J \cup {h}, b)
    BY <1>2, <1>3, <2>6, <2>7, <2>8, <2>9, <2>10 DEF Walked
  <2> QED BY <1>5, <2>2, <2>11
<1> QED BY <1>4, <1>5

(* The flags that are gone are with those of J who asked for them to be      *)
(* cleared, and with nobody whom the send served later.                      *)
Parted(y, x, e, J) ==
    /\ \A f \in x.flags \ y.flags : \E u \in J : want[u].clear /\ f \in y.want[u].set
    /\ \A i, j \in DOMAIN k.wait[e] :
          (i < j /\ k.wait[e][i] \in J /\ k.wait[e][j] \in J /\ want[k.wait[e][i]].clear)
             => y.want[k.wait[e][i]].set \cap y.want[k.wait[e][j]].set = {}
    /\ \A u \in J : want[u].clear => y.want[u].set \cap y.flags = {}
    /\ Elems(k.wait[e]) \ J \subseteq Elems(y.k.wait[e])

LEMMA ServedParts ==
    ASSUME ObjCallInv, Patient, NEW e \in Event, NEW x, NEW y, NEW U, NEW J, NEW b, Walked(y, x, e, U, J, b),
           Parted(y, x, e, J), U \subseteq Elems(k.wait[e]), NEW m \in DOMAIN k.wait[e],
           NEW h, h = k.wait[e][m], h \notin U, IsOnce(k.wait[e]),
           \A j \in DOMAIN k.wait[e] : k.wait[e][j] \in U => j < m
    PROVE  \E I : Walked(Serve(y, h), x, e, U \cup {h}, I, b) /\ Parted(Serve(y, h), x, e, I)
<1>1. h \in Elems(k.wait[e]) /\ h \in Thread /\ k.stat[h] = "suspend" /\ k.err[h] = "ok"
  <2>1. e \in Obj /\ h \in Elems(k.wait[e])
    BY ObjectListsApart DEF Elems
  <2> QED BY <2>1, WaiterFits
<1>2. Walked(Serve(y, h), x, e, U \cup {h}, IF Met(want[h], y.flags) THEN J \cup {h} ELSE J, b)
  BY <1>1, ServedTurn
<1>3. CASE ~Met(want[h], y.flags)
  <2>1. y.want[h] = want[h]
    BY <1>1 DEF Walked
  <2>2. Serve(y, h) = y
    BY <1>3, <2>1 DEF Serve
  <2> QED BY <1>2, <1>3, <2>2
<1>4. CASE Met(want[h], y.flags)
  <2>1. y.want[h] = want[h] /\ J \subseteq U /\ y.want \in [Thread -> Wish]
    BY <1>1 DEF Walked
  <2>2. PICK got : got = want[h].set \cap y.flags
    OBVIOUS
  <2>3. PICK r : r = Serve(y, h)
    OBVIOUS
  <2>4. /\ r.k = Resume(y.k, h)
        /\ r.flags = IF want[h].clear THEN y.flags \ got ELSE y.flags
        /\ r.want = [y.want EXCEPT ![h].set = got]
    BY <1>4, <2>1, <2>2, <2>3 DEF Serve
  <2>5. /\ r.want[h].set = got /\ \A u \in J : u # h /\ r.want[u] = y.want[u]
    <3>1. [y.want[h] EXCEPT !.set = got].set = got
      BY <1>1, <2>1 DEF Wish
    <3>2. \A u \in J : u \in Thread
      <4>1. e \in Obj
        BY ObjectListsApart
      <4> QED BY <2>1, <4>1, WaiterFits
    <3> QED BY <1>1, <2>1, <2>4, <3>1, <3>2
  <2>6. /\ \A f \in x.flags \ y.flags : \E u \in J : want[u].clear /\ f \in y.want[u].set
        /\ \A i, j \in DOMAIN k.wait[e] :
              (i < j /\ k.wait[e][i] \in J /\ k.wait[e][j] \in J /\ want[k.wait[e][i]].clear)
                 => y.want[k.wait[e][i]].set \cap y.want[k.wait[e][j]].set = {}
        /\ \A u \in J : want[u].clear => y.want[u].set \cap y.flags = {}
        /\ Elems(k.wait[e]) \ J \subseteq Elems(y.k.wait[e])
    BY DEF Parted
  <2>7. ASSUME NEW f \in x.flags \ r.flags
        PROVE  \E u \in J \cup {h} : want[u].clear /\ f \in r.want[u].set
    <3>1. CASE f \in y.flags
      BY <2>4, <2>5, <3>1
    <3>2. CASE f \notin y.flags
      <4>1. PICK u \in J : want[u].clear /\ f \in y.want[u].set
        BY <2>6, <3>2
      <4> QED BY <2>5, <4>1
    <3> QED BY <3>1, <3>2
  <2>8. ASSUME NEW i \in DOMAIN k.wait[e], NEW j \in DOMAIN k.wait[e], i < j,
               k.wait[e][i] \in J \cup {h}, k.wait[e][j] \in J \cup {h}, want[k.wait[e][i]].clear
        PROVE  r.want[k.wait[e][i]].set \cap r.want[k.wait[e][j]].set = {}
    <3>1. i \in Nat /\ j \in Nat /\ m \in Nat
      <4>1. e \in Obj /\ k \in Kernel
        BY ObjectListsApart, NowWaiting DEF ObjCallInv
      <4>2. k.wait[e] \in Seq(Thread)
        BY <4>1 DEF Kernel
      <4> QED BY <4>2
    <3>2. k.wait[e][i] # h
      <4> SUFFICES ASSUME k.wait[e][i] = h PROVE FALSE
        OBVIOUS
      <4>1. i = m
        BY DEF IsOnce
      <4>2. k.wait[e][j] # h
        BY <2>8, <3>1, <4>1 DEF IsOnce
      <4>3. j < m
        BY <2>1, <2>8, <4>2
      <4> QED BY <2>8, <3>1, <4>1, <4>3
    <3>3. k.wait[e][i] \in J
      BY <2>8, <3>2
    <3>4. CASE k.wait[e][j] = h
      <4>1. y.want[k.wait[e][i]].set \cap y.flags = {}
        BY <2>6, <2>8, <3>3
      <4> QED BY <2>2, <2>5, <3>3, <3>4, <4>1
    <3>5. CASE k.wait[e][j] # h
      <4>1. k.wait[e][j] \in J
        BY <2>8, <3>5
      <4>2. y.want[k.wait[e][i]].set \cap y.want[k.wait[e][j]].set = {}
        BY <2>6, <2>8, <3>3, <4>1
      <4> QED BY <2>5, <3>3, <4>1, <4>2
    <3> QED BY <3>4, <3>5
  <2>9. ASSUME NEW u \in J \cup {h}, want[u].clear PROVE r.want[u].set \cap r.flags = {}
    <3>1. CASE u = h
      BY <2>4, <2>5, <2>9, <3>1
    <3>2. CASE u # h
      BY <2>4, <2>5, <2>6, <2>9, <3>2
    <3> QED BY <3>1, <3>2
  <2>10. Elems(k.wait[e]) \ (J \cup {h}) \subseteq Elems(r.k.wait[e])
    <3>1. Fit(y.k, b) /\ y.k.stat[h] = "suspend" /\ y.k.err[h] = "ok" /\ e \in Obj
      BY <1>1, ObjectListsApart DEF Walked, Wakes, Attended, Handled, Undisturbed
    <3>2. r.k.wait = WaitsWithout(y.k, h)
      <4>1. WokenIn(Resume(y.k, h), y.k, h, y.k.err[h], b)
        BY <1>1, <3>1, ResumeServes
      <4> QED BY <2>4, <4>1 DEF WokenIn
    <3>3. Elems(r.k.wait[e]) = Elems(y.k.wait[e]) \ {h}
      <4>1. y.k \in Kernel /\ \A o \in Obj : IsOnce(y.k.wait[o])
        BY <3>1 DEF Fit, Sound, SoundBut, Waits
      <4> QED BY <1>1, <3>1, <3>2, <4>1, WaitsLess
    <3> QED BY <2>6, <3>3
  <2>11. Parted(r, x, e, J \cup {h})
    BY <2>7, <2>8, <2>9, <2>10 DEF Parted
  <2> QED BY <1>2, <1>4, <2>3, <2>11
<1> QED BY <1>3, <1>4

(* In the end it has come past all. *)
LEMMA WalkEnds ==
    ASSUME ObjCallInv, Patient, EventSafe, NEW e \in Event, NEW set \in SUBSET Bit, NEW b, Fit(k, b)
    PROVE  LET x == [k |-> k, flags |-> flags[e] \cup set, want |-> want]
           IN  \E J : /\ Walked(Walk(e, set), x, e, Elems(k.wait[e]), J, b)
                      /\ Parted(Walk(e, set), x, e, J)
<1> DEFINE x == [k |-> k, flags |-> flags[e] \cup set, want |-> want]
           w == k.wait[e]
<1>1. e \in Obj /\ w \in Seq(Thread) /\ IsOnce(w)
  <2>1. e \in Obj /\ k \in Kernel
    BY ObjectListsApart, NowWaiting DEF ObjCallInv
  <2> QED BY <2>1 DEF Fit, Sound, SoundBut, Waits, Kernel
<1>2. Walk(e, set) = ServeInTurn(x, w)
  BY DEF Walk, ServeInTurn
<1>3. Walked(x, x, e, {}, {}, b) /\ Parted(x, x, e, {})
  <2>1. Wakes(k, k, {}, b)
    BY NoneWakes
  <2>2. x.k = k /\ x.flags = flags[e] \cup set /\ x.want = want
    OBVIOUS
  <2>3. x.flags \in SUBSET Bit /\ x.want \in [Thread -> Wish]
    BY <2>2 DEF EventSafe
  <2> HIDE DEF x
  <2> QED BY <2>1, <2>2, <2>3 DEF Walked, Parted
<1> HIDE DEF x, w
<1>4. PICK z : /\ z[0] = x /\ z[Len(w)] = ServeInTurn(x, w)
               /\ \A i \in 1..Len(w) : z[i] = Serve(z[i - 1], w[i])
  BY <1>1, ServeTurns
<1>5. PICK n \in Nat : n = Len(w)
  BY <1>1
<1>6. /\ DOMAIN w = 1..n
      /\ \A i, j \in 1..n : w[i] = w[j] => i = j
      /\ \A i \in 1..n : w[i] \in Elems(w)
      /\ \A u \in Elems(w) : \E i \in 1..n : u = w[i]
  BY <1>1, <1>5 DEF IsOnce, Elems
<1> DEFINE Past(i) == {w[j] : j \in 1..i}
           P(i) == i <= n => \E J : Walked(z[i], x, e, Past(i), J, b) /\ Parted(z[i], x, e, J)
           T == {m \in Nat : ~P(m)}
<1>7. P(0)
  <2>1. Past(0) = {}
    OBVIOUS
  <2> HIDE DEF Past
  <2> QED BY <1>3, <1>4, <2>1
<1>8. ASSUME NEW m \in Nat, P(m) PROVE P(m + 1)
  <2> SUFFICES ASSUME m + 1 <= n 
               PROVE  \E J : Walked(z[m + 1], x, e, Past(m + 1), J, b) /\ Parted(z[m + 1], x, e, J)
    OBVIOUS
  <2>1. m <= n /\ m + 1 \in 1..n /\ m = (m + 1) - 1 /\ \A j \in 1..m : j \in 1..n /\ j # m + 1
    BY <1>5
  <2>2. PICK J : Walked(z[m], x, e, Past(m), J, b) /\ Parted(z[m], x, e, J)
    BY <1>8, <2>1
  <2>3. Past(m) \subseteq Elems(w) /\ w[m + 1] \in Elems(w) /\ w[m + 1] \notin Past(m)
    BY <1>6, <2>1
  <2>4. Past(m + 1) = Past(m) \cup {w[m + 1]}
    <3>1. \A j : j \in 1..(m + 1) <=> j \in 1..m \/ j = m + 1
      OBVIOUS
    <3> QED BY <3>1
  <2> HIDE DEF Past
  <2>5. z[m + 1] = Serve(z[m], w[m + 1])
    BY <1>4, <1>5, <2>1
  <2>6. PICK y : y = z[m]
    OBVIOUS
  <2>7. PICK h : h = w[m + 1]
    OBVIOUS
  <2>8. Elems(w) = Elems(k.wait[e])
    BY DEF w
  <2>10. \A j \in DOMAIN k.wait[e] : k.wait[e][j] \in Past(m) => j < m + 1
    <3> SUFFICES ASSUME NEW j \in 1..n, NEW i \in 1..m, w[j] = w[i] PROVE j < m + 1
      BY <1>6 DEF w, Past
    <3>1. j = i
      BY <1>6, <2>1
    <3> QED BY <3>1
  <2>11. /\ m + 1 \in DOMAIN k.wait[e] /\ h = k.wait[e][m + 1] /\ IsOnce(k.wait[e])
         /\ Past(m) \subseteq Elems(k.wait[e]) /\ h \notin Past(m)
         /\ Walked(y, x, e, Past(m), J, b) /\ Parted(y, x, e, J)
    BY <1>1, <1>6, <2>1, <2>2, <2>3, <2>6, <2>7 DEF w
  <2>9. \E I : Walked(Serve(y, h), x, e, Past(m) \cup {h}, I, b) /\ Parted(Serve(y, h), x, e, I)
    BY <2>10, <2>11, ServedParts
  <2> QED BY <2>4, <2>5, <2>6, <2>7, <2>9
<1>9. \A i \in Nat : P(i)
  <2> HIDE DEF P
  <2> SUFFICES ASSUME T # {} PROVE FALSE
    OBVIOUS
  <2>1. PICK m \in T : \A l \in T : m <= l
    <3>1. T \subseteq Nat
      OBVIOUS
    <3> HIDE DEF T
    <3> QED BY <3>1, Least
  <2>2. m \in Nat /\ ~P(m)
    OBVIOUS
  <2>3. m # 0
    BY <2>2, <1>7
  <2>4. m - 1 \in Nat /\ m - 1 \notin T
    <3>1. m - 1 \in Nat /\ ~(m <= m - 1)
      BY <2>2, <2>3
    <3> HIDE DEF T
    <3> QED BY <2>1, <3>1
  <2>5. P((m - 1) + 1) /\ (m - 1) + 1 = m
    BY <2>4, <1>8
  <2> QED BY <2>2, <2>5
<1>10. \E J : Walked(z[n], x, e, Past(n), J, b) /\ Parted(z[n], x, e, J)
  <2>1. n <= n
    OBVIOUS
  <2>2. P(n)
    BY <1>9
  <2> HIDE DEF Past
  <2> QED BY <2>1, <2>2
<1>11. Past(n) = Elems(w)
  BY <1>6
<1> HIDE DEF Past, P, T
<1>12. \E J : Walked(Walk(e, set), x, e, Elems(k.wait[e]), J, b) /\ Parted(Walk(e, set), x, e, J)
  BY <1>2, <1>4, <1>5, <1>10, <1>11 DEF w
<1> QED BY <1>12 DEF x

(* What a step does for those who wait for an event. *)
EventTurn(J, L, X) == Confined(J, L, X, {"event_recv"}, Event) /\ EventSafe'
EventNow == ObjCallInv /\ EventSafe

(* Those who wait still want what they wanted and there are no more flags.   *)
LEMMA EventLess ==
    ASSUME EventNow, Patient, NEW L, \A u \in L : frame[u].call = "event_recv",
           Passes({}, L, {}),
           flags' \in [Event -> SUBSET Bit], want' \in [Thread -> Wish], over \subseteq over',
           \A e \in Event : flags'[e] \subseteq flags[e],
           \A e \in Event : \A u \in Elems(k.wait[e]) : want'[u] = want[u]
    PROVE  EventTurn({}, L, {})
<1>1. ASSUME NEW e \in Event \ over', NEW u \in Thread, Waiting(u, e)'
      PROVE  ~Met(want'[u], flags'[e])
  <2>1. e \in Obj /\ e \notin over
    BY ObjectListsApart
  <2>2. u \in Elems(k.wait[e])
    BY <1>1, <2>1 DEF Passes, Shrinks, Waiting
  <2>3. ~Met(want[u], flags[e])
    BY <2>1, <2>2 DEF EventNow, EventSafe, NoMetWaiter, Waiting
  <2>4. want'[u] = want[u] /\ flags'[e] \subseteq flags[e]
    BY <2>2
  <2> QED BY <2>3, <2>4, MetWithMore
<1>2. EventSafe'
  BY <1>1 DEF EventSafe, NoMetWaiter
<1>3. \A u \in {} \cup L : frame[u].call \in {"event_recv"}
  OBVIOUS
<1> QED BY <1>2, <1>3 DEF EventTurn, Confined

(* A send has gone through the list. *)
LEMMA EventMore ==
    ASSUME EventNow, Patient, NEW e \in Event, NEW x, NEW y, NEW J, NEW b,
           Walked(y, x, e, Elems(k.wait[e]), J, b), Passes(J, {}, {}),
           \A u \in J : u \notin Elems(k'.wait[e]),
           Settle(e, y), over' = over
    PROVE  EventTurn(J, {}, {})
<1>1. /\ J \subseteq Elems(k.wait[e])
      /\ y.flags \in SUBSET Bit /\ y.want \in [Thread -> Wish]
      /\ \A u \in Thread \ J : y.want[u] = want[u]
      /\ \A u \in Elems(k.wait[e]) \ J : ~Met(want[u], y.flags)
  BY DEF Walked
<1>2. /\ flags' \in [Event -> SUBSET Bit] /\ want' = y.want /\ flags'[e] = y.flags
      /\ \A o \in Event \ {e} : flags'[o] = flags[o]
  BY <1>1 DEF Settle, EventNow, EventSafe
<1>3. \A u \in J : u \in Thread /\ frame[u].call = "event_recv" /\ frame[u].obj = e
  <2>1. e \in Obj
    BY ObjectListsApart
  <2> QED BY <1>1, <2>1, WaiterFits, CallOfList DEF EventNow
<1>4. ASSUME NEW o \in Event \ over', NEW u \in Thread, Waiting(u, o)'
      PROVE  ~Met(want'[u], flags'[o])
  <2>1. o \in Obj /\ o \notin over
    BY ObjectListsApart
  <2>2. u \in Elems(k.wait[o])
    BY <1>4, <2>1 DEF Passes, Shrinks, Waiting
  <2>3. u \notin J
    <3>1. CASE o = e
      BY <1>4, <3>1 DEF Waiting
    <3>2. CASE o # e
      BY <1>3, <2>1, <2>2, <3>2, WaiterFits DEF EventNow
    <3> QED BY <3>1, <3>2
  <2>4. want'[u] = want[u]
    BY <1>1, <1>2, <2>3
  <2>5. CASE o = e
    BY <1>1, <1>2, <2>2, <2>3, <2>4, <2>5
  <2>6. CASE o # e
    BY <1>2, <2>1, <2>2, <2>4, <2>6 DEF EventNow, EventSafe, NoMetWaiter, Waiting
  <2> QED BY <2>5, <2>6
<1>5. EventSafe'
  BY <1>1, <1>2, <1>4 DEF EventSafe, NoMetWaiter
<1>6. \A u \in J \cup {} : frame[u].call \in {"event_recv"}
  BY <1>3
<1> QED BY <1>5, <1>6 DEF EventTurn, Confined

(* rt_event_send. *)
LEMMA SendTurn ==
    ASSUME EventNow, Patient, NEW t \in Thread, NEW e \in Event, NEW set \in Sent, EventSend(t, e, set)
    PROVE  \E J : EventTurn(J, {}, {})
<1> DEFINE b == Base(k, isr)
           x == [k |-> k, flags |-> flags[e] \cup set, want |-> want]
<1>1. e \in Obj /\ Fit(k, b) /\ set \in SUBSET Bit
  BY ObjectListsApart, NowWaiting, EventAssumption DEF EventNow, ObjCallInv
<1>2. PICK y : y = Walk(e, set)
  OBVIOUS
<1>3. /\ Asks(t, "event_send") /\ k' = y.k /\ Settle(e, y) /\ over' = over
      /\ UNCHANGED <<cpu, arg, isr, prog, waitVars>>
  BY <1>2 DEF EventSend
<1>4. PICK w \in {"user", "sched"} : Goto(t, w) \/ (w = "user" /\ pc' = pc)
  <2>1. CASE y.k # k
    BY <1>2, <2>1 DEF EventSend
  <2>2. CASE y.k = k
    BY <1>2, <2>2 DEF EventSend
  <2> QED BY <2>1, <2>2
<1> HIDE DEF b
<1>5. PICK J : Walked(y, x, e, Elems(k.wait[e]), J, b)
  BY <1>1, <1>2, WalkEnds DEF EventNow
<1> HIDE DEF x
<1>6. /\ Lent(k', k) /\ Quits(k', k, J, b) /\ J \subseteq Elems(k.wait[e]) /\ \A u \in J : Ready(k', u)
      /\ \A u \in J : u \notin Elems(k'.wait[e])
  <2>1. Wakes(k', k, J, b)
    BY <1>3, <1>5 DEF Walked
  <2> QED BY <1>1, <1>3, <1>5, <2>1, WakesQuits DEF Walked, Wakes
<1>7. /\ At(t, "user") /\ pc[t] = "user" /\ "user" \in InCall \cup {"user"} /\ "user" # "wait_sched"
      /\ CallerMove(t, w) /\ FitsObj(pc', frame', t) /\ Same(t)
  BY <1>3, <1>4, Asker, AskMove DEF EventNow
<1>8. /\ \A u \in J : \E o \in Obj : u \in Elems(k.wait[o])
      /\ t \notin J
  <2>1. \A u \in J : pc[u] \in {"wait_sched", "woken"}
    BY <1>1, <1>6, WaiterFits DEF EventNow
  <2> QED BY <1>1, <1>6, <1>7, <2>1
<1> DEFINE L == {}
<1>9. Parts(t, L)
  BY <1>7 DEF Parts
<1> HIDE DEF L
<1>10. /\ J \in SUBSET (J \ {t}) /\ \A u \in J \ (J \cup {t}) : ~Ready(k', u)
  BY <1>8
<1>11. Quits(k', k, J, Base(k, isr))
  BY <1>6 DEF b
<1>12. Passes(J, L, {})
  BY <1>6, <1>7, <1>8, <1>9, <1>10, <1>11, PassStep DEF EventNow
<1>13. Passes(J, {}, {})
  BY <1>12 DEF L
<1> QED BY <1>3, <1>5, <1>6, <1>13, EventMore

LEMMA DeviceEventTurn ==
    ASSUME EventNow, Patient, NEW e \in Event, NEW set \in Sent, DeviceEventSend(e, set)
    PROVE  \E J : EventTurn(J, {}, {})
<1> DEFINE b == Base(k, isr)
           x == [k |-> k, flags |-> flags[e] \cup set, want |-> want]
<1>1. e \in Obj /\ Fit(k, b) /\ set \in SUBSET Bit
  BY ObjectListsApart, NowWaiting, EventAssumption DEF EventNow, ObjCallInv
<1>2. PICK y : y = Walk(e, set)
  OBVIOUS
<1>3. /\ k' = (IF y.k # k THEN Schedule(y.k) ELSE k) /\ Settle(e, y) /\ over' = over
      /\ UNCHANGED <<cpu, pc, arg, isr, prog, waitVars>>
  BY <1>2 DEF DeviceEventSend
<1> HIDE DEF b
<1>4. PICK J : Walked(y, x, e, Elems(k.wait[e]), J, b)
  BY <1>1, <1>2, WalkEnds DEF EventNow
<1> HIDE DEF x
<1>5. /\ Wakes(y.k, k, J, b) /\ J \subseteq Elems(k.wait[e]) /\ \A u \in J : Ready(y.k, u)
      /\ \A u \in J : u \notin Elems(y.k.wait[e])
  BY <1>1, <1>4 DEF Walked, Wakes
<1>6. CASE y.k = k
  <2>1. J = {}
    BY <1>1, <1>5, <1>6, WaiterFits DEF EventNow
  <2>2. k' = k
    BY <1>3, <1>6
  <2>3. Passes({}, {}, {})
    BY <1>3, <2>2, StillPass DEF EventNow
  <2>4. Passes(J, {}, {}) /\ \A u \in J : u \notin Elems(k'.wait[e])
    BY <2>1, <2>3
  <2> QED BY <1>3, <1>4, <2>4, EventMore
<1>7. CASE y.k # k
  <2>1. k' = Schedule(y.k)
    BY <1>3, <1>7
  <2>2. \A u \in J : \E o \in Obj : u \in Elems(k.wait[o])
    BY <1>1, <1>5
  <2>3. J \in SUBSET J /\ \A u \in J \ J : ~Ready(y.k, u)
    OBVIOUS
  <2>4. Wakes(y.k, k, J, Base(k, isr))
    BY <1>5 DEF b
  <2>5. Passes(J, {}, {})
    BY <1>3, <1>5, <2>1, <2>2, <2>3, <2>4, HandlerPass DEF EventNow
  <2>6. k'.wait = y.k.wait
    <3>1. Fit(y.k, b)
      BY <1>5 DEF Wakes
    <3> QED BY <2>1, <3>1, ScheduleServes
  <2> QED BY <1>3, <1>4, <1>5, <2>5, <2>6, EventMore
<1> QED BY <1>6, <1>7

(* A thread in its own code waits for nothing. *)
LEMMA AskerWaitsNot ==
    ASSUME EventNow, Patient, NEW t \in Thread, pc[t] = "user", NEW e \in Event
    PROVE  t \notin Elems(k.wait[e])
<1>1. e \in Obj
  BY ObjectListsApart
<1> QED BY <1>1, WaiterFits DEF EventNow

LEMMA WantsAreWishes ==
    ASSUME NEW t \in Thread, NEW w \in Wants[t]
    PROVE  w \in Wish
BY EventAssumption DEF Want, Wish

(* rt_event_recv that does not wait. *)
LEMMA RecvNowTurn ==
    ASSUME EventNow, Patient, NEW t \in Thread, NEW e \in Event, NEW w \in Wants[t],
           EventRecvNow(t, e, w) \/ EventRecvRefused(t, e, w)
    PROVE  EventTurn({}, {}, {})
<1>1. /\ Asks(t, "event_recv") /\ Plain(t) /\ over \subseteq over'
      /\ UNCHANGED <<cpu, pc, arg, isr, prog, waitVars>>
  BY DEF EventRecvNow, EventRecvRefused, Plain, ErrorSet, Err, eventVars
<1>2. pc[t] = "user"
  BY <1>1, Asker DEF EventNow
<1> DEFINE L == {}
<1>3. Passes({}, L, {}) /\ \A u \in L : frame[u].call = "event_recv"
  BY <1>1, PlainCall DEF EventNow
<1> HIDE DEF L
<1>4. /\ flags' \in [Event -> SUBSET Bit] /\ want' \in [Thread -> Wish]
      /\ \A o \in Event : flags'[o] \subseteq flags[o]
      /\ \A u \in Thread \ {t} : want'[u] = want[u]
  <2>1. flags \in [Event -> SUBSET Bit] /\ want \in [Thread -> Wish] /\ w \in Wish
    BY WantsAreWishes DEF EventNow, EventSafe
  <2>2. CASE EventRecvNow(t, e, w)
    <3>1. PICK v : v = [w EXCEPT !.set = @ \cap flags[e]]
      OBVIOUS
    <3>2. v \in Wish
      BY <2>1, <3>1 DEF Wish
    <3>3. PICK fs : fs = IF w.clear THEN flags[e] \ w.set ELSE flags[e]
      OBVIOUS
    <3>4. fs \in SUBSET Bit /\ fs \subseteq flags[e]
      BY <2>1, <3>3
    <3>5. want' = [want EXCEPT ![t] = v] /\ flags' = [flags EXCEPT ![e] = fs]
      BY <2>2, <3>1, <3>3 DEF EventRecvNow
    <3> QED BY <2>1, <3>2, <3>4, <3>5
  <2>3. CASE EventRecvRefused(t, e, w)
    BY <2>1, <2>3 DEF EventRecvRefused, eventVars
  <2> QED BY <2>2, <2>3
<1>5. \A o \in Event : \A u \in Elems(k.wait[o]) : want'[u] = want[u]
  <2>1. ASSUME NEW o \in Event, NEW u \in Elems(k.wait[o]) PROVE u \in Thread \ {t}
    <3>1. o \in Obj
      BY ObjectListsApart
    <3> QED BY <1>2, <3>1, WaiterFits DEF EventNow
  <2> QED BY <1>4, <2>1
<1>6. EventTurn({}, L, {})
  BY <1>1, <1>3, <1>4, <1>5, EventLess
<1> QED BY <1>6 DEF L

(* rt_event_recv that waits for flags that are not there. *)
LEMMA RecvWaitTurn ==
    ASSUME EventNow, Patient, NEW t \in Thread, NEW e \in Event, NEW w \in Wants[t],
           NEW n \in app.timeouts[t], EventRecvWait(t, e, w, n)
    PROVE  EventTurn({}, {}, {e})
<1>1. /\ Asks(t, "event_recv") /\ ~Met(w, flags[e]) /\ want' = [want EXCEPT ![t] = w]
      /\ k' = Block(k, t, e, n) /\ Enter(t, "event_recv", e, n, NoCall.msg) /\ Goto(t, "wait_sched")
      /\ UNCHANGED <<cpu, arg, isr, prog, app>> /\ flags' = flags /\ over' = over
  BY DEF EventRecvWait
<1>2. /\ At(t, "user") /\ pc[t] = "user" /\ t # Idle /\ Leaving(t) = {} /\ n \in Times \cup {Forever}
      /\ "user" \in {"user", "woken", "between"} /\ e \in Obj /\ CallFits("event_recv", e)
  BY <1>1, Asker, TimesGiven, ObjectListsApart DEF EventNow, CallFits
<1>3. PICK v \in Msg : v = NoCall.msg
  BY NoCallFramed
<1>4. SameButPrio(k, k) /\ Lent(k, k)
  <2>1. Fit(k, Base(k, isr)) /\ Base(k, isr) = k.tick
    BY <1>1, <1>2, NowWaiting, CallerRuns DEF EventNow, ObjCallInv, Base, About
  <2> QED BY <2>1, SameIsButPrio DEF Lent
<1>5. Passes({}, Leaving(t), {e}) /\ Elems(k'.wait[e]) = Elems(k.wait[e]) \cup {t}
  BY <1>1, <1>2, <1>3, <1>4, BlockPass DEF EventNow
<1>6. want' \in [Thread -> Wish] /\ want'[t] = w /\ \A u \in Thread \ {t} : want'[u] = want[u]
  BY <1>1, WantsAreWishes DEF EventNow, EventSafe
<1>7. ASSUME NEW o \in Event \ over', NEW u \in Thread, Waiting(u, o)'
      PROVE  ~Met(want'[u], flags'[o])
  <2>1. o \in Obj /\ o \notin over
    BY <1>1, ObjectListsApart
  <2>2. CASE o = e /\ u = t
    BY <1>1, <1>6, <2>2
  <2>3. CASE ~(o = e /\ u = t)
    <3>1. u \in Elems(k.wait[o])
      BY <1>5, <1>7, <2>1, <2>3 DEF Passes, Shrinks, Waiting
    <3>2. u # t
      BY <1>2, <3>1, AskerWaitsNot
    <3>3. want'[u] = want[u] /\ flags' = flags
      BY <1>1, <1>6, <3>2
    <3> QED BY <2>1, <3>1, <3>3 DEF EventNow, EventSafe, NoMetWaiter, Waiting
  <2> QED BY <2>2, <2>3
<1>8. EventSafe'
  BY <1>1, <1>6, <1>7 DEF EventNow, EventSafe, NoMetWaiter
<1>9. Passes({}, {}, {e})
  BY <1>2, <1>5
<1> QED BY <1>8, <1>9 DEF EventTurn, Confined

(* The flags have been given: it returns. *)
LEMMA ReceivedTurn ==
    ASSUME EventNow, Patient, NEW t \in Thread, EventReceived(t)
    PROVE  EventTurn({}, Leaving(t), {})
<1>1. /\ Woken(t, "event_recv") /\ Leave(t) /\ Goto(t, "user")
      /\ UNCHANGED <<k, cpu, arg, isr, prog, app>> /\ UNCHANGED eventVars
  BY DEF EventReceived
<1>2. At(t, "woken") /\ frame[t].call = "event_recv" /\ "woken" \in InCall \cup {"user"}
      /\ "woken" # "wait_sched" /\ Plain(t)
  BY <1>1 DEF Woken, InCall, Plain
<1>3. Passes({}, Leaving(t), {}) /\ \A u \in Leaving(t) : frame[u].call = "event_recv"
  BY <1>1, <1>2, LeaveCall DEF EventNow, Leaving
<1>4. /\ flags' \in [Event -> SUBSET Bit] /\ want' \in [Thread -> Wish] /\ over \subseteq over'
      /\ \A e \in Event : flags'[e] \subseteq flags[e]
      /\ \A e \in Event : \A u \in Elems(k.wait[e]) : want'[u] = want[u]
  BY <1>1 DEF eventVars, EventNow, EventSafe
<1> QED BY <1>3, <1>4, EventLess

(* A reset or the begin or end of a detach. *)
LEMMA EventEndTurn ==
    ASSUME EventNow, Patient, NEW t \in Thread,
           EventDetached(t) \/ \E e \in Event : EventReset(t, e) \/ EventDetach(t, e)
    PROVE  EventTurn({}, {}, {})
<1> DEFINE L == {}
<1>1. flags \in [Event -> SUBSET Bit] /\ want \in [Thread -> Wish]
  BY DEF EventNow, EventSafe
<1>2. /\ Passes({}, {}, {}) /\ over \subseteq over' /\ want' = want
      /\ flags' \in [Event -> SUBSET Bit] /\ \A e \in Event : flags'[e] \subseteq flags[e]
  <2>1. "event_detach" \notin Waiters /\ "event_detach" # "none"
    BY DEF Waiters
  <2>2. CASE EventDetached(t)
    <3>1. /\ AllWoken(t, "event_detach") /\ Leave(t) /\ UNCHANGED <<k, cpu, arg, isr, prog, app>>
          /\ UNCHANGED eventVars
      BY <2>2 DEF EventDetached
    <3>2. PICK w \in {"user", "sched"} : Goto(t, w)
      BY <2>2 DEF EventDetached
    <3>3. Passes({}, {}, {})
      BY <2>1, <3>1, <3>2, DetachEnds DEF EventNow
    <3> QED BY <1>1, <3>1, <3>3 DEF eventVars
  <2>3. ASSUME NEW e \in Event, EventReset(t, e)
        PROVE  /\ Passes({}, {}, {}) /\ over \subseteq over' /\ want' = want
               /\ flags' \in [Event -> SUBSET Bit] /\ \A o \in Event : flags'[o] \subseteq flags[o]
    <3>1. /\ Asks(t, "event_reset") /\ k' = WakeAll(k, e) /\ Goto(t, "sched")
          /\ UNCHANGED <<cpu, arg, isr, prog, waitVars>> /\ want' = want /\ over' = over
          /\ flags' = [flags EXCEPT ![e] = {}]
      BY <2>3 DEF EventReset
    <3>2. e \in Obj
      BY ObjectListsApart
    <3>3. Passes({}, {}, {})
      BY <3>1, <3>2, WakeAllPass DEF EventNow
    <3> QED BY <1>1, <3>1, <3>3
  <2>4. ASSUME NEW e \in Event, EventDetach(t, e)
        PROVE  /\ Passes({}, {}, {}) /\ over \subseteq over' /\ want' = want
               /\ flags' \in [Event -> SUBSET Bit] /\ \A o \in Event : flags'[o] \subseteq flags[o]
    <3>1. /\ Asks(t, "event_detach") /\ Enter(t, "event_detach", e, NoTime, NoCall.msg)
          /\ Goto(t, "wake_test") /\ UNCHANGED <<k, cpu, arg, isr, prog, app>>
          /\ flags' = flags /\ want' = want /\ over \subseteq over'
      BY <2>4 DEF EventDetach
    <3>2. e \in Obj
      BY ObjectListsApart
    <3>3. Passes({}, {}, {})
      BY <2>1, <3>1, <3>2, DetachBegins DEF EventNow
    <3> QED BY <1>1, <3>1, <3>3
  <2> QED BY <2>2, <2>3, <2>4
<1>3. want' \in [Thread -> Wish] /\ \A e \in Event : \A u \in Elems(k.wait[e]) : want'[u] = want[u]
  BY <1>1, <1>2
<1>4. Passes({}, L, {}) /\ \A u \in L : frame[u].call = "event_recv"
  BY <1>2
<1> HIDE DEF L
<1>5. EventTurn({}, L, {})
  BY <1>2, <1>3, <1>4, EventLess
<1> QED BY <1>5 DEF L

LEMMA EventTurns ==
    ASSUME EventNow, Patient, NEW t \in Thread, EventStep(t)
    PROVE  \E J, L, X : EventTurn(J, L, X)
<1>1. CASE \E e \in Event : \E set \in Sent : EventSend(t, e, set)
  BY <1>1, SendTurn
<1>2. CASE \E e \in Event : \E w \in Wants[t] : EventRecvNow(t, e, w) \/ EventRecvRefused(t, e, w)
  BY <1>2, RecvNowTurn
<1>3. CASE \E e \in Event : \E w \in Wants[t] : \E n \in app.timeouts[t] : EventRecvWait(t, e, w, n)
  BY <1>3, RecvWaitTurn
<1>4. CASE EventReceived(t)
  BY <1>4, ReceivedTurn
<1>5. CASE EventDetached(t) \/ \E e \in Event : EventReset(t, e) \/ EventDetach(t, e)
  BY <1>5, EventEndTurn
<1> QED BY <1>1, <1>2, <1>3, <1>4, <1>5 DEF EventStep

-----------------------------------------------------------------------------
(* To whom the flags of an event go.                                         *)
FlagsApart(e) ==
    \A i, j \in DOMAIN k.wait[e] :
        LET t == k.wait[e][i]
            u == k.wait[e][j]
        IN  (i < j /\ {t, u} \subseteq Served(e) /\ want[t].clear)
               => want'[t].set \cap want'[u].set = {}

LeavesTo(e) ==
    \/ \E t \in Thread : EventReset(t, e) \/ \E w \in Wants[t] : EventRecvNow(t, e, w)
    \/ flags[e] \ flags'[e] \subseteq UNION {want'[t].set : t \in {u \in Served(e) : want[u].clear}}

(* Those who wait change nothing of their calls. *)
Sleeper(u) == \E o \in Obj : u \in Elems(k.wait[o])
OwnFrame(t) == /\ \E c \in {"user", "woken", "between", "wake_test"} : At(t, c)
               /\ \A u \in Thread \ {t} : frame'[u] = frame[u]

LEMMA SleeperStays ==
    ASSUME ObjCallInv, Patient, NEW u, Sleeper(u), frame' = frame \/ \E t \in Thread : OwnFrame(t)
    PROVE  frame'[u] = frame[u]
<1>1. CASE frame' = frame
  BY <1>1
<1>2. ASSUME NEW t \in Thread, OwnFrame(t) PROVE frame'[u] = frame[u]
  <2>1. PICK c \in {"user", "woken", "between", "wake_test"} : At(t, c)
    BY <1>2 DEF OwnFrame
  <2>2. k.stat[t] = "running"
    BY <2>1, CallerRuns DEF ObjCallInv, About
  <2>3. u \in Thread /\ k.stat[u] = "suspend"
    BY WaiterFits DEF Sleeper
  <2> QED BY <1>2, <2>2, <2>3 DEF OwnFrame
<1> QED BY <1>1, <1>2

(* A step that wakes nobody who waits for the event. *)
LEMMA NoneServed ==
    ASSUME ObjCallInv, Patient, NEW J, NEW L, Flow(J, L), NEW e \in Event,
           \A u \in J : frame[u].call # "event_recv",
           frame' = frame \/ \E t \in Thread : OwnFrame(t)
    PROVE  Served(e) = {}
<1> SUFFICES ASSUME NEW u \in Served(e) PROVE FALSE
  OBVIOUS
<1>1. u \in Elems(k.wait[e]) /\ Ready(k', u)
  BY DEF Served, Ready
<1>2. e \in Obj
  BY ObjectListsApart
<1>3. /\ u \in Thread /\ frame[u].call \in Waiters /\ ~Ready(k, u) /\ frame[u].call = "event_recv"
  BY <1>1, <1>2, WaiterFits, CallOfList
<1>4. frame'[u] = frame[u]
  BY <1>1, <1>2, SleeperStays DEF Sleeper
<1>5. u \notin J /\ u \notin L /\ Same(u)
  BY <1>3 DEF Flow, Back
<1>6. Back(k', pc', frame', u) /\ ~Back(k, pc, frame, u)
  BY <1>1, <1>3, <1>4 DEF Back
<1> QED BY <1>5, <1>6 DEF Same

LEMMA NoneGiven ==
    ASSUME NEW e \in Event, Served(e) = {},
           flags'[e] = flags[e]
           \/ \E t \in Thread : EventReset(t, e) \/ \E w \in Wants[t] : EventRecvNow(t, e, w)
    PROVE  LeavesTo(e) /\ FlagsApart(e)
BY DEF LeavesTo, FlagsApart

(* A send has gone through the list of e. *)
LEMMA SendGives ==
    ASSUME ObjCallInv, Patient, NEW e \in Event, NEW set \in SUBSET Bit, NEW y, NEW J, NEW b,
           NEW x, x = [k |-> k, flags |-> flags[e] \cup set, want |-> want],
           Walked(y, x, e, Elems(k.wait[e]), J, b), Parted(y, x, e, J),
           EventSafe, Settle(e, y), k'.stat = y.k.stat \/ \A u \in Thread : Undisturbed(k', y.k, u),
           k'.wait = y.k.wait, k'.err = y.k.err
    PROVE  \A o \in Event : LeavesTo(o) /\ FlagsApart(o)
<1>1. /\ flags' = [flags EXCEPT ![e] = y.flags] /\ want' = y.want /\ flags \in [Event -> SUBSET Bit]
  BY DEF Settle, EventSafe
<1>2. /\ J \subseteq Elems(k.wait[e]) /\ e \in Obj /\ \A u \in J : Ready(y.k, u)
      /\ Attended(y.k, k, J)
  BY ObjectListsApart DEF Walked, Wakes
<1>3. \A u \in Thread : k'.stat[u] = "suspend" <=> y.k.stat[u] = "suspend"
  BY DEF Undisturbed
<1>4. ASSUME NEW o \in Event, NEW u \in Elems(k.wait[o])
      PROVE  u \in Thread /\ (u \in Served(o) <=> u \in J)
  <2>1. o \in Obj
    BY ObjectListsApart
  <2>2. u \in Thread /\ k.stat[u] = "suspend"
    BY <2>1, WaiterFits
  <2>3. CASE u \in J
    BY <1>2, <1>3, <2>2, <2>3 DEF Served, Ready
  <2>4. CASE u \notin J
    BY <1>2, <1>3, <2>2, <2>4 DEF Served, Attended, Handled, Undisturbed
  <2> QED BY <2>2, <2>3, <2>4
<1>5. ASSUME NEW o \in Event, o # e PROVE LeavesTo(o) /\ FlagsApart(o)
  <2>1. \A u \in Elems(k.wait[o]) : u \notin Elems(k.wait[e])
    <3>1. o \in Obj
      BY ObjectListsApart
    <3> QED BY <1>2, <1>5, <3>1, WaiterFits
  <2>2. Served(o) = {}
    BY <1>2, <1>4, <2>1 DEF Served
  <2>3. flags'[o] = flags[o]
    BY <1>1, <1>5
  <2> QED BY <2>2, <2>3, NoneGiven
<1>6. Served(e) = J
  <2>1. Served(e) \subseteq Elems(k.wait[e])
    BY DEF Served
  <2> QED BY <1>2, <1>4, <2>1
<1>7. /\ \A f \in x.flags \ y.flags : \E u \in J : want[u].clear /\ f \in y.want[u].set
      /\ \A i, j \in DOMAIN k.wait[e] :
            (i < j /\ k.wait[e][i] \in J /\ k.wait[e][j] \in J /\ want[k.wait[e][i]].clear)
               => y.want[k.wait[e][i]].set \cap y.want[k.wait[e][j]].set = {}
  BY DEF Parted
<1>8. LeavesTo(e)
  <2>1. flags[e] \subseteq x.flags /\ flags'[e] = y.flags
    BY <1>1
  <2>2. ASSUME NEW f \in flags[e] \ flags'[e]
        PROVE  \E u \in Served(e) : want[u].clear /\ f \in want'[u].set
    BY <1>1, <1>6, <1>7, <2>1
  <2> QED BY <2>2 DEF LeavesTo
<1>9. FlagsApart(e)
  BY <1>1, <1>6, <1>7 DEF FlagsApart
<1> QED BY <1>5, <1>8, <1>9

-----------------------------------------------------------------------------
(* All steps. *)
ObjSafe == MutexSafe /\ MqInv /\ NoMqWaitInVain /\ PoolInv /\ NoPoolWaitInVain /\ EventSafe
ObjInv  == ObjSafe /\ (k.bad \/ ObjCallInv)
ObjGoes == (Breaks \/ ObjCallInv') /\ MutexSafe' /\ NoMqWaitInVain' /\ NoPoolWaitInVain' /\ EventSafe'

(* A step of the kernel, or of a call that every object shares. *)
LEMMA SharedGoes ==
    ASSUME ObjSafe, Passes({}, {}, {}), UNCHANGED mutexVars, OnlyMutexes
    PROVE  ObjGoes
<1> DEFINE E == {}
<1>1. Passes(E, E, E) /\ Flow(E, E) /\ Shrinks(E) /\ E \cap Event = {} /\ \A C : \A u \in E \cup E : frame[u].call \notin C
      /\ E \cap (Mq \cup MqLists) = {} /\ E \cap Pool = {}
  BY DEF Passes
<1> HIDE DEF E
<1>2. /\ mx' = mx /\ depth' = depth /\ UNCHANGED eventVars /\ mq' = mq /\ mp' = mp /\ shut' = shut
  BY DEF OnlyMutexes, mutexVars, mqVars, poolVars
<1>3. \A u \in E \cup E : frame[u].call # "mutex_take" /\ frame[u].call # "mp_alloc"
                          /\ frame[u].call \notin {"mq_send", "mq_recv"}
  <2>1. \A u \in E \cup E : frame[u].call \notin {"mutex_take", "mp_alloc"}
    BY <1>1
  <2> QED BY <1>1, <2>1
<1>4. MutexSafe'
  BY <1>1, <1>2, <1>3, MutexKept DEF ObjSafe
<1>5. EventSafe'
  BY <1>1, <1>2, EventKept DEF ObjSafe
<1>6. NoMqWaitInVain'
  BY <1>1, <1>2, <1>3, MqWaitKept DEF ObjSafe
<1>7. NoPoolWaitInVain'
  BY <1>1, <1>2, <1>3, PoolWaitKept DEF ObjSafe
<1> QED BY <1>1, <1>4, <1>5, <1>6, <1>7 DEF ObjGoes, Passes

LEMMA MutexGoes ==
    ASSUME ObjSafe, ObjCallInv, Patient, NEW t \in Thread, MutexStep(t), OnlyMutexes
    PROVE  ObjGoes
<1>1. (\E J, L, X : Confined(J, L, X, {"mutex_take"}, Mutex)) /\ MutexSafe'
  BY MutexTurns DEF ObjSafe
<1>2. PICK J, L, X : Confined(J, L, X, {"mutex_take"}, Mutex)
  BY <1>1
<1>3. EventSafe' /\ NoMqWaitInVain' /\ NoPoolWaitInVain'
  BY <1>2, MutexAlone DEF ObjSafe
<1> QED BY <1>1, <1>2, <1>3 DEF ObjGoes, Confined, Passes

LEMMA EventGoes ==
    ASSUME ObjSafe, ObjCallInv, Patient, NEW J, NEW L, NEW X, EventTurn(J, L, X), OnlyEvents
    PROVE  ObjGoes
<1>1. Confined(J, L, X, {"event_recv"}, Event) /\ EventSafe'
  BY DEF EventTurn
<1>2. MutexSafe' /\ NoMqWaitInVain' /\ NoPoolWaitInVain'
  BY <1>1, EventAlone DEF ObjSafe
<1> QED BY <1>1, <1>2 DEF ObjGoes, Confined, Passes

LEMMA MqGoes ==
    ASSUME ObjSafe, ObjCallInv, Patient, NEW J, NEW L, NEW X, MqTurn(J, L, X), OnlyQueues
    PROVE  ObjGoes
<1>1. Confined(J, L, X, {"mq_send", "mq_recv"}, Mq \cup MqLists) /\ NoMqWaitInVain'
  BY DEF MqTurn, MqCall, MqSide
<1>2. MutexSafe' /\ EventSafe' /\ NoPoolWaitInVain'
  BY <1>1, MqAlone DEF ObjSafe
<1> QED BY <1>1, <1>2 DEF ObjGoes, Confined, Passes

LEMMA PoolGoes ==
    ASSUME ObjSafe, ObjCallInv, Patient, NEW J, NEW L, NEW X, PoolTurn(J, L, X), OnlyPools
    PROVE  ObjGoes
<1>1. Confined(J, L, X, {"mp_alloc"}, Pool) /\ NoPoolWaitInVain'
  BY DEF PoolTurn, PoolCall
<1>2. MutexSafe' /\ EventSafe' /\ NoMqWaitInVain'
  BY <1>1, PoolAlone DEF ObjSafe
<1> QED BY <1>1, <1>2 DEF ObjGoes, Confined, Passes

LEMMA ObjectsGo ==
    ASSUME ObjSafe, ObjCallInv, Patient, ObjectsNext
    PROVE  ObjGoes
<1>1. MqInv' /\ PoolInv'
  BY EveryStepGood, EveryStepKeepsPools DEF ObjSafe, MqGood
<1>2. EventNow /\ MqNow /\ PoolNow
  BY <1>1 DEF ObjSafe, EventNow, MqNow, PoolNow
<1>3. CASE Next /\ UNCHANGED <<waitVars, mutexVars>> /\ OnlyMutexes
  <2>1. Passes({}, {}, {})
    BY <1>3, NextPass
  <2> QED BY <1>3, <2>1, SharedGoes
<1>4. ASSUME NEW t \in Thread, WaitStep(t), OnlyMutexes, UNCHANGED mutexVars PROVE ObjGoes
  <2>1. Passes({}, {}, {})
    BY <1>4, WaitPass
  <2> QED BY <1>4, <2>1, SharedGoes
<1>5. ASSUME NEW t \in Thread, MutexStep(t), OnlyMutexes PROVE ObjGoes
  BY <1>5, MutexGoes
<1>6. ASSUME NEW t \in Thread, EventStep(t), OnlyEvents PROVE ObjGoes
  BY <1>2, <1>6, EventTurns, EventGoes
<1>7. ASSUME NEW t \in Thread, MqStep(t), OnlyQueues PROVE ObjGoes
  BY <1>2, <1>7, MqTurns, MqGoes
<1>8. ASSUME NEW t \in Thread, PoolStep(t), OnlyPools PROVE ObjGoes
  BY <1>2, <1>8, PoolTurns, PoolGoes
<1>9. CASE ObjectsDevice
  <2>1. ASSUME NEW e \in Event, NEW set \in Sent, DeviceEventSend(e, set), OnlyEvents PROVE ObjGoes
    BY <1>2, <2>1, DeviceEventTurn, EventGoes
  <2>2. ASSUME NEW q \in Mq, NEW v \in app.mails, DeviceMqSend(q, v), OnlyQueues PROVE ObjGoes
    BY <1>2, <2>2, DeviceMqTurn, MqGoes
  <2>3. ASSUME NEW p \in Pool, NEW b \in out[p], DeviceFree(p, b), OnlyPools PROVE ObjGoes
    BY <1>2, <2>3, DevicePoolTurn, PoolGoes
  <2> QED BY <1>9, <2>1, <2>2, <2>3 DEF ObjectsDevice
<1> QED BY <1>3, <1>4, <1>5, <1>6, <1>7, <1>8, <1>9 DEF ObjectsNext

(* The program has stopped when the kernel has lost a list. *)
LEMMA ObjectsHalted == ASSUME k.bad, ObjectsNext PROVE FALSE
<1>1. ASSUME NEW t, NEW c PROVE ~At(t, c)
  BY Halted
<1>2. ~Next /\ \A t \in Thread : ~WaitStep(t)
  BY Halted
<1>3. ASSUME NEW t, NEW c PROVE ~Asks(t, c) /\ ~Woken(t, c) /\ ~AllWoken(t, c)
  BY <1>1 DEF Asks, Woken, AllWoken
<1>4. ASSUME NEW t \in Thread PROVE ~MutexStep(t)
  BY <1>3 DEF MutexStep, MutexTakeFree, MutexTakeAgain, MutexTakeRefused, MutexTakeWait,
       MutexReleaseRefused, MutexReleaseInner, MutexRelease, MutexDetach, MutexTaken, MutexDetached
<1>5. ASSUME NEW t \in Thread PROVE ~EventStep(t)
  BY <1>3 DEF EventStep, EventSend, EventRecvNow, EventRecvRefused, EventRecvWait, EventReset,
       EventDetach, EventReceived, EventDetached
<1>6. ASSUME NEW t \in Thread PROVE ~MqStep(t)
  BY <1>1, <1>3 DEF MqStep, MqSend, MqSendWait, MqSendAgain, MqSent, MqRecv, MqRecvWait, MqRecvAgain,
       MqReceived, MqReset, MqDetach, MqDetached
<1>7. ASSUME NEW t \in Thread PROVE ~PoolStep(t)
  BY <1>1, <1>3 DEF PoolStep, Alloc, AllocRefused, AllocWait, AllocAgain, FreeBlock, PoolDetach,
       AllocWoken, PoolDetached
<1>8. ~ObjectsDevice
  BY DEF ObjectsDevice, DeviceEventSend, DeviceMqSend, DeviceFree, DeviceAsks
<1> QED BY <1>2, <1>4, <1>5, <1>6, <1>7, <1>8 DEF ObjectsNext

LEMMA ObjBreaksBad == ASSUME Breaks, k \in Kernel PROVE k'.bad
BY DEF Breaks, Kernel

LEMMA NextObjInv ==
    ASSUME Patient, ObjInv, [ObjectsNext]_objectVars
    PROVE  ObjInv'
<1>1. MqInv' /\ PoolInv'
  BY EveryStepGood, EveryStepKeepsPools DEF ObjInv, ObjSafe, MqGood
<1>2. CASE UNCHANGED objectVars
  <2>1. UNCHANGED <<k, cpu, pc, arg, isr, prog, frame, app, mx, depth, flags, want, over, mq, mp, shut>>
    BY <1>2 DEF objectVars, vars, waitVars, mutexVars, eventVars, mqVars, poolVars
  <2>2. MutexSafe'
    BY <2>1 DEF ObjInv, ObjSafe, MutexSafe, MutexExclusive, Handed
  <2>3. EventSafe'
    BY <2>1 DEF ObjInv, ObjSafe, EventSafe, NoMetWaiter, Waiting
  <2>4. NoMqWaitInVain' /\ NoPoolWaitInVain'
    BY <2>1 DEF ObjInv, ObjSafe, NoMqWaitInVain, NoPoolWaitInVain, MqComing, PoolComing
  <2>5. ObjCallInv' <=> ObjCallInv
    BY <2>1 DEF ObjCallInv, FitsObj, WaitInv, IInv, SwitchRecord, Places, Timely
  <2> QED BY <1>1, <2>1, <2>2, <2>3, <2>4, <2>5 DEF ObjInv, ObjSafe
<1>3. CASE ObjectsNext
  <2>1. ObjCallInv /\ ObjSafe /\ k \in Kernel
    BY <1>3, ObjectsHalted, NowWaiting DEF ObjInv, ObjCallInv
  <2>2. ObjGoes
    BY <1>3, <2>1, ObjectsGo
  <2> QED BY <1>1, <2>1, <2>2, ObjBreaksBad DEF ObjInv, ObjSafe, ObjGoes
<1> QED BY <1>2, <1>3

LEMMA InitObjInv == ASSUME Patient, ObjectsInit PROVE ObjInv
<1>1. WaitInv /\ MqInv /\ PoolInv
  <2>1. PoolInv
    BY AllFreeSound DEF ObjectsInit, PoolInitState, PoolInv
  <2> QED BY <2>1, InitWaiting, InitMq DEF ObjectsInit
<1>2. /\ \A o \in Obj : k.wait[o] = <<>>
      /\ \A t \in Thread : pc[t] = "user" /\ frame[t].call = "none"
  BY DEF ObjectsInit, Init, WaitInit, NoCall
<1>3. ObjCallInv
  BY <1>1, <1>2 DEF ObjCallInv, FitsObj
<1>4. NoMqWaitInVain /\ NoPoolWaitInVain
  BY <1>2, ObjectListsApart DEF NoMqWaitInVain, NoPoolWaitInVain
<1>5. EventSafe
  <2>1. flags \in [Event -> SUBSET Bit] /\ want \in [Thread -> Wish]
    BY DEF ObjectsInit, EventInitState, Wish
  <2>2. NoMetWaiter
    BY <1>2, ObjectListsApart DEF NoMetWaiter, Waiting, Elems
  <2> QED BY <2>1, <2>2 DEF EventSafe
<1>6. MutexSafe
  <2>1. mx = [m \in Mutex |-> Free] /\ depth = [t \in Thread |-> [m \in Mutex |-> 0]]
    BY DEF ObjectsInit, MutexInitState
  <2>2. Free \in MutexState
    BY MutexAssumption DEF Free, MutexState
  <2>3. Nobody \notin Thread
    BY MutexAssumption
  <2>4. \A t \in Thread : \A m : ~Handed(t, m)
    BY <1>2 DEF Handed
  <2>5. \A m \in Mutex : mx[m].owner = Nobody /\ mx[m].value = 1 /\ mx[m].hold = 0
    BY <2>1 DEF Free
  <2>6. \A m \in Mutex, t \in Thread : depth[t][m] = 0 /\ mx[m].owner # t
    BY <2>1, <2>3, <2>5
  <2>7. MutexExclusive
    BY <2>4, <2>5, <2>6 DEF MutexExclusive
  <2> QED BY <2>1, <2>2, <2>5, <2>7 DEF MutexSafe
<1> QED BY <1>1, <1>3, <1>4, <1>5, <1>6 DEF ObjInv, ObjSafe

(* A mutex has one owner: a thread holds it exactly as often as its calls    *)
(* say, and nobody holds one that another thread holds or that counts as     *)
(* free, whatever the order of releases, timeouts and interrupts.            *)
THEOREM MutexesExclude ==
    ASSUME Patient
    PROVE  ObjectsSpec => []MutexExclusive
<1>1. ObjInv => MutexExclusive
  BY DEF ObjInv, ObjSafe, MutexSafe
<1>2. ObjectsInit => ObjInv
  BY InitObjInv
<1>3. ObjInv /\ [ObjectsNext]_objectVars => ObjInv'
  BY NextObjInv
<1> QED BY <1>1, <1>2, <1>3, PTL DEF ObjectsSpec

(* No thread sleeps beside flags that meet its wish, beside a message, a     *)
(* free cell or a free block that no woken thread is on its way to take.     *)
THEOREM NobodyIsForgotten ==
    ASSUME Patient
    PROVE  ObjectsSpec => []NobodyForgotten
<1>1. ObjInv => NobodyForgotten
  BY DEF ObjInv, ObjSafe, EventSafe, NobodyForgotten
<1>2. ObjectsInit => ObjInv
  BY InitObjInv
<1>3. ObjInv /\ [ObjectsNext]_objectVars => ObjInv'
  BY NextObjInv
<1> QED BY <1>1, <1>2, <1>3, PTL DEF ObjectsSpec

LEMMA SendGivesFlags ==
    ASSUME EventNow, Patient, NEW t \in Thread, NEW e \in Event, NEW set \in Sent, EventSend(t, e, set)
    PROVE  \A o \in Event : LeavesTo(o) /\ FlagsApart(o)
<1>1. set \in SUBSET Bit /\ Fit(k, Base(k, isr))
  BY NowWaiting, EventAssumption DEF EventNow, ObjCallInv
<1>2. PICK b : b = Base(k, isr)
  OBVIOUS
<1>3. PICK y : y = Walk(e, set)
  OBVIOUS
<1>4. PICK x : x = [k |-> k, flags |-> flags[e] \cup set, want |-> want]
  OBVIOUS
<1>5. PICK J : Walked(y, x, e, Elems(k.wait[e]), J, b) /\ Parted(y, x, e, J)
  BY <1>1, <1>2, <1>3, <1>4, WalkEnds DEF EventNow
<1>6. k' = y.k /\ Settle(e, y)
  BY <1>3 DEF EventSend
<1> QED BY <1>1, <1>4, <1>5, <1>6, SendGives DEF EventNow

LEMMA DeviceGivesFlags ==
    ASSUME EventNow, Patient, NEW e \in Event, NEW set \in Sent, DeviceEventSend(e, set)
    PROVE  \A o \in Event : LeavesTo(o) /\ FlagsApart(o)
<1>1. set \in SUBSET Bit /\ Fit(k, Base(k, isr))
  BY NowWaiting, EventAssumption DEF EventNow, ObjCallInv
<1>2. PICK b : b = Base(k, isr)
  OBVIOUS
<1>3. PICK y : y = Walk(e, set)
  OBVIOUS
<1>4. PICK x : x = [k |-> k, flags |-> flags[e] \cup set, want |-> want]
  OBVIOUS
<1>5. PICK J : Walked(y, x, e, Elems(k.wait[e]), J, b) /\ Parted(y, x, e, J)
  BY <1>1, <1>2, <1>3, <1>4, WalkEnds DEF EventNow
<1>6. k' = (IF y.k # k THEN Schedule(y.k) ELSE k) /\ Settle(e, y)
  BY <1>3 DEF DeviceEventSend
<1>7. Fit(y.k, b)
  BY <1>5 DEF Walked, Wakes
<1>8. /\ Attended(Schedule(y.k), y.k, {}) /\ Schedule(y.k).wait = y.k.wait
      /\ y.k \in Kernel /\ Schedule(y.k) \in Kernel
  BY <1>7, ScheduleServes DEF Fit, Sound, SoundBut
<1>9. CASE y.k = k
  BY <1>1, <1>4, <1>5, <1>6, <1>9, SendGives DEF EventNow
<1>10. CASE y.k # k
  <2>1. k' = Schedule(y.k)
    BY <1>6, <1>10
  <2>2. /\ k'.wait = y.k.wait /\ \A u \in Thread : Undisturbed(k', y.k, u)
    BY <1>8, <2>1 DEF Attended, Handled
  <2>3. k'.err \in [Thread -> Err] /\ y.k.err \in [Thread -> Err] /\ \A u \in Thread : k'.err[u] = y.k.err[u]
    BY <1>8, <2>1, <2>2 DEF Kernel, Undisturbed
  <2>4. k'.err = y.k.err
    BY <2>3
  <2> QED BY <1>1, <1>4, <1>5, <1>6, <2>2, <2>4, SendGives DEF EventNow
<1> QED BY <1>9, <1>10

LEMMA OwnMove ==
    ASSUME ObjCallInv, NEW t \in Thread, NEW c \in {"user", "woken", "between", "wake_test"}, At(t, c),
           \/ \E call, o, n, v : Enter(t, call, o, n, v)
           \/ Leave(t) \/ frame' = frame \/ \E f : frame' = [frame EXCEPT ![t] = f]
    PROVE  frame' = frame \/ OwnFrame(t)
<1>1. frame = [u \in Thread |-> frame[u]]
  BY DEF ObjCallInv, WaitInv, Framed
<1> QED BY <1>1 DEF OwnFrame, Enter, Leave

(* Every other step of an event leaves those who wait for it asleep, or      *)
(* wakes them with an error.                                                 *)
LEMMA EventGives ==
    ASSUME EventNow, Patient, NEW t \in Thread, EventStep(t)
    PROVE  \A o \in Event : LeavesTo(o) /\ FlagsApart(o)
<1>0. ASSUME NEW e \in Event, NEW F, flags' = [flags EXCEPT ![e] = F] \/ flags' = flags,
             \A o \in Event : Served(o) = {},
             flags' = flags \/ EventReset(t, e) \/ \E w \in Wants[t] : EventRecvNow(t, e, w)
      PROVE  \A o \in Event : LeavesTo(o) /\ FlagsApart(o)
  <2> SUFFICES ASSUME NEW o \in Event PROVE LeavesTo(o) /\ FlagsApart(o)
    OBVIOUS
  <2>1. \/ flags'[o] = flags[o]
        \/ \E u \in Thread : EventReset(u, o) \/ \E w \in Wants[u] : EventRecvNow(u, o, w)
    <3>1. CASE o = e
      BY <1>0, <3>1
    <3>2. CASE o # e
      BY <1>0, <3>2 DEF EventNow, EventSafe
    <3> QED BY <3>1, <3>2
  <2> QED BY <1>0, <2>1, NoneGiven
<1>1. CASE \E e \in Event : \E set \in Sent : EventSend(t, e, set)
  BY <1>1, SendGivesFlags
<1>2. ASSUME NEW L, NEW X, EventTurn({}, L, X), frame' = frame \/ OwnFrame(t)
      PROVE  \A o \in Event : Served(o) = {}
  <2>1. Flow({}, L)
    BY <1>2 DEF EventTurn, Confined, Passes
  <2>2. frame' = frame \/ \E u \in Thread : OwnFrame(u)
    BY <1>2
  <2> DEFINE J == {}
  <2>3. Flow(J, L) /\ \A u \in J : frame[u].call # "event_recv"
    BY <2>1
  <2> HIDE DEF J
  <2> QED BY <2>2, <2>3, NoneServed DEF EventNow
<1>3. CASE \E e \in Event : \E w \in Wants[t] : EventRecvNow(t, e, w) \/ EventRecvRefused(t, e, w)
  <2>1. PICK e \in Event, w \in Wants[t] : EventRecvNow(t, e, w) \/ EventRecvRefused(t, e, w)
    BY <1>3
  <2>2. EventTurn({}, {}, {}) /\ frame' = frame
    BY <2>1, RecvNowTurn DEF EventRecvNow, EventRecvRefused, waitVars
  <2>3. \A o \in Event : Served(o) = {}
    BY <1>2, <2>2
  <2>4. EventRecvNow(t, e, w) \/ flags' = flags
    BY <2>1 DEF EventRecvRefused, eventVars
  <2> QED BY <1>0, <2>3, <2>4 DEF EventRecvNow
<1>4. CASE \E e \in Event : \E w \in Wants[t] : \E n \in app.timeouts[t] : EventRecvWait(t, e, w, n)
  <2>1. PICK e \in Event, w \in Wants[t], n \in app.timeouts[t] : EventRecvWait(t, e, w, n)
    BY <1>4
  <2>2. EventTurn({}, {}, {e}) /\ flags' = flags
    BY <2>1, RecvWaitTurn DEF EventRecvWait
  <2>3. OwnFrame(t)
    BY <2>1 DEF EventRecvWait, Asks, Enter, OwnFrame
  <2> QED BY <1>2, <2>2, <2>3, NoneGiven
<1>5. CASE EventReceived(t)
  <2>1. EventTurn({}, Leaving(t), {}) /\ flags' = flags
    BY <1>5, ReceivedTurn DEF EventReceived, eventVars
  <2>2. OwnFrame(t)
    BY <1>5 DEF EventReceived, Woken, Leave, OwnFrame
  <2> QED BY <1>2, <2>1, <2>2, NoneGiven
<1>6. CASE EventDetached(t) \/ \E e \in Event : EventReset(t, e) \/ EventDetach(t, e)
  <2>1. EventTurn({}, {}, {})
    BY <1>6, EventEndTurn
  <2>2. frame' = frame \/ OwnFrame(t)
    <3>1. CASE EventDetached(t)
      BY <3>1, OwnMove DEF EventNow, EventDetached, AllWoken
    <3>2. ASSUME NEW e \in Event, EventReset(t, e) PROVE frame' = frame
      BY <3>2 DEF EventReset, waitVars
    <3>3. ASSUME NEW e \in Event, EventDetach(t, e) PROVE frame' = frame \/ OwnFrame(t)
      BY <3>3, OwnMove DEF EventNow, EventDetach, Asks
    <3> QED BY <1>6, <3>1, <3>2, <3>3
  <2>3. flags' = flags \/ \E e \in Event : EventReset(t, e)
    BY <1>6 DEF EventDetached, EventDetach, eventVars
  <2>4. \A o \in Event : Served(o) = {}
    BY <1>2, <2>1, <2>2
  <2>5. CASE flags' = flags
    BY <2>4, <2>5, NoneGiven
  <2>6. ASSUME NEW e \in Event, EventReset(t, e) PROVE \A o \in Event : LeavesTo(o) /\ FlagsApart(o)
    BY <1>0, <2>4, <2>6 DEF EventReset
  <2> QED BY <2>3, <2>5, <2>6
<1> QED BY <1>1, <1>3, <1>4, <1>5, <1>6 DEF EventStep

(* The steps of the rest.                                                    *)
LEMMA OthersGive ==
    ASSUME ObjCallInv, Patient, NEW J, NEW L, Flow(J, L), \A u \in J : frame[u].call # "event_recv",
           frame' = frame \/ \E t \in Thread : OwnFrame(t), flags' = flags
    PROVE  \A o \in Event : LeavesTo(o) /\ FlagsApart(o)
BY NoneServed, NoneGiven

LEMMA MutexFrames ==
    ASSUME ObjCallInv, NEW t \in Thread, MutexStep(t)
    PROVE  frame' = frame \/ OwnFrame(t)
<1>1. CASE \E m \in Mutex : \/ MutexTakeFree(t, m) \/ MutexTakeAgain(t, m) \/ MutexTakeRefused(t, m)
                            \/ MutexReleaseRefused(t, m) \/ MutexReleaseInner(t, m) \/ MutexRelease(t, m)
  BY <1>1 DEF MutexTakeFree, MutexTakeAgain, MutexTakeRefused, MutexReleaseRefused, MutexReleaseInner,
       MutexRelease, waitVars
<1>2. ASSUME NEW m, NEW n, MutexTakeWait(t, m, n) PROVE frame' = frame \/ OwnFrame(t)
  BY <1>2, OwnMove DEF MutexTakeWait, Asks
<1>3. ASSUME NEW m, MutexDetach(t, m) PROVE frame' = frame \/ OwnFrame(t)
  BY <1>3, OwnMove DEF MutexDetach, Asks
<1>4. CASE MutexTaken(t)
  BY <1>4, OwnMove DEF MutexTaken, Woken
<1>5. CASE MutexDetached(t)
  BY <1>5, OwnMove DEF MutexDetached, AllWoken
<1> QED BY <1>1, <1>2, <1>3, <1>4, <1>5 DEF MutexStep

LEMMA MqFrames ==
    ASSUME ObjCallInv, NEW t \in Thread, MqStep(t)
    PROVE  frame' = frame \/ OwnFrame(t)
<1>1. ASSUME NEW c \in {"user", "woken", "between", "wake_test"}, At(t, c),
             \/ \E call, o, n, v : Enter(t, call, o, n, v)
             \/ Leave(t) \/ frame' = frame \/ \E f : frame' = [frame EXCEPT ![t] = f]
      PROVE  frame' = frame \/ OwnFrame(t)
  BY <1>1, OwnMove
<1>2. PICK q \in Mq : \/ \E v \in app.mails, call \in {"mq_send", "mq_urgent"} : MqSend(t, q, call, v)
                      \/ \E v \in app.mails, n \in app.timeouts[t] : MqSendWait(t, q, v, n)
                      \/ MqSendAgain(t, q)
                      \/ MqSent(t, q)
                      \/ MqRecv(t, q)
                      \/ \E n \in app.timeouts[t] : MqRecvWait(t, q, n)
                      \/ MqRecvAgain(t, q)
                      \/ MqReceived(t, q)
                      \/ MqReset(t, q)
                      \/ MqDetach(t, q)
                      \/ MqDetached(t, q)
  BY DEF MqStep
<1>3. ASSUME NEW v, NEW call, MqSend(t, q, call, v) PROVE frame' = frame \/ OwnFrame(t)
  BY <1>1, <1>3 DEF MqSend, StartSend, Asks
<1>4. ASSUME NEW v, NEW n, MqSendWait(t, q, v, n) PROVE frame' = frame \/ OwnFrame(t)
  BY <1>1, <1>4 DEF MqSendWait, Asks
<1>5. CASE MqSendAgain(t, q)
  BY <1>1, <1>5 DEF MqSendAgain, StartSend, Woken
<1>6. CASE MqSent(t, q) \/ MqReceived(t, q)
  BY <1>1, <1>6 DEF MqSent, MqReceived
<1>7. CASE MqRecv(t, q)
  BY <1>1, <1>7 DEF MqRecv, StartRecv, Asks
<1>8. ASSUME NEW n, MqRecvWait(t, q, n) PROVE frame' = frame \/ OwnFrame(t)
  BY <1>1, <1>8 DEF MqRecvWait, Asks
<1>9. CASE MqRecvAgain(t, q)
  BY <1>1, <1>9 DEF MqRecvAgain, StartRecv, Woken
<1>10. CASE MqReset(t, q) \/ MqDetach(t, q)
  BY <1>1, <1>10 DEF MqReset, MqDetach, Asks, waitVars
<1>11. CASE MqDetached(t, q)
  <2>1. Leave(t) \/ \E f : frame' = [frame EXCEPT ![t] = f]
    BY <1>11 DEF MqDetached
  <2> QED BY <1>1, <1>11, <2>1 DEF MqDetached, AllWoken
<1> QED BY <1>2, <1>3, <1>4, <1>5, <1>6, <1>7, <1>8, <1>9, <1>10, <1>11

LEMMA PoolFrames ==
    ASSUME ObjCallInv, NEW t \in Thread, PoolStep(t)
    PROVE  frame' = frame \/ OwnFrame(t)
<1>1. CASE \E p \in Pool : Alloc(t, p) \/ AllocRefused(t, p) \/ \E b : FreeBlock(t, p, b)
  BY <1>1 DEF Alloc, AllocRefused, FreeBlock, waitVars
<1>2. ASSUME NEW p, NEW n, AllocWait(t, p, n) PROVE frame' = frame \/ OwnFrame(t)
  BY <1>2, OwnMove DEF AllocWait, Asks
<1>3. ASSUME NEW p, AllocAgain(t, p) PROVE frame' = frame \/ OwnFrame(t)
  <2>1. At(t, "between") /\ (Leave(t) \/ \E call, o, n, v : Enter(t, call, o, n, v))
    BY <1>3 DEF AllocAgain
  <2> QED BY <2>1, OwnMove
<1>4. ASSUME NEW p, PoolDetach(t, p) PROVE frame' = frame \/ OwnFrame(t)
  BY <1>4, OwnMove DEF PoolDetach, Asks
<1>5. CASE AllocWoken(t)
  <2>1. \E f : frame' = [frame EXCEPT ![t] = f]
    BY <1>5 DEF AllocWoken
  <2> QED BY <1>5, <2>1, OwnMove DEF AllocWoken, Woken
<1>6. CASE PoolDetached(t)
  BY <1>6, OwnMove DEF PoolDetached, AllWoken
<1> QED BY <1>1, <1>2, <1>3, <1>4, <1>5, <1>6 DEF PoolStep

LEMMA WaitFrames ==
    ASSUME ObjCallInv, NEW t \in Thread, WaitStep(t)
    PROVE  frame' = frame \/ OwnFrame(t)
<1>1. CASE WaitFails(t)
  BY <1>1, OwnMove DEF WaitFails
<1> QED BY <1>1 DEF WaitStep, WaitSchedule, WakeMore, WakeTake, waitVars

LEMMA EveryStepGives ==
    ASSUME ObjSafe, ObjCallInv, Patient, ObjectsNext
    PROVE  \A o \in Event : LeavesTo(o) /\ FlagsApart(o)
<1>1. MqInv' /\ PoolInv'
  BY EveryStepGood, EveryStepKeepsPools DEF ObjSafe, MqGood
<1>2. EventNow /\ MqNow /\ PoolNow
  BY <1>1 DEF ObjSafe, EventNow, MqNow, PoolNow
<1> DEFINE E == {}
<1>3. ASSUME Passes({}, {}, {}), frame' = frame \/ \E t \in Thread : OwnFrame(t), flags' = flags
      PROVE  \A o \in Event : LeavesTo(o) /\ FlagsApart(o)
  <2>1. Flow(E, E) /\ \A u \in E : frame[u].call # "event_recv"
    BY <1>3 DEF Passes
  <2> HIDE DEF E
  <2> QED BY <1>3, <2>1, OthersGive
<1>4. CASE Next /\ UNCHANGED <<waitVars, mutexVars>> /\ OnlyMutexes
  <2>1. Passes({}, {}, {}) /\ frame' = frame /\ flags' = flags
    BY <1>4, NextPass DEF waitVars, OnlyMutexes, eventVars
  <2> QED BY <1>3, <2>1
<1>5. ASSUME NEW t \in Thread, WaitStep(t), OnlyMutexes, UNCHANGED mutexVars
      PROVE  \A o \in Event : LeavesTo(o) /\ FlagsApart(o)
  <2>1. Passes({}, {}, {}) /\ flags' = flags
    BY <1>5, WaitPass DEF OnlyMutexes, eventVars
  <2> QED BY <1>3, <1>5, <2>1, WaitFrames
<1>6. ASSUME NEW J, NEW L, NEW X, NEW C, NEW O, Confined(J, L, X, C, O), "event_recv" \notin C,
             frame' = frame \/ \E t \in Thread : OwnFrame(t), flags' = flags
      PROVE  \A o \in Event : LeavesTo(o) /\ FlagsApart(o)
  <2>1. Flow(J, L) /\ \A u \in J : frame[u].call # "event_recv"
    BY <1>6 DEF Confined, Passes
  <2> QED BY <1>6, <2>1, OthersGive
<1>7. ASSUME NEW t \in Thread, MutexStep(t), OnlyMutexes PROVE \A o \in Event : LeavesTo(o) /\ FlagsApart(o)
  <2>1. PICK J, L, X : Confined(J, L, X, {"mutex_take"}, Mutex)
    BY <1>7, MutexTurns DEF ObjSafe
  <2>2. flags' = flags /\ "event_recv" \notin {"mutex_take"}
    BY <1>7 DEF OnlyMutexes, eventVars
  <2> QED BY <1>6, <1>7, <2>1, <2>2, MutexFrames
<1>8. ASSUME NEW t \in Thread, MqStep(t), OnlyQueues PROVE \A o \in Event : LeavesTo(o) /\ FlagsApart(o)
  <2>1. PICK J, L, X : Confined(J, L, X, {"mq_send", "mq_recv"}, MqSide)
    BY <1>2, <1>8, MqTurns DEF MqTurn, MqCall
  <2>2. flags' = flags /\ "event_recv" \notin {"mq_send", "mq_recv"}
    BY <1>8 DEF OnlyQueues, eventVars
  <2> QED BY <1>6, <1>8, <2>1, <2>2, MqFrames
<1>9. ASSUME NEW t \in Thread, PoolStep(t), OnlyPools PROVE \A o \in Event : LeavesTo(o) /\ FlagsApart(o)
  <2>1. PICK J, L, X : Confined(J, L, X, {"mp_alloc"}, Pool)
    BY <1>2, <1>9, PoolTurns DEF PoolTurn, PoolCall
  <2>2. flags' = flags /\ "event_recv" \notin {"mp_alloc"}
    BY <1>9 DEF OnlyPools, eventVars
  <2> QED BY <1>6, <1>9, <2>1, <2>2, PoolFrames
<1>10. CASE ObjectsDevice
  <2>1. ASSUME NEW e \in Event, NEW set \in Sent, DeviceEventSend(e, set)
        PROVE  \A o \in Event : LeavesTo(o) /\ FlagsApart(o)
    BY <1>2, <2>1, DeviceGivesFlags
  <2>2. ASSUME NEW q \in Mq, NEW v \in app.mails, DeviceMqSend(q, v), OnlyQueues
        PROVE  \A o \in Event : LeavesTo(o) /\ FlagsApart(o)
    <3>1. PICK J, L, X : Confined(J, L, X, {"mq_send", "mq_recv"}, MqSide)
      BY <1>2, <2>2, DeviceMqTurn DEF MqTurn, MqCall
    <3>2. flags' = flags /\ "event_recv" \notin {"mq_send", "mq_recv"} /\ frame' = frame
      BY <2>2 DEF OnlyQueues, eventVars, DeviceMqSend, waitVars
    <3> QED BY <1>6, <3>1, <3>2
  <2>3. ASSUME NEW p \in Pool, NEW b \in out[p], DeviceFree(p, b), OnlyPools
        PROVE  \A o \in Event : LeavesTo(o) /\ FlagsApart(o)
    <3>1. PICK J, L, X : Confined(J, L, X, {"mp_alloc"}, Pool)
      BY <1>2, <2>3, DevicePoolTurn DEF PoolTurn, PoolCall
    <3>2. flags' = flags /\ "event_recv" \notin {"mp_alloc"} /\ frame' = frame
      BY <2>3 DEF OnlyPools, eventVars, DeviceFree, waitVars
    <3> QED BY <1>6, <3>1, <3>2
  <2> QED BY <1>10, <2>1, <2>2, <2>3 DEF ObjectsDevice
<1>11. ASSUME NEW t \in Thread, EventStep(t) PROVE \A o \in Event : LeavesTo(o) /\ FlagsApart(o)
  BY <1>2, <1>11, EventGives
<1> QED BY <1>4, <1>5, <1>7, <1>8, <1>9, <1>10, <1>11 DEF ObjectsNext

(* The flags of an event leave it by a reset, by a thread that finds them or *)
(* with a waiting thread that asked for them to be cleared, and what such a  *)
(* thread got nobody behind it gets by the same send (rt_event_send).        *)
THEOREM FlagsAreParted ==
    ASSUME Patient
    PROVE  ObjectsSpec => FlagsGoToOne
<1>1. ObjInv /\ [ObjectsNext]_objectVars =>
         [\A e \in Event :
             /\ \/ \E t \in Thread : EventReset(t, e) \/ \E w \in Wants[t] : EventRecvNow(t, e, w)
                \/ flags[e] \ flags'[e]
                      \subseteq UNION {want'[t].set : t \in {u \in Served(e) : want[u].clear}}
             /\ \A i, j \in DOMAIN k.wait[e] :
                   LET t == k.wait[e][i]
                       u == k.wait[e][j]
                   IN  (i < j /\ {t, u} \subseteq Served(e) /\ want[t].clear)
                          => want'[t].set \cap want'[u].set = {}]_<<vars, waitVars, eventVars>>
  <2>1. CASE UNCHANGED objectVars
    BY <2>1 DEF objectVars
  <2>2. ASSUME ObjInv, ObjectsNext PROVE \A e \in Event : LeavesTo(e) /\ FlagsApart(e)
    <3>1. ObjCallInv /\ ObjSafe
      BY <2>2, ObjectsHalted DEF ObjInv
    <3> QED BY <2>2, <3>1, EveryStepGives
  <2> QED BY <2>1, <2>2 DEF LeavesTo, FlagsApart
<1>2. ObjectsInit => ObjInv
  BY InitObjInv
<1>3. ObjInv /\ [ObjectsNext]_objectVars => ObjInv'
  BY NextObjInv
<1> QED BY <1>1, <1>2, <1>3, PTL DEF ObjectsSpec, FlagsGoToOne
-----------------------------------------------------------------------------
(* Priorities that mutexes lend.  rt_mutex_release sets the owner back to    *)
(* the priority it had when it took the mutex, and a waiting thread keeps    *)
(* its place when its priority is changed.                                   *)

(* RT_THREAD_CTRL_CHANGE_PRIORITY is not used. *)
PrioritiesFixed == \A g \in Programs : g.prio = {}

(* A thread has to do with one mutex at a time. *)
Holds(t, m) == mx[m].owner = t \/ Waiting(t, m)
OneMutexEach == \A t \in Thread : \A m, n \in Mutex : Holds(t, m) /\ Holds(t, n) => m = n

(* What is restored is the thread's own priority, nobody waits for what it   *)
(* owns, and the waiters, who own nothing, are in the order of their own.    *)
LendInv ==
    /\ \A m \in Mutex : /\ mx[m].owner # Nobody => mx[m].orig = InitPrio[mx[m].owner]
                        /\ ~Waiting(mx[m].owner, m)
                        /\ InOrder(k.wait[m], InitPrio)
    /\ PriorityInherited

(* A step that lends nothing and after which everybody owns what they owned. *)
LEMMA LendKept ==
    ASSUME LendInv, NEW X, Shrinks(X), X \cap Mutex = {}, k'.prio = k.prio, unmade \subseteq unmade',
           \A m \in Mutex : mx'[m].owner = mx[m].owner /\ mx'[m].orig = mx[m].orig
    PROVE  LendInv'
<1>1. ASSUME NEW m \in Mutex
      PROVE  /\ \A u : Waiting(u, m)' => Waiting(u, m)
             /\ InOrder(k.wait[m], InitPrio) => InOrder(k'.wait[m], InitPrio)
  <2>1. m \in Obj \ X
    BY ObjectListsApart
  <2> QED BY <2>1 DEF Shrinks, Waiting
<1>2. ASSUME NEW m \in Mutex
      PROVE  /\ mx'[m].owner # Nobody => mx'[m].orig = InitPrio[mx'[m].owner]
             /\ ~Waiting(mx[m].owner, m)'
             /\ InOrder(k'.wait[m], InitPrio)
  BY <1>1 DEF LendInv
<1>3. PriorityInherited'
  BY <1>1 DEF LendInv, PriorityInherited
<1>4. ASSUME NEW m \in Mutex PROVE ~Waiting(mx[m].owner, m)' <=> ~(mx'[m].owner \in Elems(k'.wait[m]))
  BY DEF Waiting
<1> QED BY <1>2, <1>3, <1>4 DEF LendInv, Waiting

(* Threads that own nothing, and waiters in particular, have their own       *)
(* priority.                                                                 *)
LEMMA WaiterOwnsNothing ==
    ASSUME LendInv, OneMutexEach, NEW m \in Mutex, NEW u \in Thread, Waiting(u, m)
    PROVE  (\A n \in Mutex : mx[n].owner # u) /\ k.prio[u] = InitPrio[u]
<1>1. ASSUME NEW n \in Mutex, mx[n].owner = u PROVE FALSE
  <2>1. n = m
    BY <1>1 DEF OneMutexEach, Holds
  <2> QED BY <1>1, <2>1 DEF LendInv
<1> QED BY <1>1 DEF LendInv, PriorityInherited

LEMMA MutexWaiters ==
    ASSUME ObjCallInv, Patient, NEW m \in Mutex
    PROVE  /\ m \in Obj /\ k.wait[m] \in Seq(Thread) /\ IsOnce(k.wait[m])
           /\ \A u \in Elems(k.wait[m]) : u \in Thread
           /\ k \in Kernel /\ k.prio \in [Thread -> Int] /\ InitPrio \in [Thread -> Int]
<1>1. m \in Obj /\ k \in Kernel /\ Fit(k, Base(k, isr))
  BY NowWaiting, ObjectListsApart DEF ObjCallInv
<1>2. k.wait[m] \in Seq(Thread) /\ IsOnce(k.wait[m])
  BY <1>1 DEF Kernel, Fit, Sound, SoundBut, Waits
<1>3. k.prio \in [Thread -> Prio] /\ InitPrio \in [Thread -> Prio] /\ Prio \subseteq Int
  <2>1. k.prio \in [Thread -> Prio]
    BY <1>1 DEF Kernel
  <2>2. InitPrio \in [Thread -> Prio]
    BY ThreadAssumption
  <2>3. Prio \subseteq Int
    BY KernelAssumption DEF Prio
  <2> QED BY <2>1, <2>2, <2>3
<1> QED BY <1>1, <1>2, <1>3, ElemsType

(* rt_mutex_take of a free mutex. *)
LEMMA TakeFreeLends ==
    ASSUME ObjCallInv, Patient, MutexSafe, LendInv, OneMutexEach', NEW t \in Thread, NEW m \in Mutex,
           MutexTakeFree(t, m)
    PROVE  LendInv'
<1>1. /\ mx[m].owner = Nobody /\ m \notin unmade /\ unmade' = unmade
      /\ mx' = [mx EXCEPT ![m] = Own(t, m, mx[m].hold + 1)] /\ k' = Cleared(t)
  BY OwnerIs DEF MutexTakeFree, MutexState
<1>2. mx \in [Mutex -> MutexState] /\ t # Nobody
  BY MutexAssumption DEF MutexSafe
<1>3. k'.wait = k.wait /\ k'.prio = k.prio
  BY <1>1 DEF Cleared
<1>4. \A n \in Mutex : mx'[n] = IF n = m THEN Own(t, m, mx[m].hold + 1) ELSE mx[n]
  BY <1>1, <1>2
<1>5. mx'[m].owner = t /\ mx'[m].orig = k.prio[t] /\ \A n \in Mutex \ {m} : mx'[n] = mx[n]
  BY <1>4 DEF Own
<1>6. \A n : \A u : Waiting(u, n)' <=> Waiting(u, n)
  BY <1>3 DEF Waiting
<1>7. \A u \in Thread : ~Waiting(u, m)
  BY <1>1 DEF LendInv, PriorityInherited
<1>8. ASSUME NEW n \in Mutex PROVE mx[n].owner # t
  BY <1>1, <1>2, <1>5 DEF OneMutexEach, Holds
<1>9. k.prio[t] = InitPrio[t]
  BY <1>8 DEF LendInv, PriorityInherited
<1>10. ASSUME NEW n \in Mutex
       PROVE  /\ mx'[n].owner # Nobody => mx'[n].orig = InitPrio[mx'[n].owner]
              /\ mx'[n].owner \notin Elems(k'.wait[n])
              /\ InOrder(k'.wait[n], InitPrio)
  BY <1>3, <1>5, <1>7, <1>9 DEF LendInv, Waiting
<1>11. PriorityInherited'
  <2>1. ASSUME NEW n \in Mutex \ unmade, NEW u \in Thread, Waiting(u, n)
        PROVE  mx'[n].owner # Nobody /\ k.prio[mx'[n].owner] <= k.prio[u]
    BY <1>5, <1>7, <2>1 DEF LendInv, PriorityInherited
  <2>2. ASSUME NEW u \in Thread, \A n \in Mutex : mx'[n].owner # u
        PROVE  k.prio[u] = InitPrio[u]
    <3>1. \A n \in Mutex : mx[n].owner # u
      BY <1>1, <1>2, <1>5, <2>2, MutexAssumption
    <3> QED BY <3>1 DEF LendInv, PriorityInherited
  <2> QED BY <1>1, <1>3, <1>6, <2>1, <2>2 DEF PriorityInherited
<1> QED BY <1>10, <1>11 DEF LendInv, Waiting

(* The caller waits: the owner runs at its priority if that is higher. *)
LEMMA BoostedPrio ==
    ASSUME ObjCallInv, Patient, MutexSafe, NEW t \in Thread, NEW m \in Mutex, Busy(t, m)
    PROVE  LET x == Boost(Cleared(t), t, m)
               o == mx[m].owner
           IN  /\ o \in Thread /\ o # t /\ x.wait = k.wait
               /\ x.prio = [k.prio EXCEPT ![o] = IF k.prio[t] < k.prio[o] THEN k.prio[t] ELSE k.prio[o]]
<1> DEFINE e == Cleared(t)
           x == Boost(e, t, m)
           o == mx[m].owner
<1>1. o \in Thread /\ o # t /\ k \in Kernel /\ Fit(k, Base(k, isr))
  BY NowWaiting, OwnerIs DEF ObjCallInv, Busy
<1>2. e.wait = k.wait /\ e.prio = k.prio /\ Sound(e) /\ k.prio[t] \in Prio
  <2>1. e.wait = k.wait /\ e.prio = k.prio /\ e.stat = k.stat
    BY DEF Cleared
  <2>2. k.prio[t] \in Prio /\ Sound(k) /\ k.err \in [Thread -> Err]
    BY <1>1 DEF Kernel, Fit
  <2>3. /\ e \in Kernel /\ SameSwitch(e, k) /\ SameClock(e, k) /\ e.lock = k.lock
        /\ e.rq = k.rq /\ e.grp = k.grp /\ e.wait = k.wait /\ e.dead = k.dead /\ e.stat = k.stat
        /\ e.prio = k.prio /\ e.act = k.act /\ e.tmr = k.tmr /\ e.bad = k.bad
    BY <1>1, <2>2 DEF Kernel, Err, SameSwitch, SameClock, Cleared
  <2> HIDE DEF e
  <2>4. Sound(e)
    BY <2>2, <2>3, SameListsFacts DEF Sound
  <2> QED BY <2>1, <2>2, <2>4
<1>3. CASE k.prio[t] < k.prio[o]
  <2>1. x = ChangePriority(e, o, k.prio[t])
    BY <1>2, <1>3 DEF Boost
  <2> HIDE DEF e, x, o
  <2>2. x.wait = e.wait /\ x.prio = [e.prio EXCEPT ![o] = k.prio[t]]
    BY <1>1, <1>2, <2>1, ChangePriorityRest
  <2> QED BY <1>1, <1>2, <1>3, <2>2 DEF x, o, e
<1>4. CASE ~(k.prio[t] < k.prio[o])
  <2>1. x = e
    BY <1>2, <1>4 DEF Boost
  <2>2. [k.prio EXCEPT ![o] = k.prio[o]] = k.prio
    BY <1>1 DEF Kernel
  <2> QED BY <1>1, <1>2, <1>4, <2>1, <2>2
<1> QED BY <1>3, <1>4

LEMMA TakeWaitLends ==
    ASSUME ObjCallInv, Patient, MutexSafe, LendInv, OneMutexEach, OneMutexEach',
           NEW t \in Thread, NEW m \in Mutex, NEW n \in app.timeouts[t], MutexTakeWait(t, m, n)
    PROVE  LendInv'
<1> DEFINE x == Boost(Cleared(t), t, m)
           p == IF k.prio[t] < k.prio[mx[m].owner] THEN k.prio[t] ELSE k.prio[mx[m].owner]
<1>0. PICK o : o = mx[m].owner
  OBVIOUS
<1>1. /\ Asks(t, "mutex_take") /\ Busy(t, m) /\ mx' = mx /\ unmade' = unmade /\ m \notin unmade
      /\ k' = Block(x, t, m, n)
  BY DEF MutexTakeWait, mutexVars
<1>2. /\ At(t, "user") /\ t # Idle /\ k.cur = t /\ k.stat[t] = "running" /\ Base(k, isr) = k.tick
      /\ n \in Times \cup {Forever}
  <2>1. At(t, "user") /\ t # Idle /\ k.cur = t /\ k.stat[t] = "running"
    BY <1>1, Asker
  <2> QED BY <2>1, CallerRuns, TimesGiven DEF ObjCallInv, Base, About
<1>3. /\ m \in Obj /\ k.wait[m] \in Seq(Thread) /\ \A u \in Elems(k.wait[m]) : u \in Thread
      /\ k \in Kernel /\ k.prio \in [Thread -> Int] /\ InitPrio \in [Thread -> Int]
  BY MutexWaiters
<1>4. /\ o \in Thread /\ o # t /\ x.wait = k.wait /\ x.prio = [k.prio EXCEPT ![o] = p]
      /\ SameButPrio(x, k) /\ p \in Int /\ p <= k.prio[t] /\ p <= k.prio[o]
      /\ Passes({}, {}, {m})
  <2>1. o \in Thread /\ o # t /\ x.wait = k.wait /\ x.prio = [k.prio EXCEPT ![o] = p]
    BY <1>0, <1>1, BoostedPrio
  <2>2. SameButPrio(x, k)
    BY <1>1, <1>2, BoostIsPrio
  <2>3. p \in Int /\ p <= k.prio[t] /\ p <= k.prio[o]
    BY <1>0, <1>3, <2>1
  <2> QED BY <2>1, <2>2, <2>3, MutexWaitTurn
<1> HIDE DEF x, p
<1>5. BlockedIn(k', x, t, m, n)
  <2>1. Fit(x, x.tick) /\ x.cur = t /\ x.stat[t] = "running"
    BY <1>2, <1>4 DEF SameButPrio, SameSwitch, Handled
  <2> QED BY <1>1, <1>2, <1>3, <2>1, BlockServes
<1>6. /\ k'.prio = x.prio /\ Elems(k'.wait[m]) = Elems(k.wait[m]) \cup {t}
      /\ \A l \in Obj \ {m} : k'.wait[l] = k.wait[l]
  BY <1>4, <1>5 DEF BlockedIn, Parked, Attended
<1>7. \A u \in Thread : x.prio[u] = IF u = o THEN p ELSE k.prio[u]
  BY <1>3, <1>4
<1>8. /\ \A u : Waiting(u, m)' <=> (Waiting(u, m) \/ u = t)
      /\ \A l \in Mutex \ {m} : \A u : Waiting(u, l)' <=> Waiting(u, l)
  BY <1>6, ObjectListsApart DEF Waiting
<1>9. \A l \in Mutex : mx[l].owner # t
  <2>1. SUFFICES ASSUME NEW l \in Mutex, mx[l].owner = t PROVE FALSE
    OBVIOUS
  <2>2. Holds(t, m)' /\ Holds(t, l)'
    BY <1>1, <1>8, <2>1 DEF Holds
  <2>3. l = m
    BY <2>2 DEF OneMutexEach
  <2> QED BY <1>0, <1>4, <2>1, <2>3
<1>10. k.prio[t] = InitPrio[t]
  BY <1>9 DEF LendInv, PriorityInherited
<1>11. ASSUME NEW u \in Elems(k.wait[m])
       PROVE  u # o /\ u \in Thread /\ k.prio[u] = InitPrio[u] /\ (\A l \in Mutex : mx[l].owner # u)
  <2>1. u \in Thread /\ Waiting(u, m)
    BY <1>3 DEF Waiting
  <2> QED BY <1>0, <2>1, WaiterOwnsNothing
<1>12. InOrder(k'.wait[m], InitPrio)
  <2>1. InOrder(k.wait[m], InitPrio)
    BY DEF LendInv
  <2>2. \A u \in Elems(k.wait[m]) \cup {t} : x.prio[u] = InitPrio[u] /\ u \in Thread
    BY <1>4, <1>7, <1>10, <1>11
  <2>3. PICK i \in 0..Len(k.wait[m]) :
           /\ k'.wait[m] = LinkAfter(k.wait[m], i, t)
           /\ \A j \in 1..i : x.prio[k.wait[m][j]] <= x.prio[t]
           /\ i < Len(k.wait[m]) => x.prio[t] < x.prio[k.wait[m][i + 1]]
    <3>1. Flag[m] # "fifo"
      BY MutexAssumption
    <3> QED BY <1>4, <1>5, <3>1 DEF BlockedIn
  <2>4. /\ \A j \in 1..Len(k.wait[m]) : k.wait[m][j] \in Elems(k.wait[m])
        /\ Len(k.wait[m]) \in Nat
    BY <1>3 DEF Elems
  <2>5. /\ \A j \in 1..i : InitPrio[k.wait[m][j]] <= InitPrio[t]
        /\ i < Len(k.wait[m]) => InitPrio[t] <= InitPrio[k.wait[m][i + 1]]
    <3>1. \A j \in 1..i : InitPrio[k.wait[m][j]] <= InitPrio[t]
      <4>1. ASSUME NEW j \in 1..i PROVE k.wait[m][j] \in Elems(k.wait[m])
        BY <2>3, <2>4
      <4> QED BY <2>2, <2>3, <4>1
    <3>2. ASSUME i < Len(k.wait[m]) PROVE InitPrio[t] <= InitPrio[k.wait[m][i + 1]]
      <4>1. i + 1 \in 1..Len(k.wait[m])
        BY <2>4, <3>2
      <4>2. k.wait[m][i + 1] \in Elems(k.wait[m])
        BY <2>4, <4>1
      <4>3. InitPrio[t] < InitPrio[k.wait[m][i + 1]]
        BY <2>2, <2>3, <3>2, <4>2
      <4>4. InitPrio[t] \in Int /\ InitPrio[k.wait[m][i + 1]] \in Int
        BY <1>3, <4>2
      <4> QED BY <4>3, <4>4
    <3> QED BY <3>1, <3>2
  <2>6. PICK w \in Seq(Thread) : w = k.wait[m]
    BY <1>3
  <2>7. InOrder(LinkAfter(w, i, t), InitPrio)
    <3>1. /\ i \in 0..Len(w) /\ InOrder(w, InitPrio) /\ InitPrio \in [Thread -> Int]
          /\ \A j \in 1..i : InitPrio[w[j]] <= InitPrio[t]
          /\ i < Len(w) => InitPrio[t] <= InitPrio[w[i + 1]]
      BY <1>3, <2>1, <2>5, <2>6
    <3> QED BY <3>1, LinkAfterInOrder
  <2> QED BY <2>3, <2>6, <2>7
<1>13. ASSUME NEW l \in Mutex
       PROVE  /\ mx[l].owner # Nobody => mx[l].orig = InitPrio[mx[l].owner]
              /\ mx[l].owner \notin Elems(k'.wait[l])
              /\ InOrder(k'.wait[l], InitPrio)
  <2>1. /\ mx[l].owner # Nobody => mx[l].orig = InitPrio[mx[l].owner]
        /\ mx[l].owner \notin Elems(k.wait[l]) /\ InOrder(k.wait[l], InitPrio) /\ l \in Obj
    BY ObjectListsApart DEF LendInv, Waiting
  <2>2. CASE l = m
    BY <1>0, <1>4, <1>6, <1>12, <2>1, <2>2
  <2>3. CASE l # m
    BY <1>6, <2>1, <2>3
  <2> QED BY <2>2, <2>3
<1>14. ASSUME NEW l \in Mutex \ unmade, NEW u \in Thread, Waiting(u, l)'
       PROVE  mx[l].owner # Nobody /\ k'.prio[mx[l].owner] <= k'.prio[u]
  <2>0. o # Nobody
    BY <1>4, MutexAssumption
  <2>1. CASE l = m /\ u = t
    BY <1>0, <1>4, <1>6, <1>7, <2>0, <2>1
  <2>2. CASE l = m /\ u # t
    <3>1. Waiting(u, m) /\ u \in Elems(k.wait[m])
      BY <1>8, <1>14, <2>2 DEF Waiting
    <3>2. k.prio[o] <= k.prio[u] /\ u # o
      BY <1>0, <1>11, <2>2, <3>1 DEF LendInv, PriorityInherited
    <3>3. k.prio[o] \in Int /\ k.prio[u] \in Int
      BY <1>3, <1>4
    <3>4. k'.prio[o] = p /\ k'.prio[u] = k.prio[u]
      BY <1>4, <1>6, <1>7, <3>2
    <3>5. p <= k.prio[u]
      BY <1>4, <3>2, <3>3
    <3> QED BY <1>0, <2>0, <2>2, <3>4, <3>5
  <2>3. CASE l # m
    <3>1. Waiting(u, l)
      BY <1>8, <1>14, <2>3
    <3>2. u # o
      BY <1>0, <2>3, <3>1 DEF OneMutexEach, Holds
    <3>3. PICK q : q = mx[l].owner
      OBVIOUS
    <3>4. q # Nobody /\ k.prio[q] <= k.prio[u] /\ q \in Thread
      <4>1. q \in Thread \cup {Nobody}
        BY <3>3, OwnerIs DEF MutexState
      <4> QED BY <3>1, <3>3, <4>1 DEF LendInv, PriorityInherited
    <3>5. k'.prio[q] = (IF q = o THEN p ELSE k.prio[q]) /\ k'.prio[u] = k.prio[u]
      BY <1>6, <1>7, <3>2, <3>4
    <3>6. k.prio[q] \in Int /\ k.prio[u] \in Int
      BY <1>3, <3>4
    <3>7. k'.prio[q] <= k'.prio[u]
      BY <1>4, <3>4, <3>5, <3>6
    <3> QED BY <3>3, <3>4, <3>7
  <2> QED BY <2>1, <2>2, <2>3
<1>15. ASSUME NEW u \in Thread, \A l \in Mutex : mx[l].owner # u
       PROVE  k'.prio[u] = InitPrio[u]
  <2>1. u # o /\ k.prio[u] = InitPrio[u]
    BY <1>0, <1>15 DEF LendInv, PriorityInherited
  <2> QED BY <1>6, <1>7, <2>1
<1>16. PriorityInherited'
  BY <1>1, <1>14, <1>15 DEF PriorityInherited
<1>17. ASSUME NEW l \in Mutex
       PROVE  /\ mx'[l].owner # Nobody => mx'[l].orig = InitPrio[mx'[l].owner]
              /\ mx'[l].owner \notin Elems(k'.wait[l])
              /\ InOrder(k'.wait[l], InitPrio)
  BY <1>1, <1>13
<1> QED BY <1>16, <1>17 DEF LendInv, Waiting

(* The last release: the first waiter has the highest priority of those who  *)
(* wait and owns nothing else.                                               *)
LEMMA RestoredPrio ==
    ASSUME ObjCallInv, Patient, MutexSafe, LendInv, NEW t \in Thread, NEW m \in Mutex, mx[m].owner = t
    PROVE  LET r == WakeFirst(Restored(t, m), m)
           IN  r.prio = [k.prio EXCEPT ![t] = InitPrio[t]]
<1> DEFINE r == Restored(t, m)
           h == Head(k.wait[m])
<1>1. /\ Fit(k, Base(k, isr)) /\ Sound(k) /\ k \in Kernel /\ m \in Obj /\ k.wait[m] \in Seq(Thread)
  BY NowWaiting, MutexWaiters DEF ObjCallInv, Fit
<1>2. mx[m].orig = InitPrio[t] /\ mx[m].orig \in Prio
  <2>1. mx[m].owner # Nobody
    BY MutexAssumption
  <2> QED BY <2>1, OwnerIs DEF LendInv
<1>3. /\ Fit(r, Base(k, isr)) /\ r.stat = k.stat /\ r.wait = k.wait /\ r.err = k.err
      /\ r.prio = [k.prio EXCEPT ![t] = InitPrio[t]]
  <2>1. CASE mx[m].orig # k.prio[t]
    <3>1. r = ChangePriority(k, t, mx[m].orig)
      BY <2>1 DEF Restored
    <3> HIDE DEF r
    <3>2. Fit(r, Base(k, isr)) /\ r.stat = k.stat /\ r.wait = k.wait /\ r.err = k.err
      BY <1>1, <1>2, <3>1, PriorityMoves
    <3>3. r.prio = [k.prio EXCEPT ![t] = mx[m].orig]
      BY <1>1, <1>2, <3>1, ChangePriorityRest
    <3> QED BY <1>2, <3>2, <3>3
  <2>2. CASE mx[m].orig = k.prio[t]
    <3>1. r = k
      BY <2>2 DEF Restored
    <3>2. [k.prio EXCEPT ![t] = InitPrio[t]] = k.prio
      BY <1>1, <1>2, <2>2 DEF Kernel
    <3> QED BY <1>1, <3>1, <3>2
  <2> QED BY <2>1, <2>2
<1> HIDE DEF r
<1>4. CASE k.wait[m] = <<>>
  BY <1>3, <1>4 DEF WakeFirst, r
<1>5. CASE k.wait[m] # <<>>
  <2>1. h \in Elems(k.wait[m]) /\ h \in Thread
    BY <1>1, <1>5, HeadElem
  <2>2. r.stat[h] = "suspend" /\ r.err[h] = "ok"
    BY <1>1, <1>3, <2>1, WaiterFits
  <2>3. WakeFirst(r, m) = Resume(r, h)
    BY <1>3, <1>5 DEF WakeFirst
  <2> HIDE DEF h
  <2>4. WokenIn(Resume(r, h), r, h, "ok", Base(k, isr))
    BY <1>3, <2>1, <2>2, ResumeServes
  <2> QED BY <1>3, <2>3, <2>4 DEF WokenIn, Attended, r
<1> QED BY <1>4, <1>5

LEMMA ReleaseLends ==
    ASSUME ObjCallInv, Patient, MutexSafe, LendInv, OneMutexEach,
           NEW t \in Thread, NEW m \in Mutex, MutexRelease(t, m)
    PROVE  LendInv'
<1> DEFINE b == IF k.wait[m] = <<>> THEN Free ELSE Own(Head(k.wait[m]), m, 1)
           x == WakeFirst(Restored(t, m), m)
<1>0. PICK h : h = Head(k.wait[m])
  OBVIOUS
<1>1. /\ mx[m].owner = t /\ mx' = [mx EXCEPT ![m] = b] /\ k' = x /\ unmade' = unmade
      /\ mx \in [Mutex -> MutexState] /\ Nobody \notin Thread
  BY MutexAssumption DEF MutexRelease, MutexSafe
<1>2. /\ m \in Obj /\ k.wait[m] \in Seq(Thread) /\ \A u \in Elems(k.wait[m]) : u \in Thread
      /\ k \in Kernel /\ k.prio \in [Thread -> Int] /\ InitPrio \in [Thread -> Int]
  BY MutexWaiters
<1>3. /\ Quits(k', k, First(k, m), Base(k, isr)) /\ k'.prio = [k.prio EXCEPT ![t] = InitPrio[t]]
  BY <1>1, ReleaseQuits, RestoredPrio
<1>4. \A u \in Thread : k'.prio[u] = IF u = t THEN InitPrio[t] ELSE k.prio[u]
  BY <1>2, <1>3
<1>5. ASSUME NEW l \in Mutex
      PROVE  /\ \A u : Waiting(u, l)' => Waiting(u, l) /\ u \notin First(k, m)
             /\ InOrder(k.wait[l], InitPrio) => InOrder(k'.wait[l], InitPrio)
  BY <1>3, ObjectListsApart DEF Quits, Thins, Waiting
<1>6. b.owner = (IF k.wait[m] = <<>> THEN Nobody ELSE h)
      /\ (k.wait[m] # <<>> => b.orig = k.prio[h])
  BY <1>0 DEF Free, Own
<1> HIDE DEF b, x
<1>7. \A l \in Mutex : mx'[l] = IF l = m THEN b ELSE mx[l]
  BY <1>1
<1>8. ASSUME NEW u \in Elems(k.wait[m])
      PROVE  u # t /\ u \in Thread /\ k.prio[u] = InitPrio[u] /\ (\A l \in Mutex : mx[l].owner # u)
  <2>1. u \in Thread /\ Waiting(u, m)
    BY <1>2 DEF Waiting
  <2> QED BY <1>1, <2>1, WaiterOwnsNothing
<1>9. k.wait[m] # <<>> => /\ h \in Elems(k.wait[m]) /\ First(k, m) = {h}
                          /\ \A u \in Elems(k.wait[m]) : InitPrio[h] <= InitPrio[u]
  <2>1. InOrder(k.wait[m], InitPrio)
    BY DEF LendInv
  <2> QED BY <1>0, <1>2, <2>1, HeadElem, InOrderHead DEF First
<1>10. \A l \in Mutex \ {m} : mx[l].owner # t /\ ~Waiting(t, l)
  BY <1>1 DEF OneMutexEach, Holds
<1>11. ASSUME NEW l \in Mutex
       PROVE  /\ mx'[l].owner # Nobody => mx'[l].orig = InitPrio[mx'[l].owner]
              /\ mx'[l].owner \notin Elems(k'.wait[l])
              /\ InOrder(k'.wait[l], InitPrio)
  <2>1. InOrder(k'.wait[l], InitPrio)
    BY <1>5 DEF LendInv
  <2>2. CASE l # m
    BY <1>5, <1>7, <2>1, <2>2 DEF LendInv, Waiting
  <2>3. CASE l = m
    <3>1. CASE k.wait[m] = <<>>
      <4>1. Elems(k'.wait[m]) = {}
        <5>1. Elems(k.wait[m]) = {}
          BY <3>1 DEF Elems
        <5> QED BY <1>5, <5>1 DEF Waiting
      <4> QED BY <1>6, <1>7, <2>1, <2>3, <3>1, <4>1
    <3>2. CASE k.wait[m] # <<>>
      <4>1. h \notin Elems(k'.wait[m])
        BY <1>5, <1>9, <3>2 DEF Waiting
      <4>2. k.prio[h] = InitPrio[h]
        BY <1>8, <1>9, <3>2
      <4> QED BY <1>6, <1>7, <2>1, <2>3, <3>2, <4>1, <4>2
    <3> QED BY <3>1, <3>2
  <2> QED BY <2>2, <2>3
<1>12. ASSUME NEW l \in Mutex \ unmade, NEW u \in Thread, Waiting(u, l)'
       PROVE  mx'[l].owner # Nobody /\ k'.prio[mx'[l].owner] <= k'.prio[u]
  <2>1. Waiting(u, l)
    BY <1>5, <1>12
  <2>2. CASE l # m
    <3>1. PICK q : q = mx[l].owner
      OBVIOUS
    <3>2. q # Nobody /\ k.prio[q] <= k.prio[u] /\ q \in Thread
      <4>1. q \in Thread \cup {Nobody}
        BY <3>1, OwnerIs DEF MutexState
      <4> QED BY <2>1, <3>1, <4>1 DEF LendInv, PriorityInherited
    <3>3. q # t /\ u # t
      BY <1>10, <2>1, <2>2, <3>1
    <3> QED BY <1>4, <1>7, <2>2, <3>1, <3>2, <3>3
  <2>3. CASE l = m
    <3>1. u \in Elems(k.wait[m]) /\ k.wait[m] # <<>>
      BY <2>1, <2>3 DEF Waiting, Elems
    <3>2. h # t /\ h \in Thread /\ k.prio[h] = InitPrio[h] /\ InitPrio[h] <= InitPrio[u]
      BY <1>8, <1>9, <3>1
    <3>3. u # t /\ k.prio[u] = InitPrio[u]
      BY <1>8, <3>1
    <3>4. mx'[l].owner = h
      BY <1>6, <1>7, <2>3, <3>1
    <3> QED BY <1>1, <1>4, <3>2, <3>3, <3>4
  <2> QED BY <2>2, <2>3
<1>13. ASSUME NEW u \in Thread, \A l \in Mutex : mx'[l].owner # u
       PROVE  k'.prio[u] = InitPrio[u]
  <2>1. CASE u = t
    BY <1>4, <2>1
  <2>2. CASE u # t
    <3>1. \A l \in Mutex : mx[l].owner # u
      BY <1>1, <1>7, <1>13, <2>2
    <3> QED BY <1>4, <2>2, <3>1 DEF LendInv, PriorityInherited
  <2> QED BY <2>1, <2>2
<1>14. PriorityInherited'
  BY <1>1, <1>12, <1>13 DEF PriorityInherited
<1> QED BY <1>11, <1>14 DEF LendInv, Waiting

(* All steps. *)
LEMMA StepLends ==
    ASSUME ObjSafe, ObjCallInv, Patient, LendInv, OneMutexEach, OneMutexEach', prog.prio = {}, ObjectsNext
    PROVE  LendInv'
<1>1. MqInv' /\ PoolInv'
  BY EveryStepGood, EveryStepKeepsPools DEF ObjSafe, MqGood
<1>2. EventNow /\ MqNow /\ PoolNow /\ MutexSafe
  BY <1>1 DEF ObjSafe, EventNow, MqNow, PoolNow
<1>3. CASE Lends
  BY <1>2, <1>3, TakeWaitLends, ReleaseLends DEF Lends
<1>4. CASE ~Lends
  <2> DEFINE E == {}
  <2>1. ASSUME NEW J, NEW L, NEW X, Passes(J, L, X), X \cap Mutex = {}, unmade \subseteq unmade',
               \A m \in Mutex : mx'[m].owner = mx[m].owner /\ mx'[m].orig = mx[m].orig
        PROVE  LendInv'
    <3>1. Shrinks(X) /\ k'.prio = k.prio
      BY <1>4, <2>1 DEF Passes, Lent
    <3> QED BY <2>1, <3>1, LendKept
  <2>2. ASSUME Passes({}, {}, {}), unmade \subseteq unmade',
               \A m \in Mutex : mx'[m].owner = mx[m].owner /\ mx'[m].orig = mx[m].orig
        PROVE  LendInv'
    <3>1. Passes(E, E, E) /\ E \cap Mutex = {}
      BY <2>2
    <3> HIDE DEF E
    <3> QED BY <2>1, <2>2, <3>1
  <2>3. ASSUME NEW J, NEW L, NEW X, NEW C, NEW O, Confined(J, L, X, C, O), O \cap Mutex = {},
               UNCHANGED mutexVars
        PROVE  LendInv'
    <3>1. Passes(J, L, X) /\ X \cap Mutex = {} /\ mx' = mx /\ unmade' = unmade
      BY <2>3 DEF Confined, mutexVars
    <3> QED BY <2>1, <3>1
  <2>4. CASE Next /\ UNCHANGED <<waitVars, mutexVars>> /\ OnlyMutexes
    <3>1. Passes({}, {}, {}) /\ mx' = mx /\ unmade' = unmade
      BY <2>4, NextPass DEF mutexVars
    <3> QED BY <2>2, <3>1
  <2>5. ASSUME NEW t \in Thread, WaitStep(t), UNCHANGED mutexVars PROVE LendInv'
    <3>1. Passes({}, {}, {}) /\ mx' = mx /\ unmade' = unmade
      BY <2>5, WaitPass DEF mutexVars
    <3> QED BY <2>2, <3>1
  <2>6. ASSUME NEW t \in Thread, MutexStep(t) PROVE LendInv'
    <3>1. ASSUME NEW m \in Mutex, MutexTakeFree(t, m) PROVE LendInv'
      BY <1>2, <3>1, TakeFreeLends
    <3>2. ASSUME NEW m \in Mutex, MutexTakeAgain(t, m) \/ MutexReleaseInner(t, m) PROVE LendInv'
      <4>1. Passes({}, {}, {})
        BY <1>2, <3>2, MutexTakeTurn
      <4>2. unmade' = unmade /\ (mx' = mx \/ \E n : mx' = [mx EXCEPT ![m].hold = n])
        BY <3>2 DEF MutexTakeAgain, MutexReleaseInner
      <4>3. mx \in [Mutex -> MutexState]
        BY <1>2 DEF MutexSafe
      <4>4. \A l \in Mutex : mx'[l].owner = mx[l].owner /\ mx'[l].orig = mx[l].orig
        BY <4>2, <4>3 DEF MutexState
      <4> QED BY <2>2, <4>1, <4>2, <4>4
    <3>3. ASSUME NEW m \in Mutex, MutexTakeRefused(t, m) \/ MutexReleaseRefused(t, m) PROVE LendInv'
      <4>1. Passes({}, {}, {})
        BY <1>2, <3>3, MutexRefusedTurn
      <4>2. unmade' = unmade /\ mx' = mx
        BY <3>3 DEF MutexTakeRefused, MutexReleaseRefused, mutexVars
      <4> QED BY <2>2, <4>1, <4>2
    <3>4. ASSUME NEW m \in Mutex, NEW n \in app.timeouts[t], MutexTakeWait(t, m, n) PROVE LendInv'
      BY <1>4, <3>4 DEF Lends
    <3>5. ASSUME NEW m \in Mutex, MutexRelease(t, m) PROVE LendInv'
      BY <1>4, <3>5 DEF Lends
    <3>6. CASE MutexTaken(t)
      <4> DEFINE T == {t}
      <4>1. Passes(E, T, E) /\ unmade' = unmade /\ mx' = mx /\ E \cap Mutex = {}
        BY <1>2, <3>6, MutexTakenTurn DEF MutexTaken
      <4> HIDE DEF E, T
      <4> QED BY <2>1, <4>1
    <3>7. CASE MutexDetached(t) \/ \E m \in Mutex : MutexDetach(t, m)
      <4>1. Passes({}, {}, {})
        BY <1>2, <3>7, MutexDetachTurn
      <4>2. unmade \subseteq unmade' /\ mx' = mx
        BY <3>7 DEF MutexDetach, MutexDetached, mutexVars
      <4> QED BY <2>2, <4>1, <4>2
    <3> QED BY <2>6, <3>1, <3>2, <3>3, <3>4, <3>5, <3>6, <3>7 DEF MutexStep
  <2>7. ASSUME NEW t \in Thread, EventStep(t), OnlyEvents PROVE LendInv'
    <3>1. PICK J, L, X : Confined(J, L, X, {"event_recv"}, Event)
      BY <1>2, <2>7, EventTurns DEF EventTurn
    <3> QED BY <2>3, <2>7, <3>1, ObjectListsApart DEF OnlyEvents
  <2>8. ASSUME NEW t \in Thread, MqStep(t), OnlyQueues PROVE LendInv'
    <3>1. PICK J, L, X : Confined(J, L, X, MqCall, MqSide)
      BY <1>2, <2>8, MqTurns DEF MqTurn
    <3>2. MqSide \cap Mutex = {}
      BY ObjectListsApart DEF MqSide
    <3> QED BY <2>3, <2>8, <3>1, <3>2 DEF OnlyQueues
  <2>9. ASSUME NEW t \in Thread, PoolStep(t), OnlyPools PROVE LendInv'
    <3>1. PICK J, L, X : Confined(J, L, X, PoolCall, Pool)
      BY <1>2, <2>9, PoolTurns DEF PoolTurn
    <3> QED BY <2>3, <2>9, <3>1, ObjectListsApart DEF OnlyPools
  <2>10. CASE ObjectsDevice
    <3>1. ASSUME NEW e \in Event, NEW set \in Sent, DeviceEventSend(e, set), OnlyEvents PROVE LendInv'
      <4> DEFINE D == {"event_recv"}
      <4>1. PICK J : Confined(J, E, E, D, Event)
        BY <1>2, <3>1, DeviceEventTurn DEF EventTurn
      <4> HIDE DEF E, D
      <4> QED BY <2>3, <3>1, <4>1, ObjectListsApart DEF OnlyEvents
    <3>2. ASSUME NEW q \in Mq, NEW v \in app.mails, DeviceMqSend(q, v), OnlyQueues PROVE LendInv'
      <4>1. Confined(First(k, q), E, E, MqCall, MqSide)
        BY <1>2, <3>2, DeviceMqTurn DEF MqTurn
      <4>2. MqSide \cap Mutex = {}
        BY ObjectListsApart DEF MqSide
      <4> HIDE DEF E
      <4> QED BY <2>3, <3>2, <4>1, <4>2 DEF OnlyQueues
    <3>3. ASSUME NEW p \in Pool, NEW b \in out[p], DeviceFree(p, b), OnlyPools PROVE LendInv'
      <4>1. Confined(First(k, p), E, E, PoolCall, Pool)
        BY <1>2, <3>3, DevicePoolTurn DEF PoolTurn
      <4> HIDE DEF E
      <4> QED BY <2>3, <3>3, <4>1, ObjectListsApart DEF OnlyPools
    <3> QED BY <2>10, <3>1, <3>2, <3>3 DEF ObjectsDevice
  <2> QED BY <2>4, <2>5, <2>6, <2>7, <2>8, <2>9, <2>10 DEF ObjectsNext
<1> QED BY <1>3, <1>4

LEMMA InitLends == ASSUME ObjectsInit PROVE LendInv
<1>1. \A m \in Mutex : k.wait[m] = <<>> /\ mx[m].owner = Nobody
  BY ObjectListsApart DEF ObjectsInit, Init, MutexInitState, Free
<1>2. k.prio = InitPrio
  BY DEF ObjectsInit, Init
<1>3. \A m \in Mutex : (\A u : ~Waiting(u, m)) /\ InOrder(k.wait[m], InitPrio)
  BY <1>1 DEF Waiting, Elems, InOrder
<1> QED BY <1>1, <1>2, <1>3 DEF LendInv, PriorityInherited

(* While every thread has to do with one mutex at a time, the owner of a     *)
(* mutex runs at least at the priority of every thread that waits for it,    *)
(* and a thread that owns none at its own, however many threads take,        *)
(* release and detach mutexes, time out and are woken (rt_mutex_take,        *)
(* rt_mutex_release).                                                        *)
THEOREM PriorityIsInherited ==
    ASSUME Patient, PrioritiesFixed
    PROVE  ObjectsSpec /\ []OneMutexEach => []PriorityInherited
<1>1. ObjectsInit => ObjInv /\ LendInv
  BY InitObjInv, InitLends
<1>2. ObjInv /\ [ObjectsNext]_objectVars => ObjInv'
  BY NextObjInv
<1>3. ObjInv /\ LendInv /\ OneMutexEach /\ OneMutexEach' /\ [ObjectsNext]_objectVars => LendInv'
  <2>1. CASE UNCHANGED objectVars
    <3>1. k' = k /\ mx' = mx /\ unmade' = unmade
      BY <2>1 DEF objectVars, vars, mutexVars
    <3> QED BY <3>1 DEF LendInv, PriorityInherited, Waiting
  <2>2. ASSUME ObjInv, LendInv, OneMutexEach, OneMutexEach', ObjectsNext PROVE LendInv'
    <3>1. ObjCallInv /\ ObjSafe
      BY <2>2, ObjectsHalted DEF ObjInv
    <3>2. prog.prio = {}
      BY <3>1, NowWaiting DEF ObjCallInv, PrioritiesFixed
    <3> QED BY <2>2, <3>1, <3>2, StepLends
  <2> QED BY <2>1, <2>2
<1>4. LendInv => PriorityInherited
  BY DEF LendInv
<1> QED BY <1>1, <1>2, <1>3, <1>4, PTL DEF ObjectsSpec
=============================================================================
