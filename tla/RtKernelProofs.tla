--------------------------- MODULE RtKernelProofs ---------------------------
(***************************************************************************)
(* Theorems about RtThread and RtIpc, for every number of threads,         *)
(* priorities, timers, objects and mails, every size of a mailbox and      *)
(* every timeout.  First what the kernel keeps, for applications in which  *)
(* a thread that may exit is resumed by nobody and no thread deletes       *)
(* another: the two uses of the interface that RtThreadDelete.cfg and the  *)
(* comments of RtThread show to break the queues.  Then what semaphores    *)
(* and mailboxes promise.                                                  *)
(***************************************************************************)
EXTENDS RtIpc, ListsProofs

-----------------------------------------------------------------------------
(***************************************************************************)
(* What the operators of RtKernel preserve.  A kernel state is sound when   *)
(* its queues, wait lists, defunct list, timer list and priority group all  *)
(* describe the stat of the threads.  A function that moves a thread takes  *)
(* it out of its list first and links it again later: in between the state  *)
(* is sound but for that thread, which is in no list.                       *)
(***************************************************************************)

(* U is the set of the threads that are being moved. *)
Queues(x, U) ==
    /\ \A p \in Prio : IsOnce(x.rq[p])
    /\ \A t \in Thread, p \in Prio :
          t \in Elems(x.rq[p]) <=> t \notin U /\ x.stat[t] = "ready" /\ x.prio[t] = p

Waits(x, U) ==
    /\ \A o \in Obj : IsOnce(x.wait[o])
    /\ \A t \in Thread, o \in Obj : t \in Elems(x.wait[o]) => t \notin U /\ x.stat[t] = "suspend"

Defunct(x, U) ==
    /\ IsOnce(x.dead)
    /\ \A t \in Elems(x.dead) : t \notin U /\ x.stat[t] = "close"

Timers(x, U) ==
    /\ IsOnce(x.tmr)
    /\ \A t \in Thread : t \in Elems(x.tmr) <=> x.act[t]
    /\ \A t \in Thread \ U : x.act[t] => x.stat[t] = "suspend"

(* The bit of the priority of a thread being moved may be set for nothing. *)
Group(x, U) ==
    /\ \A p \in Prio : x.rq[p] # <<>> => p \in x.grp
    /\ \A p \in x.grp : x.rq[p] = <<>> => \E u \in U : x.prio[u] = p

SoundBut(x, U) == /\ x \in Kernel /\ ~x.bad
                  /\ Queues(x, U) /\ Waits(x, U) /\ Defunct(x, U) /\ Timers(x, U)

Sound(x) == SoundBut(x, {}) /\ Group(x, {})

(* No thread but the current one is RUNNING, and that one is not in a queue. *)
CurrentRuns(x) == /\ x.stat[x.cur] \notin {"init", "ready"}
                  /\ \A t \in Thread : x.stat[t] = "running" => t = x.cur

(* r differs from x only in what lists and timers hold. *)
SameSwitch(r, x) == r.cur = x.cur /\ r.flag = x.flag /\ r.from = x.from /\ r.to = x.to

-----------------------------------------------------------------------------
(* The lowest bit of the priority group is in it. *)
LEMMA HighestInGroup ==
    ASSUME NEW x \in Kernel, x.grp # {}
    PROVE  HighestPriority(x) \in x.grp /\ HighestPriority(x) \in Prio
<1>1. x.grp \subseteq Prio /\ x.grp \subseteq Nat
  BY KernelAssumption DEF Kernel, Prio
<1>2. \E p \in x.grp : \A q \in x.grp : p <= q
  BY <1>1, Least
<1> QED BY <1>1, <1>2 DEF HighestPriority

(* rt_schedule finds a thread at the head of the highest queue: it is READY. *)
LEMMA HighestIsReady ==
    ASSUME NEW x, Sound(x), x.grp # {}
    PROVE  /\ Highest(x) \in Thread
           /\ x.stat[Highest(x)] = "ready"
           /\ x.prio[Highest(x)] = HighestPriority(x)
<1>1. HighestPriority(x) \in x.grp /\ HighestPriority(x) \in Prio
  BY HighestInGroup DEF Sound, SoundBut
<1>2. x.rq[HighestPriority(x)] # <<>> /\ x.rq[HighestPriority(x)] \in Seq(Thread)
  BY <1>1 DEF Sound, SoundBut, Group, Kernel
<1>3. Highest(x) \in Thread /\ Highest(x) \in Elems(x.rq[HighestPriority(x)])
  BY <1>2, HeadElem DEF Highest
<1> QED BY <1>1, <1>3 DEF Sound, SoundBut, Queues

-----------------------------------------------------------------------------
(* rt_list_remove: the fields of the result. *)
LEMMA ListRemoveFields ==
    ASSUME NEW x \in Kernel, NEW t \in Thread
    PROVE  LET r == ListRemove(x, t)
           IN  /\ r \in Kernel
               /\ r.rq = [p \in Prio |-> Unlink(x.rq[p], t)]
               /\ r.wait = [o \in Obj |-> Unlink(x.wait[o], t)]
               /\ r.dead = Unlink(x.dead, t)
               /\ SameSwitch(r, x)
               /\ r.stat = x.stat /\ r.prio = x.prio /\ r.act = x.act /\ r.tmr = x.tmr
               /\ r.grp = x.grp /\ r.bad = x.bad /\ r.yld = x.yld
<1>1. \A p \in Prio : Unlink(x.rq[p], t) \in Seq(Thread)
  BY UnlinkFacts DEF Kernel
<1>2. \A o \in Obj : Unlink(x.wait[o], t) \in Seq(Thread)
  BY UnlinkFacts DEF Kernel
<1>3. Unlink(x.dead, t) \in Seq(Thread)
  BY UnlinkFacts DEF Kernel
<1>4. ListRemove(x, t) \in Kernel
  BY <1>1, <1>2, <1>3 DEF Kernel, ListRemove
<1> QED BY <1>4 DEF Kernel, ListRemove, SameSwitch

(* rt_list_remove of a thread of a sound kernel: the thread is in no list,   *)
(* and the group is exact unless the thread was READY.                       *)
LEMMA ListRemoveLoosens ==
    ASSUME NEW x, Sound(x), NEW u \in Thread
    PROVE  LET r == ListRemove(x, u)
           IN  /\ SoundBut(r, {u}) /\ Group(r, {u})
               /\ x.stat[u] # "ready" => Group(r, {})
<1> DEFINE r == ListRemove(x, u)
<1>0. x \in Kernel /\ ~x.bad /\ Queues(x, {}) /\ Waits(x, {}) /\ Defunct(x, {}) /\ Timers(x, {})
      /\ Group(x, {})
  BY DEF Sound, SoundBut
<1>1. /\ r \in Kernel /\ ~r.bad
      /\ r.rq = [p \in Prio |-> Unlink(x.rq[p], u)]
      /\ r.wait = [o \in Obj |-> Unlink(x.wait[o], u)]
      /\ r.dead = Unlink(x.dead, u)
      /\ r.stat = x.stat /\ r.prio = x.prio /\ r.act = x.act /\ r.tmr = x.tmr /\ r.grp = x.grp
  BY <1>0, ListRemoveFields
<1> HIDE DEF r
<1>2. ASSUME NEW p \in Prio
      PROVE  /\ IsOnce(r.rq[p]) /\ Elems(r.rq[p]) = Elems(x.rq[p]) \ {u}
             /\ r.rq[p] = <<>> <=> Elems(r.rq[p]) = {}
             /\ x.rq[p] = <<>> <=> Elems(x.rq[p]) = {}
             /\ u \notin Elems(x.rq[p]) => r.rq[p] = x.rq[p]
  <2>1. x.rq[p] \in Seq(Thread) /\ r.rq[p] \in Seq(Thread) /\ IsOnce(x.rq[p])
    BY <1>0, <1>1 DEF Kernel, Queues
  <2> QED BY <2>1, <1>1, UnlinkFacts, UnlinkAbsent, EmptyElems
<1>3. Queues(r, {u})
  BY <1>0, <1>1, <1>2 DEF Queues
<1>4. Waits(r, {u})
  <2>1. ASSUME NEW o \in Obj PROVE IsOnce(r.wait[o]) /\ Elems(r.wait[o]) = Elems(x.wait[o]) \ {u}
    <3>1. x.wait[o] \in Seq(Thread) /\ IsOnce(x.wait[o])
      BY <1>0 DEF Kernel, Waits
    <3> QED BY <3>1, <1>1, UnlinkFacts
  <2> QED BY <2>1, <1>0, <1>1 DEF Waits
<1>5. Defunct(r, {u})
  <2>1. IsOnce(r.dead) /\ Elems(r.dead) = Elems(x.dead) \ {u}
    <3>1. x.dead \in Seq(Thread) /\ IsOnce(x.dead)
      BY <1>0 DEF Kernel, Defunct
    <3> QED BY <3>1, <1>1, UnlinkFacts
  <2> QED BY <2>1, <1>0, <1>1 DEF Defunct
<1>6. Timers(r, {u})
  BY <1>0, <1>1 DEF Timers
<1>7. Group(r, {u})
  <2>1. \A p \in Prio : r.rq[p] # <<>> => p \in r.grp
    BY <1>0, <1>1, <1>2 DEF Group
  <2>2. ASSUME NEW p \in r.grp, r.rq[p] = <<>> PROVE r.prio[u] = p
    <3>1. p \in Prio /\ x.rq[p] # <<>>
      BY <2>2, <1>0, <1>1 DEF Group, Kernel
    <3>2. u \in Elems(x.rq[p])
      BY <3>1, <2>2, <1>2
    <3> QED BY <3>1, <3>2, <1>0, <1>1 DEF Queues
  <2> QED BY <2>1, <2>2 DEF Group
<1>8. ASSUME x.stat[u] # "ready" PROVE Group(r, {})
  <2>1. \A p \in Prio : u \notin Elems(x.rq[p])
    BY <1>8, <1>0 DEF Queues
  <2>2. \A p \in Prio : r.rq[p] = x.rq[p]
    BY <2>1, <1>2
  <2>3. r.grp \subseteq Prio
    BY <1>1 DEF Kernel
  <2> QED BY <2>2, <2>3, <1>0, <1>1 DEF Group
<1> QED BY <1>1, <1>3, <1>4, <1>5, <1>6, <1>7, <1>8 DEF SoundBut, r

(* rt_schedule_remove_thread: the group is exact. *)
LEMMA RemoveThreadFacts ==
    ASSUME NEW x, Sound(x), NEW u \in Thread
    PROVE  LET r == RemoveThread(x, u)
           IN  /\ SoundBut(r, {u}) /\ Group(r, {})
               /\ SameSwitch(r, x)
               /\ r.stat = x.stat /\ r.act = x.act /\ r.prio = x.prio
               /\ x.stat[u] # "ready" => r.grp = x.grp /\ r.rq = x.rq
<1> DEFINE l == ListRemove(x, u)
           r == RemoveThread(x, u)
<1>0. x \in Kernel
  BY DEF Sound, SoundBut
<1>1. SoundBut(l, {u}) /\ Group(l, {u}) /\ (x.stat[u] # "ready" => Group(l, {}))
  BY ListRemoveLoosens
<1>2. /\ l \in Kernel /\ SameSwitch(l, x) /\ l.rq = [p \in Prio |-> Unlink(x.rq[p], u)]
      /\ l.stat = x.stat /\ l.prio = x.prio /\ l.act = x.act /\ l.grp = x.grp
  BY <1>0, ListRemoveFields
<1>3. r = [l EXCEPT !.grp = IF l.rq[x.prio[u]] = <<>> THEN l.grp \ {x.prio[u]} ELSE l.grp]
  BY <1>2 DEF RemoveThread, Kernel
<1> HIDE DEF l, r
<1>4. /\ r \in Kernel
      /\ r.rq = l.rq /\ r.wait = l.wait /\ r.dead = l.dead /\ r.tmr = l.tmr /\ r.act = l.act
      /\ r.stat = l.stat /\ r.prio = l.prio /\ r.bad = l.bad /\ SameSwitch(r, l)
      /\ r.grp = IF l.rq[x.prio[u]] = <<>> THEN l.grp \ {x.prio[u]} ELSE l.grp
  BY <1>2, <1>3 DEF Kernel, SameSwitch
<1>5. SoundBut(r, {u})
  BY <1>1, <1>4 DEF SoundBut, Queues, Waits, Defunct, Timers
<1>6. Group(r, {})
  <2>1. \A p \in Prio : r.rq[p] # <<>> => p \in r.grp
    BY <1>1, <1>4 DEF Group
  <2>2. ASSUME NEW p \in r.grp, r.rq[p] = <<>> PROVE FALSE
    <3>1. p \in l.grp /\ l.rq[p] = <<>>
      BY <2>2, <1>4
    <3>2. l.prio[u] = p
      BY <3>1, <1>1 DEF Group
    <3> QED BY <2>2, <3>1, <3>2, <1>2, <1>4
  <2> QED BY <2>1, <2>2 DEF Group
<1>7. ASSUME x.stat[u] # "ready" PROVE r.grp = x.grp /\ r.rq = x.rq
  <2>1. \A p \in Prio : u \notin Elems(x.rq[p])
    BY <1>7 DEF Sound, SoundBut, Queues
  <2>2. \A p \in Prio : l.rq[p] = x.rq[p]
    BY <2>1, <1>2, UnlinkAbsent
  <2>3. l.rq = x.rq
    BY <2>2, <1>0, <1>2 DEF Kernel
  <2>4. x.prio[u] \in Prio /\ (l.rq[x.prio[u]] = <<>> => x.prio[u] \notin x.grp)
    BY <2>3, <1>0 DEF Sound, Group, Kernel
  <2> QED BY <2>3, <2>4, <1>2, <1>4
<1> QED BY <1>2, <1>4, <1>5, <1>6, <1>7 DEF SameSwitch, r

-----------------------------------------------------------------------------
(* rt_schedule_insert_thread: the thread that was being moved is RUNNING if  *)
(* it is the current one, READY in the queue of its priority if not.         *)
LEMMA InsertThreadFacts ==
    ASSUME NEW x, NEW u \in Thread, SoundBut(x, {u}), Group(x, {u}), ~x.act[u],
           u = x.cur => Group(x, {})
    PROVE  LET r == InsertThread(x, u)
           IN  /\ Sound(r)
               /\ SameSwitch(r, x) /\ r.act = x.act
               /\ r.stat = [x.stat EXCEPT ![u] = IF u = x.cur THEN "running" ELSE "ready"]
<1> DEFINE r == InsertThread(x, u)
<1>0. x \in Kernel /\ ~x.bad /\ Queues(x, {u}) /\ Waits(x, {u}) /\ Defunct(x, {u}) /\ Timers(x, {u})
  BY DEF SoundBut
<1>1. CASE u = x.cur
  <2>1. r = [x EXCEPT !.stat[u] = "running"]
    BY <1>1 DEF InsertThread
  <2> HIDE DEF r
  <2>2. /\ r \in Kernel /\ r.stat = [x.stat EXCEPT ![u] = "running"]
        /\ r.rq = x.rq /\ r.wait = x.wait /\ r.dead = x.dead /\ r.tmr = x.tmr /\ r.act = x.act
        /\ r.prio = x.prio /\ r.bad = x.bad /\ r.grp = x.grp /\ SameSwitch(r, x)
    BY <2>1, <1>0 DEF Kernel, Stat, SameSwitch
  <2>3. \A t \in Thread : r.stat[t] = IF t = u THEN "running" ELSE x.stat[t]
    BY <2>2, <1>0 DEF Kernel
  <2>4. Queues(r, {})
    BY <1>0, <2>2, <2>3 DEF Queues
  <2>5. Waits(r, {}) /\ Timers(r, {})
    BY <1>0, <2>2, <2>3 DEF Waits, Timers
  <2>6. Defunct(r, {})
    BY <1>0, <2>2, <2>3, ElemsType DEF Defunct, Kernel
  <2>7. Group(r, {})
    BY <1>1, <2>2 DEF Group
  <2> QED BY <1>0, <1>1, <2>2, <2>4, <2>5, <2>6, <2>7 DEF Sound, SoundBut, r
<1>2. CASE u # x.cur
  <2> DEFINE p0 == x.prio[u]
             q == IF x.yld[u] THEN PushBack(x.rq[p0], u) ELSE PushFront(x.rq[p0], u)
  <2>0. p0 \in Prio /\ x.rq[p0] \in Seq(Thread) /\ u \notin Elems(x.rq[p0]) /\ IsOnce(x.rq[p0])
    BY <1>0 DEF Kernel, Queues
  <2>1. q \in Seq(Thread) /\ q # <<>> /\ IsOnce(q) /\ Elems(q) = Elems(x.rq[p0]) \cup {u}
    <3>1. /\ PushBack(x.rq[p0], u) \in Seq(Thread) /\ PushBack(x.rq[p0], u) # <<>>
          /\ IsOnce(PushBack(x.rq[p0], u))
          /\ Elems(PushBack(x.rq[p0], u)) = Elems(x.rq[p0]) \cup {u}
      BY <2>0, PushBackFacts
    <3>2. /\ PushFront(x.rq[p0], u) \in Seq(Thread) /\ PushFront(x.rq[p0], u) # <<>>
          /\ IsOnce(PushFront(x.rq[p0], u))
          /\ Elems(PushFront(x.rq[p0], u)) = Elems(x.rq[p0]) \cup {u}
      BY <2>0, PushFrontFacts
    <3> QED BY <3>1, <3>2
  <2>2. ~Linked(x, u)
    BY <1>0 DEF Linked, Queues, Waits, Defunct
  <2>3. r = [x EXCEPT !.stat[u] = "ready", !.rq[p0] = q, !.grp = x.grp \cup {p0}, !.bad = FALSE]
    BY <1>0, <1>2, <2>2 DEF InsertThread, Kernel
  <2> HIDE DEF r, q
  <2>4. /\ r \in Kernel /\ r.stat = [x.stat EXCEPT ![u] = "ready"]
        /\ r.rq = [x.rq EXCEPT ![p0] = q] /\ r.grp = x.grp \cup {p0}
        /\ r.wait = x.wait /\ r.dead = x.dead /\ r.tmr = x.tmr /\ r.act = x.act
        /\ r.prio = x.prio /\ ~r.bad /\ SameSwitch(r, x)
    BY <2>0, <2>1, <2>3, <1>0 DEF Kernel, Stat, SameSwitch
  <2>5. /\ \A t \in Thread : r.stat[t] = IF t = u THEN "ready" ELSE x.stat[t]
        /\ \A p \in Prio : r.rq[p] = IF p = p0 THEN q ELSE x.rq[p]
    BY <2>4, <1>0 DEF Kernel
  <2>6. Queues(r, {})
    BY <1>0, <2>0, <2>1, <2>4, <2>5 DEF Queues
  <2>7. Waits(r, {}) /\ Timers(r, {})
    BY <1>0, <2>4, <2>5 DEF Waits, Timers
  <2>8. Defunct(r, {})
    BY <1>0, <2>4, <2>5, ElemsType DEF Defunct, Kernel
  <2>9. Group(r, {})
    <3>1. \A p \in Prio : r.rq[p] # <<>> => p \in r.grp
      BY <2>1, <2>4, <2>5 DEF Group
    <3>2. ASSUME NEW p \in r.grp, r.rq[p] = <<>> PROVE FALSE
      <4>1. p \in Prio /\ p # p0
        BY <3>2, <2>0, <2>1, <2>4, <2>5 DEF Kernel
      <4>2. p \in x.grp /\ x.rq[p] = <<>>
        BY <3>2, <4>1, <2>4, <2>5
      <4> QED BY <4>1, <4>2 DEF Group
    <3> QED BY <3>1, <3>2 DEF Group
  <2> QED BY <1>0, <1>2, <2>4, <2>6, <2>7, <2>8, <2>9 DEF Sound, SoundBut, r
<1> QED BY <1>1, <1>2

(* A thread in no list whose stat is set to anything but READY. *)
LEMMA SetStatFacts ==
    ASSUME NEW x, NEW u \in Thread, SoundBut(x, {u}), Group(x, {}),
           NEW s \in Stat \ {"ready"}, x.act[u] => s = "suspend"
    PROVE  LET r == [x EXCEPT !.stat[u] = s]
           IN  /\ Sound(r)
               /\ SameSwitch(r, x) /\ r.act = x.act
               /\ r.stat = [x.stat EXCEPT ![u] = s]
<1> DEFINE r == [x EXCEPT !.stat[u] = s]
<1>0. x \in Kernel /\ ~x.bad /\ Queues(x, {u}) /\ Waits(x, {u}) /\ Defunct(x, {u}) /\ Timers(x, {u})
  BY DEF SoundBut
<1>1. /\ r \in Kernel /\ r.stat = [x.stat EXCEPT ![u] = s]
      /\ r.rq = x.rq /\ r.wait = x.wait /\ r.dead = x.dead /\ r.tmr = x.tmr /\ r.act = x.act
      /\ r.prio = x.prio /\ r.bad = x.bad /\ r.grp = x.grp /\ SameSwitch(r, x)
  BY <1>0 DEF Kernel, Stat, SameSwitch
<1> HIDE DEF r
<1>2. \A t \in Thread : r.stat[t] = IF t = u THEN s ELSE x.stat[t]
  BY <1>0, <1>1 DEF Kernel
<1>3. Queues(r, {})
  BY <1>0, <1>1, <1>2 DEF Queues
<1>4. Waits(r, {}) /\ Timers(r, {})
  BY <1>0, <1>1, <1>2 DEF Waits, Timers
<1>5. Defunct(r, {})
  BY <1>0, <1>1, <1>2, ElemsType DEF Defunct, Kernel
<1>6. Group(r, {})
  BY <1>1 DEF Group
<1> QED BY <1>0, <1>1, <1>3, <1>4, <1>5, <1>6 DEF Sound, SoundBut, r

(* The timer is off the list afterwards. *)
LEMMA TimerRemoveFacts ==
    ASSUME NEW x, NEW U \in SUBSET Thread, SoundBut(x, U), NEW u \in Thread
    PROVE  LET r == TimerRemove(x, u)
           IN  /\ SoundBut(r, U)
               /\ SameSwitch(r, x) /\ r.stat = x.stat /\ r.prio = x.prio
               /\ r.grp = x.grp /\ r.rq = x.rq /\ r.wait = x.wait /\ r.dead = x.dead
               /\ r.act = [x.act EXCEPT ![u] = FALSE]
               /\ u \notin Elems(r.tmr)
<1> DEFINE r == TimerRemove(x, u)
<1>0. x \in Kernel /\ ~x.bad /\ Queues(x, U) /\ Waits(x, U) /\ Defunct(x, U) /\ Timers(x, U)
  BY DEF SoundBut
<1>1. x.tmr \in Seq(Thread) /\ IsOnce(x.tmr)
  BY <1>0 DEF Kernel, Timers
<1>2. /\ Unlink(x.tmr, u) \in Seq(Thread) /\ IsOnce(Unlink(x.tmr, u))
      /\ Elems(Unlink(x.tmr, u)) = Elems(x.tmr) \ {u}
  BY <1>1, UnlinkFacts
<1>3. /\ r \in Kernel /\ r.tmr = Unlink(x.tmr, u) /\ r.act = [x.act EXCEPT ![u] = FALSE]
      /\ r.rq = x.rq /\ r.wait = x.wait /\ r.dead = x.dead /\ r.stat = x.stat
      /\ r.prio = x.prio /\ r.bad = x.bad /\ r.grp = x.grp /\ SameSwitch(r, x)
  <2> DEFINE q == Unlink(x.tmr, u)
  <2>1. 0 \in Tick
    BY KernelAssumption DEF Tick
  <2>2. r = [x EXCEPT !.tmr = q, !.act[u] = FALSE, !.tout[u] = 0]
    BY DEF TimerRemove
  <2>3. q \in Seq(Thread)
    BY <1>2
  <2> HIDE DEF r, q
  <2>4. r \in Kernel
    BY <1>0, <2>1, <2>2, <2>3 DEF Kernel
  <2>5. /\ r.tmr = q /\ r.act = [x.act EXCEPT ![u] = FALSE]
        /\ r.rq = x.rq /\ r.wait = x.wait /\ r.dead = x.dead /\ r.stat = x.stat
        /\ r.prio = x.prio /\ r.bad = x.bad /\ r.grp = x.grp /\ SameSwitch(r, x)
    BY <1>0, <2>2 DEF Kernel, SameSwitch
  <2> QED BY <2>4, <2>5 DEF q
<1> HIDE DEF r
<1>4. \A t \in Thread : r.act[t] = IF t = u THEN FALSE ELSE x.act[t]
  BY <1>0, <1>3 DEF Kernel
<1>5. Timers(r, U)
  BY <1>0, <1>2, <1>3, <1>4 DEF Timers
<1>6. Queues(r, U) /\ Waits(r, U) /\ Defunct(r, U)
  BY <1>0, <1>3 DEF Queues, Waits, Defunct
<1> QED BY <1>0, <1>2, <1>3, <1>5, <1>6 DEF SoundBut, r

(* rt_timer_stop. *)
LEMMA TimerStopFacts ==
    ASSUME NEW x, NEW U \in SUBSET Thread, SoundBut(x, U), NEW u \in Thread
    PROVE  LET r == TimerStop(x, u)
           IN  /\ SoundBut(r, U)
               /\ SameSwitch(r, x) /\ r.stat = x.stat /\ r.prio = x.prio
               /\ r.grp = x.grp /\ r.rq = x.rq
               /\ r.act = [x.act EXCEPT ![u] = FALSE]
<1>1. CASE x.act[u]
  BY <1>1, TimerRemoveFacts DEF TimerStop
<1>2. CASE ~x.act[u]
  <2>1. x.act = [x.act EXCEPT ![u] = FALSE]
    BY <1>2 DEF SoundBut, Kernel
  <2> QED BY <1>2, <2>1 DEF TimerStop, SameSwitch
<1> QED BY <1>1, <1>2

(* Fields that no list depends on may change. *)
LEMMA SameListsFacts ==
    ASSUME NEW x, NEW U, SoundBut(x, U), NEW r \in Kernel,
           r.rq = x.rq, r.grp = x.grp, r.wait = x.wait, r.dead = x.dead, r.stat = x.stat,
           r.prio = x.prio, r.act = x.act, r.tmr = x.tmr, r.bad = x.bad
    PROVE  /\ SoundBut(r, U)
           /\ \A V : Group(x, V) => Group(r, V)
BY DEF SoundBut, Queues, Waits, Defunct, Timers, Group

-----------------------------------------------------------------------------
(* rt_thread_suspend: a READY or RUNNING thread is in no list afterwards. *)
LEMMA SuspendFacts ==
    ASSUME NEW x, Sound(x), NEW t \in Thread
    PROVE  LET r == Suspend(x, t)
           IN  /\ Sound(r)
               /\ SameSwitch(r, x) /\ r.act = x.act
               /\ r.stat = IF x.stat[t] \in {"ready", "running"}
                           THEN [x.stat EXCEPT ![t] = "suspend"] ELSE x.stat
<1>1. CASE x.stat[t] \notin {"ready", "running"}
  BY <1>1 DEF Suspend, SameSwitch
<1>2. CASE x.stat[t] \in {"ready", "running"}
  <2> DEFINE y == RemoveThread(x, t)
             z == [y EXCEPT !.stat[t] = "suspend"]
             r == TimerStop(z, t)
  <2>1. ~x.act[t]
    BY <1>2 DEF Sound, SoundBut, Timers
  <2>2. /\ SoundBut(y, {t}) /\ Group(y, {}) /\ SameSwitch(y, x)
        /\ y.stat = x.stat /\ y.act = x.act
    BY RemoveThreadFacts
  <2> HIDE DEF y
  <2>3. /\ Sound(z) /\ SameSwitch(z, x) /\ z.act = x.act
        /\ z.stat = [x.stat EXCEPT ![t] = "suspend"]
    <3>1. "suspend" \in Stat \ {"ready"}
      BY DEF Stat
    <3>2. Sound(z) /\ SameSwitch(z, y) /\ z.act = y.act /\ z.stat = [y.stat EXCEPT ![t] = "suspend"]
      BY <2>2, <3>1, SetStatFacts
    <3> HIDE DEF z
    <3> QED BY <2>2, <3>2 DEF SameSwitch
  <2> HIDE DEF z
  <2>4. r = z
    BY <2>1, <2>3 DEF TimerStop
  <2>5. Suspend(x, t) = r
    BY <1>2 DEF Suspend, r, z, y
  <2> QED BY <1>2, <2>3, <2>4, <2>5
<1> QED BY <1>1, <1>2

(* rt_thread_resume after its check of stat: whatever the thread was, it is  *)
(* READY, or RUNNING if it is the current one, and has no timer.             *)
LEMMA ResumeFacts ==
    ASSUME NEW x, Sound(x), CurrentRuns(x), NEW t \in Thread
    PROVE  LET r == Resume(x, t)
           IN  /\ Sound(r)
               /\ SameSwitch(r, x) /\ r.act = [x.act EXCEPT ![t] = FALSE]
               /\ r.stat = [x.stat EXCEPT ![t] = IF t = x.cur THEN "running" ELSE "ready"]
<1> DEFINE y == ListRemove(x, t)
           z == TimerStop(y, t)
<1>1. x \in Kernel /\ x.act[t] \in BOOLEAN
  BY DEF Sound, SoundBut, Kernel
<1>2. /\ SoundBut(y, {t}) /\ Group(y, {t}) /\ SameSwitch(y, x)
      /\ y.stat = x.stat /\ y.act = x.act
      /\ t = x.cur => Group(y, {})
  BY <1>1, ListRemoveLoosens, ListRemoveFields DEF CurrentRuns
<1> HIDE DEF y
<1>3. /\ SoundBut(z, {t}) /\ SameSwitch(z, x) /\ z.stat = x.stat
      /\ z.act = [x.act EXCEPT ![t] = FALSE]
      /\ z.prio = y.prio /\ z.grp = y.grp /\ z.rq = y.rq
  BY <1>2, TimerStopFacts DEF SameSwitch
<1> HIDE DEF z
<1>4. Group(z, {t}) /\ (t = z.cur => Group(z, {}))
  BY <1>2, <1>3 DEF Group, SameSwitch
<1>5. ~z.act[t]
  BY <1>1, <1>3 DEF Kernel
<1>6. /\ Sound(InsertThread(z, t)) /\ SameSwitch(InsertThread(z, t), z)
      /\ InsertThread(z, t).act = z.act
      /\ InsertThread(z, t).stat = [z.stat EXCEPT ![t] = IF t = z.cur THEN "running" ELSE "ready"]
  BY <1>3, <1>4, <1>5, InsertThreadFacts
<1>7. Resume(x, t) = InsertThread(z, t)
  BY DEF Resume, z, y
<1> QED BY <1>3, <1>6, <1>7 DEF SameSwitch

(* _thread_timeout: the thread whose timer fired is READY. *)
LEMMA ExpireFacts ==
    ASSUME NEW x, Sound(x), CurrentRuns(x), NEW t \in Thread, x.act[t]
    PROVE  LET r == Expire(x, t)
           IN  /\ Sound(r)
               /\ SameSwitch(r, x) /\ r.act = [x.act EXCEPT ![t] = FALSE]
               /\ r.stat = [x.stat EXCEPT ![t] = IF t = x.cur THEN "running" ELSE "ready"]
<1> DEFINE w == TimerRemove(x, t)
           v == [w EXCEPT !.err[t] = "timeout"]
           y == ListRemove(v, t)
<1>1. x \in Kernel /\ SoundBut(x, {}) /\ Group(x, {}) /\ x.stat[t] = "suspend"
  BY DEF Sound, SoundBut, Timers
<1>2. /\ SoundBut(w, {}) /\ SameSwitch(w, x) /\ w.stat = x.stat
      /\ w.act = [x.act EXCEPT ![t] = FALSE]
      /\ w.prio = x.prio /\ w.grp = x.grp /\ w.rq = x.rq
  BY <1>1, TimerRemoveFacts
<1>3. Group(w, {})
  BY <1>1, <1>2 DEF Group
<1> HIDE DEF w
<1>4. /\ v \in Kernel /\ SameSwitch(v, w)
      /\ v.rq = w.rq /\ v.grp = w.grp /\ v.wait = w.wait /\ v.dead = w.dead /\ v.stat = w.stat
      /\ v.prio = w.prio /\ v.act = w.act /\ v.tmr = w.tmr /\ v.bad = w.bad
  BY <1>2 DEF SoundBut, Kernel, Err, SameSwitch
<1> HIDE DEF v
<1>5. Sound(v)
  BY <1>2, <1>3, <1>4, SameListsFacts DEF Sound
<1>6. /\ SoundBut(y, {t}) /\ Group(y, {t}) /\ Group(y, {}) /\ SameSwitch(y, x)
      /\ y.stat = x.stat /\ y.act = [x.act EXCEPT ![t] = FALSE]
  BY <1>1, <1>2, <1>4, <1>5, ListRemoveLoosens, ListRemoveFields DEF SameSwitch
<1> HIDE DEF y
<1>7. ~y.act[t]
  BY <1>1, <1>6 DEF Kernel
<1>8. /\ Sound(InsertThread(y, t)) /\ SameSwitch(InsertThread(y, t), y)
      /\ InsertThread(y, t).act = y.act
      /\ InsertThread(y, t).stat = [y.stat EXCEPT ![t] = IF t = y.cur THEN "running" ELSE "ready"]
  BY <1>6, <1>7, InsertThreadFacts
<1>9. Expire(x, t) = InsertThread(y, t)
  BY DEF Expire, y, v, w
<1> QED BY <1>6, <1>8, <1>9 DEF SameSwitch

(* _thread_exit: the thread is closed and in the defunct list. *)
LEMMA ExitFacts ==
    ASSUME NEW x, Sound(x), NEW t \in Thread
    PROVE  LET r == Close(RemoveThread(x, t), t)
           IN  /\ Sound(r)
               /\ SameSwitch(r, x) /\ r.act = [x.act EXCEPT ![t] = FALSE]
               /\ r.stat = [x.stat EXCEPT ![t] = "close"]
<1> DEFINE y == RemoveThread(x, t)
           z == TimerRemove(y, t)
           r == Close(y, t)
<1>1. /\ SoundBut(y, {t}) /\ Group(y, {}) /\ SameSwitch(y, x)
      /\ y.stat = x.stat /\ y.act = x.act /\ x.act \in [Thread -> BOOLEAN]
  BY RemoveThreadFacts DEF Sound, SoundBut, Kernel
<1> HIDE DEF y
<1>2. ~Linked(y, t)
  BY <1>1 DEF SoundBut, Queues, Waits, Defunct, Linked
<1>3. /\ SoundBut(z, {t}) /\ SameSwitch(z, y) /\ z.stat = y.stat /\ z.prio = y.prio
      /\ z.grp = y.grp /\ z.rq = y.rq /\ z.act = [y.act EXCEPT ![t] = FALSE]
  BY <1>1, TimerRemoveFacts
<1>4. Group(z, {}) /\ ~z.act[t]
  BY <1>1, <1>3 DEF Group
<1>5. r = [z EXCEPT !.stat[t] = "close", !.dead = PushFront(@, t), !.bad = @ \/ Linked(y, t),
                    !.yld[t] = FALSE]
  BY DEF Close, r, z
<1> HIDE DEF z, r
<1>6. z \in Kernel /\ ~z.bad /\ Queues(z, {t}) /\ Waits(z, {t}) /\ Defunct(z, {t}) /\ Timers(z, {t})
  BY <1>3 DEF SoundBut
<1>7. /\ PushFront(z.dead, t) \in Seq(Thread) /\ IsOnce(PushFront(z.dead, t))
      /\ Elems(PushFront(z.dead, t)) = Elems(z.dead) \cup {t}
  <2>1. z.dead \in Seq(Thread) /\ IsOnce(z.dead) /\ t \notin Elems(z.dead)
    BY <1>6 DEF Kernel, Defunct
  <2> QED BY <2>1, PushFrontFacts
<1>8. /\ r \in Kernel /\ ~r.bad /\ r.stat = [z.stat EXCEPT ![t] = "close"]
      /\ r.dead = PushFront(z.dead, t)
      /\ r.rq = z.rq /\ r.wait = z.wait /\ r.tmr = z.tmr /\ r.act = z.act
      /\ r.prio = z.prio /\ r.grp = z.grp /\ SameSwitch(r, z)
  <2> DEFINE d == PushFront(z.dead, t)
  <2>1. r = [z EXCEPT !.stat[t] = "close", !.dead = d, !.bad = FALSE, !.yld[t] = FALSE]
    BY <1>2, <1>5, <1>6 DEF Kernel
  <2>2. d \in Seq(Thread)
    BY <1>7
  <2> HIDE DEF d
  <2> QED BY <2>1, <2>2, <1>6 DEF Kernel, Stat, SameSwitch, d
<1>9. \A u \in Thread : r.stat[u] = IF u = t THEN "close" ELSE z.stat[u]
  BY <1>6, <1>8 DEF Kernel
<1>10. Queues(r, {}) /\ Waits(r, {})
  BY <1>6, <1>8, <1>9 DEF Queues, Waits
<1>11. Defunct(r, {})
  <2>1. z.dead \in Seq(Thread) /\ Elems(z.dead) \subseteq Thread
    BY <1>6, ElemsType DEF Kernel
  <2> QED BY <2>1, <1>6, <1>7, <1>8, <1>9 DEF Defunct
<1>12. Timers(r, {})
  BY <1>4, <1>6, <1>8, <1>9 DEF Timers
<1>13. Group(r, {})
  BY <1>4, <1>8 DEF Group
<1> QED BY <1>1, <1>3, <1>8, <1>10, <1>11, <1>12, <1>13 DEF Sound, SoundBut, SameSwitch, r, y

(* RT_THREAD_CTRL_CHANGE_PRIORITY moves a READY thread to its new queue and  *)
(* changes no stat.                                                          *)
LEMMA ChangePriorityFacts ==
    ASSUME NEW x, Sound(x), CurrentRuns(x), NEW t \in Thread, NEW p \in Prio
    PROVE  LET r == ChangePriority(x, t, p)
           IN  Sound(r) /\ SameSwitch(r, x) /\ r.act = x.act /\ r.stat = x.stat
<1>0. x \in Kernel /\ SoundBut(x, {}) /\ Group(x, {})
  BY DEF Sound, SoundBut
<1>1. CASE x.stat[t] = "ready"
  <2> DEFINE y == RemoveThread(x, t)
             z == [y EXCEPT !.prio[t] = p]
  <2>1. t # x.cur /\ ~x.act[t]
    BY <1>0, <1>1 DEF CurrentRuns, SoundBut, Timers
  <2>2. /\ SoundBut(y, {t}) /\ Group(y, {}) /\ SameSwitch(y, x)
        /\ y.stat = x.stat /\ y.act = x.act
    BY RemoveThreadFacts
  <2> HIDE DEF y
  <2>3. /\ z \in Kernel /\ SameSwitch(z, y) /\ z.prio = [y.prio EXCEPT ![t] = p]
        /\ z.rq = y.rq /\ z.grp = y.grp /\ z.wait = y.wait /\ z.dead = y.dead
        /\ z.stat = y.stat /\ z.act = y.act /\ z.tmr = y.tmr /\ z.bad = y.bad
    BY <2>2 DEF SoundBut, Kernel, SameSwitch
  <2> HIDE DEF z
  <2>4. \A u \in Thread : z.prio[u] = IF u = t THEN p ELSE y.prio[u]
    BY <2>2, <2>3 DEF SoundBut, Kernel
  <2>5. SoundBut(z, {t})
    BY <2>2, <2>3, <2>4 DEF SoundBut, Queues, Waits, Defunct, Timers
  <2>6. Group(z, {t})
    BY <2>2, <2>3 DEF Group
  <2>7. ~z.act[t] /\ t # z.cur
    BY <2>1, <2>2, <2>3 DEF SameSwitch
  <2>8. /\ Sound(InsertThread(z, t)) /\ SameSwitch(InsertThread(z, t), z)
        /\ InsertThread(z, t).act = z.act
        /\ InsertThread(z, t).stat = [z.stat EXCEPT ![t] = "ready"]
    BY <2>5, <2>6, <2>7, InsertThreadFacts
  <2>9. [x.stat EXCEPT ![t] = "ready"] = x.stat
    BY <1>0, <1>1 DEF Kernel
  <2>10. ChangePriority(x, t, p) = InsertThread(z, t)
    BY <1>1 DEF ChangePriority, z, y
  <2> QED BY <2>2, <2>3, <2>8, <2>9, <2>10 DEF SameSwitch
<1>2. CASE x.stat[t] # "ready"
  <2> DEFINE r == [x EXCEPT !.prio[t] = p]
  <2>1. /\ r \in Kernel /\ SameSwitch(r, x) /\ r.prio = [x.prio EXCEPT ![t] = p]
        /\ r.rq = x.rq /\ r.grp = x.grp /\ r.wait = x.wait /\ r.dead = x.dead
        /\ r.stat = x.stat /\ r.act = x.act /\ r.tmr = x.tmr /\ r.bad = x.bad
    BY <1>0 DEF Kernel, SameSwitch
  <2> HIDE DEF r
  <2>2. \A u \in Thread : r.prio[u] = IF u = t THEN p ELSE x.prio[u]
    BY <1>0, <2>1 DEF Kernel
  <2>3. SoundBut(r, {})
    BY <1>0, <1>2, <2>1, <2>2 DEF SoundBut, Queues, Waits, Defunct, Timers
  <2>4. Group(r, {})
    BY <1>0, <2>1 DEF Group
  <2> QED BY <1>2, <2>1, <2>3, <2>4 DEF ChangePriority, Sound, r
<1> QED BY <1>1, <1>2

-----------------------------------------------------------------------------
(* The walk of rt_timer_start over the timer list ends at a place in it. *)
LEMMA PositionInList ==
    ASSUME NEW x \in Kernel, NEW at
    PROVE  /\ Position(x, at) \in 0..Len(x.tmr)
           /\ \A j \in 1..Position(x, at) : ~Later(x, x.tmr[j], at)
           /\ Position(x, at) < Len(x.tmr) => Later(x, x.tmr[Position(x, at) + 1], at)
<1> DEFINE B == {i \in 1..Len(x.tmr) : Later(x, x.tmr[i], at)}
<1>1. Len(x.tmr) \in Nat
  BY DEF Kernel
<1> DEFINE P(i) == /\ \A j \in 1..i : ~Later(x, x.tmr[j], at)
                   /\ i < Len(x.tmr) => Later(x, x.tmr[i + 1], at)
<1>2. \E i \in 0..Len(x.tmr) : P(i)
  <2>1. CASE B = {}
    <3>1. \A j \in 1..Len(x.tmr) : ~Later(x, x.tmr[j], at)
      BY <2>1
    <3>2. P(Len(x.tmr))
      BY <3>1, <1>1
    <3> HIDE DEF P
    <3> QED BY <3>2, <1>1
  <2>2. CASE B # {}
    <3>1. PICK m \in B : \A n \in B : m <= n
      <4>1. B \subseteq Nat
        BY <1>1
      <4> HIDE DEF B
      <4> QED BY <2>2, <4>1, Least
    <3>2. m - 1 \in 0..Len(x.tmr) /\ m \in 1..Len(x.tmr) /\ Later(x, x.tmr[(m - 1) + 1], at)
      BY <1>1
    <3>3. ASSUME NEW j \in 1..(m - 1) PROVE ~Later(x, x.tmr[j], at)
      <4>1. j \in 1..Len(x.tmr) /\ ~(m <= j)
        BY <1>1, <3>2
      <4> QED BY <4>1, <3>1
    <3>4. P(m - 1)
      BY <3>2, <3>3
    <3> HIDE DEF P
    <3> QED BY <3>2, <3>4
  <2> QED BY <2>1, <2>2
<1>3. Position(x, at) = CHOOSE i \in 0..Len(x.tmr) : P(i)
  BY DEF Position
<1>4. Position(x, at) \in 0..Len(x.tmr) /\ P(Position(x, at))
  <2> HIDE DEF P
  <2> QED BY <1>2, <1>3
<1> QED BY <1>4

(* rt_timer_start for a suspended thread. *)
LEMMA TimerStartFacts ==
    ASSUME NEW x, Sound(x), NEW t \in Thread, x.stat[t] = "suspend", NEW n \in Nat
    PROVE  LET r == TimerStart(x, t, n)
           IN  /\ Sound(r)
               /\ SameSwitch(r, x) /\ r.stat = x.stat
               /\ r.act = [x.act EXCEPT ![t] = TRUE]
<1> DEFINE y == TimerRemove(x, t)
           at == (x.tick + n) % TickMod
           q == LinkAfter(y.tmr, Position(y, at), t)
           r == TimerStart(x, t, n)
<1>0. SoundBut(x, {}) /\ Group(x, {}) /\ x \in Kernel
  BY DEF Sound, SoundBut
<1>1. /\ SoundBut(y, {}) /\ SameSwitch(y, x) /\ y.stat = x.stat /\ y.prio = x.prio
      /\ y.grp = x.grp /\ y.rq = x.rq /\ y.act = [x.act EXCEPT ![t] = FALSE]
      /\ t \notin Elems(y.tmr)
  BY <1>0, TimerRemoveFacts
<1>2. r = [y EXCEPT !.tout[t] = at, !.act[t] = TRUE, !.tmr = q]
  <2>1. r = [y EXCEPT !.tout[t] = at, !.act[t] = TRUE, !.tmr = LinkAfter(@, Position(y, at), t)]
    BY DEF TimerStart, r
  <2> QED BY <2>1
<1>3. at \in Tick
  <2>1. x.tick \in Nat /\ TickMod \in Nat \ {0}
    BY <1>0, KernelAssumption DEF Kernel, Tick
  <2> QED BY <2>1 DEF Tick
<1> HIDE DEF y, at, r
<1>4. y \in Kernel /\ ~y.bad /\ Queues(y, {}) /\ Waits(y, {}) /\ Defunct(y, {}) /\ Timers(y, {})
  BY <1>1 DEF SoundBut
<1>5. q \in Seq(Thread) /\ IsOnce(q) /\ Elems(q) = Elems(y.tmr) \cup {t}
  <2>1. y.tmr \in Seq(Thread) /\ IsOnce(y.tmr)
    BY <1>4 DEF Kernel, Timers
  <2>2. Position(y, at) \in 0..Len(y.tmr)
    BY <1>4, PositionInList
  <2> QED BY <1>1, <2>1, <2>2, LinkAfterFacts
<1> HIDE DEF q
<1>6. /\ r \in Kernel /\ r.tmr = q /\ r.act = [y.act EXCEPT ![t] = TRUE]
      /\ r.rq = y.rq /\ r.wait = y.wait /\ r.dead = y.dead /\ r.stat = y.stat
      /\ r.prio = y.prio /\ r.bad = y.bad /\ r.grp = y.grp /\ SameSwitch(r, y)
  BY <1>2, <1>3, <1>4, <1>5 DEF Kernel, SameSwitch
<1>7. \A u \in Thread : r.act[u] = IF u = t THEN TRUE ELSE y.act[u]
  BY <1>4, <1>6 DEF Kernel
<1>8. Timers(r, {})
  BY <1>1, <1>4, <1>5, <1>6, <1>7 DEF Timers
<1>9. Queues(r, {}) /\ Waits(r, {}) /\ Defunct(r, {}) /\ Group(r, {})
  BY <1>0, <1>1, <1>4, <1>6 DEF Queues, Waits, Defunct, Group
<1>10. r.act = [x.act EXCEPT ![t] = TRUE]
  BY <1>0, <1>1, <1>6 DEF Kernel
<1> QED BY <1>1, <1>4, <1>6, <1>8, <1>9, <1>10 DEF Sound, SoundBut, SameSwitch, r

(* rt_tick_increase touches no list. *)
LEMMA CountTickFacts ==
    ASSUME NEW x, Sound(x)
    PROVE  LET r == CountTick(x)
           IN  Sound(r) /\ SameSwitch(r, x) /\ r.act = x.act /\ r.stat = x.stat
<1> DEFINE r == CountTick(x)
           c == x.rem[x.cur] - 1
<1>1. x \in Kernel /\ x.cur \in Thread /\ x.tick \in Nat /\ TickMod \in Nat \ {0}
  <2>1. x \in Kernel /\ x.cur \in Thread /\ x.tick \in Tick
    BY DEF Sound, SoundBut, Kernel
  <2> QED BY <2>1, KernelAssumption DEF Tick
<1>2. (x.tick + 1) % TickMod \in Tick
  BY <1>1 DEF Tick
<1>3. (IF c = 0 THEN Slice[x.cur] ELSE c) \in Nat \ {0}
  BY <1>1, KernelAssumption DEF Kernel
<1>4. /\ r \in Kernel /\ SameSwitch(r, x)
      /\ r.rq = x.rq /\ r.grp = x.grp /\ r.wait = x.wait /\ r.dead = x.dead /\ r.stat = x.stat
      /\ r.prio = x.prio /\ r.act = x.act /\ r.tmr = x.tmr /\ r.bad = x.bad
  <2> DEFINE a == (x.tick + 1) % TickMod
             b == IF c = 0 THEN Slice[x.cur] ELSE c
             y == x.yld[x.cur] \/ c = 0
  <2>1. r = [x EXCEPT !.tick = a, !.rem[x.cur] = b, !.yld[x.cur] = y]
    BY DEF CountTick
  <2>2. a \in Tick /\ b \in Nat \ {0} /\ y \in BOOLEAN
    BY <1>2, <1>3
  <2> HIDE DEF a, b, y, r
  <2> QED BY <1>1, <2>1, <2>2 DEF Kernel, SameSwitch
<1> QED BY <1>4, SameListsFacts DEF Sound

-----------------------------------------------------------------------------
(* What rt_schedule leaves for PendSV: the thread whose registers are in the *)
(* CPU is the one the switch starts from, whether or not a switch was        *)
(* pending already; only READY and RUNNING threads change stat.              *)
Switched(r, x) ==
    /\ x.flag => r.flag /\ r.from = x.from
    /\ ~x.flag => IF r.flag THEN r.from = x.cur ELSE r.cur = x.cur
    /\ r.flag => r.to = r.cur \/ (x.flag /\ r.to = x.to /\ r.cur = x.cur)
    /\ \A t \in Thread : IF x.stat[t] \in {"ready", "running"}
                         THEN r.stat[t] \in {"ready", "running"} ELSE r.stat[t] = x.stat[t]
    /\ r.cur = x.cur \/ x.stat[r.cur] = "ready"

(* The parts of rt_schedule: clearing the YIELD flag. *)
LEMMA ClearYieldFacts ==
    ASSUME NEW x, Sound(x)
    PROVE  LET r == ClearYield(x)
           IN  /\ Sound(r) /\ SameSwitch(r, x) /\ r.act = x.act /\ r.stat = x.stat
               /\ r.grp = x.grp /\ r.rq = x.rq /\ r.prio = x.prio
<1>1. x \in Kernel
  BY DEF Sound, SoundBut
<1>2. /\ ClearYield(x) \in Kernel /\ SameSwitch(ClearYield(x), x)
      /\ ClearYield(x).rq = x.rq /\ ClearYield(x).grp = x.grp /\ ClearYield(x).wait = x.wait
      /\ ClearYield(x).dead = x.dead /\ ClearYield(x).stat = x.stat
      /\ ClearYield(x).prio = x.prio /\ ClearYield(x).act = x.act /\ ClearYield(x).tmr = x.tmr
      /\ ClearYield(x).bad = x.bad
  BY <1>1 DEF Kernel, SameSwitch, ClearYield
<1> QED BY <1>1, <1>2, SameListsFacts DEF Sound

(* The current thread stays. *)
LEMMA KeepCurrentFacts ==
    ASSUME NEW x, Sound(x), CurrentRuns(x), x.stat[x.cur] = "running"
    PROVE  LET r == KeepCurrent(x)
           IN  Sound(r) /\ SameSwitch(r, x) /\ r.act = x.act /\ r.stat = x.stat
<1> DEFINE y == RemoveThread(x, x.cur)
<1>1. x \in Kernel /\ x.cur \in Thread /\ ~x.act[x.cur]
  BY DEF Sound, SoundBut, Kernel, Timers
<1>2. /\ SoundBut(y, {x.cur}) /\ Group(y, {}) /\ SameSwitch(y, x)
      /\ y.stat = x.stat /\ y.act = x.act
  BY <1>1, RemoveThreadFacts
<1> HIDE DEF y
<1> DEFINE z == [y EXCEPT !.stat[x.cur] = "running"]
<1>3. "running" \in Stat \ {"ready"}
  BY DEF Stat
<1>4. /\ Sound(z) /\ SameSwitch(z, y) /\ z.act = y.act
      /\ z.stat = [y.stat EXCEPT ![x.cur] = "running"]
  <2> DEFINE c == x.cur
  <2>1. c \in Thread /\ SoundBut(y, {c}) /\ Group(y, {}) /\ ~y.act[c]
    BY <1>1, <1>2
  <2> HIDE DEF c
  <2>2. LET w == [y EXCEPT !.stat[c] = "running"]
        IN  /\ Sound(w) /\ SameSwitch(w, y) /\ w.act = y.act
            /\ w.stat = [y.stat EXCEPT ![c] = "running"]
    BY <1>3, <2>1, SetStatFacts
  <2> QED BY <2>2 DEF c
<1>5. [x.stat EXCEPT ![x.cur] = "running"] = x.stat
  BY <1>1 DEF Kernel
<1>6. KeepCurrent(x) = z
  BY DEF KeepCurrent, y, z
<1> QED BY <1>2, <1>4, <1>5, <1>6 DEF SameSwitch

(* Another thread becomes the current one; the thread switched away from is  *)
(* put back into its queue if it was RUNNING.                                *)
LEMMA SwitchToFacts ==
    ASSUME NEW x, Sound(x), CurrentRuns(x), NEW h \in Thread, x.stat[h] = "ready"
    PROVE  LET r == SwitchTo(x, h, x.stat[x.cur] = "running")
           IN  /\ Sound(r) /\ CurrentRuns(r) /\ r.act = x.act
               /\ r.cur = h /\ r.flag /\ r.to = h /\ (r.from = IF x.flag THEN x.from ELSE x.cur)
               /\ r.stat = [t \in Thread |-> IF t = h THEN "running"
                                            ELSE IF x.stat[t] = "running" THEN "ready" ELSE x.stat[t]]
<1> DEFINE c == x.cur
           k1 == [x EXCEPT !.cur = h]
           k2 == IF x.stat[c] = "running" THEN InsertThread(k1, c) ELSE k1
           k3 == RemoveThread(k2, h)
           k4 == [k3 EXCEPT !.stat[h] = "running"]
           r == ContextSwitch(k4, c, h)
<1>0. /\ x \in Kernel /\ SoundBut(x, {}) /\ Group(x, {}) /\ c \in Thread /\ c # h
      /\ ~x.act[h] /\ (x.stat[c] = "running" => ~x.act[c])
  BY DEF Sound, SoundBut, Kernel, CurrentRuns, Timers
<1>1. /\ k1 \in Kernel /\ k1.cur = h /\ k1.flag = x.flag /\ k1.from = x.from /\ k1.to = x.to
      /\ k1.rq = x.rq /\ k1.grp = x.grp /\ k1.wait = x.wait /\ k1.dead = x.dead /\ k1.stat = x.stat
      /\ k1.prio = x.prio /\ k1.act = x.act /\ k1.tmr = x.tmr /\ k1.bad = x.bad
  BY <1>0 DEF Kernel
<1> HIDE DEF k1
<1>2. SoundBut(k1, {}) /\ Group(k1, {})
  BY <1>0, <1>1, SameListsFacts
<1>3. /\ Sound(k2) /\ SameSwitch(k2, k1) /\ k2.act = x.act
      /\ k2.stat = [t \in Thread |-> IF x.stat[t] = "running" THEN "ready" ELSE x.stat[t]]
  <2>1. CASE x.stat[c] = "running"
    <3>1. SoundBut(k1, {c})
      BY <1>1, <1>2, <2>1 DEF SoundBut, Queues, Waits, Defunct, Timers
    <3>2. Group(k1, {c}) /\ c # k1.cur /\ ~k1.act[c]
      BY <1>0, <1>1, <1>2, <2>1 DEF Group
    <3>3. /\ Sound(k2) /\ SameSwitch(k2, k1) /\ k2.act = k1.act
          /\ k2.stat = [k1.stat EXCEPT ![c] = "ready"]
      BY <1>0, <2>1, <3>1, <3>2, InsertThreadFacts
    <3>4. [k1.stat EXCEPT ![c] = "ready"]
             = [t \in Thread |-> IF x.stat[t] = "running" THEN "ready" ELSE x.stat[t]]
      BY <1>0, <1>1, <2>1 DEF Kernel, CurrentRuns
    <3> QED BY <1>1, <3>3, <3>4
  <2>2. CASE x.stat[c] # "running"
    <3>1. \A t \in Thread : x.stat[t] # "running"
      BY <2>2 DEF CurrentRuns
    <3>2. x.stat = [t \in Thread |-> IF x.stat[t] = "running" THEN "ready" ELSE x.stat[t]]
      BY <1>0, <3>1 DEF Kernel
    <3> QED BY <1>1, <1>2, <2>2, <3>2 DEF Sound, SameSwitch
  <2> QED BY <2>1, <2>2
<1> HIDE DEF k2
<1>4. /\ SoundBut(k3, {h}) /\ Group(k3, {}) /\ SameSwitch(k3, k2)
      /\ k3.stat = k2.stat /\ k3.act = k2.act
  BY <1>3, RemoveThreadFacts
<1> HIDE DEF k3
<1>5. /\ Sound(k4) /\ SameSwitch(k4, k3) /\ k4.act = k3.act
      /\ k4.stat = [k3.stat EXCEPT ![h] = "running"]
  <2>1. "running" \in Stat \ {"ready"} /\ ~k3.act[h]
    BY <1>0, <1>3, <1>4 DEF Stat
  <2> QED BY <1>4, <2>1, SetStatFacts
<1> HIDE DEF k4
<1>6. k4 \in Kernel
  BY <1>5 DEF Sound, SoundBut
<1>7. /\ r \in Kernel /\ r.cur = k4.cur /\ r.flag /\ r.to = h
      /\ (r.from = IF k4.flag THEN k4.from ELSE c)
      /\ r.rq = k4.rq /\ r.grp = k4.grp /\ r.wait = k4.wait /\ r.dead = k4.dead /\ r.stat = k4.stat
      /\ r.prio = k4.prio /\ r.act = k4.act /\ r.tmr = k4.tmr /\ r.bad = k4.bad
  BY <1>0, <1>6 DEF Kernel, ContextSwitch
<1> HIDE DEF r
<1>8. Sound(r)
  BY <1>5, <1>7, SameListsFacts DEF Sound
<1>9. /\ r.cur = h /\ (r.from = IF x.flag THEN x.from ELSE x.cur) /\ r.act = x.act
      /\ r.stat = [t \in Thread |-> IF t = h THEN "running"
                                   ELSE IF x.stat[t] = "running" THEN "ready" ELSE x.stat[t]]
  <2>1. r.cur = h /\ (r.from = IF x.flag THEN x.from ELSE x.cur) /\ r.act = x.act
    BY <1>1, <1>3, <1>4, <1>5, <1>7 DEF SameSwitch
  <2>2. r.stat = [k2.stat EXCEPT ![h] = "running"]
    BY <1>4, <1>5, <1>7
  <2> QED BY <1>3, <2>1, <2>2
<1>10. CurrentRuns(r)
  BY <1>9 DEF CurrentRuns
<1>11. SwitchTo(x, h, x.stat[x.cur] = "running") = r
  <2>1. SwitchTo(x, h, x.stat[x.cur] = "running")
          = ContextSwitch([RemoveThread(k2, h) EXCEPT !.stat[h] = "running"], x.cur, h)
    BY DEF SwitchTo, k2, k1
  <2> QED BY <2>1 DEF r, k4, k3
<1> QED BY <1>7, <1>8, <1>9, <1>10, <1>11

(* rt_schedule. *)
LEMMA ScheduleFacts ==
    ASSUME NEW x, Sound(x), CurrentRuns(x)
    PROVE  LET r == Schedule(x)
           IN  Sound(r) /\ CurrentRuns(r) /\ r.act = x.act /\ Switched(r, x)
<1>1. CASE x.lock # 0 \/ x.grp = {}
  BY <1>1 DEF Schedule, Switched
<1>2. CASE ~(x.lock # 0 \/ x.grp = {})
  <2> DEFINE c == ClearYield(x)
             h == Highest(x)
  <2>1. /\ Sound(c) /\ SameSwitch(c, x) /\ c.act = x.act /\ c.stat = x.stat
        /\ c.grp = x.grp /\ c.rq = x.rq /\ c.prio = x.prio
    BY ClearYieldFacts
  <2>2. h \in Thread /\ x.stat[h] = "ready" /\ h # x.cur
    BY <1>2, HighestIsReady DEF CurrentRuns
  <2> HIDE DEF c
  <2>3. CurrentRuns(c)
    BY <2>1 DEF CurrentRuns, SameSwitch
  <2>4. CASE Stays(x)
    <3>1. Schedule(x) = KeepCurrent(c)
      BY <1>2, <2>4 DEF Schedule, c
    <3>2. c.stat[c.cur] = "running"
      BY <2>1, <2>4 DEF Stays, SameSwitch
    <3>3. /\ Sound(KeepCurrent(c)) /\ SameSwitch(KeepCurrent(c), c)
          /\ KeepCurrent(c).act = c.act /\ KeepCurrent(c).stat = c.stat
      BY <2>1, <2>3, <3>2, KeepCurrentFacts
    <3> QED BY <2>1, <2>3, <3>1, <3>3 DEF CurrentRuns, SameSwitch, Switched
  <2>5. CASE ~Stays(x)
    <3> DEFINE r == SwitchTo(c, h, c.stat[c.cur] = "running")
    <3>1. Schedule(x) = r
      BY <1>2, <2>1, <2>2, <2>5 DEF Schedule, c, SameSwitch
    <3> HIDE DEF h
    <3>2. /\ Sound(r) /\ CurrentRuns(r) /\ r.act = c.act
          /\ r.cur = h /\ r.flag /\ r.to = h /\ (r.from = IF c.flag THEN c.from ELSE c.cur)
          /\ r.stat = [t \in Thread |-> IF t = h THEN "running"
                                       ELSE IF c.stat[t] = "running" THEN "ready" ELSE c.stat[t]]
      BY <2>1, <2>2, <2>3, SwitchToFacts
    <3> HIDE DEF r
    <3>3. Switched(r, x)
      BY <2>1, <2>2, <3>2 DEF Switched, SameSwitch
    <3> QED BY <2>1, <3>1, <3>2, <3>3
  <2> QED BY <2>4, <2>5
<1> QED BY <1>1, <1>2

-----------------------------------------------------------------------------
(* Of the fields that no list depends on the functions change very few.  r   *)
(* has the clock and the timers of x; its errors, priorities and lock.       *)
SameClock(r, x) == r.tick = x.tick /\ r.tmr = x.tmr /\ r.tout = x.tout
SameOwn(r, x)   == r.err = x.err /\ r.prio = x.prio /\ r.lock = x.lock

(* The wait lists without t. *)
WaitsWithout(x, t) == [o \in Obj |-> Unlink(x.wait[o], t)]

(* rt_schedule_remove_thread may clear a bit of the group. *)
LEMMA RemoveThreadRest ==
    ASSUME NEW x \in Kernel, NEW t \in Thread
    PROVE  LET r == RemoveThread(x, t)
           IN  /\ SameClock(r, x) /\ SameOwn(r, x) /\ r.act = x.act /\ r.cur = x.cur
               /\ r.wait = WaitsWithout(x, t) /\ r.grp \subseteq x.grp
<1> DEFINE l == ListRemove(x, t)
           r == RemoveThread(x, t)
<1>1. l \in Kernel
  BY ListRemoveFields
<1>2. SameClock(l, x) /\ SameOwn(l, x) /\ l.act = x.act /\ l.cur = x.cur /\ l.wait = WaitsWithout(x, t) /\ l.grp = x.grp
  BY DEF ListRemove, Kernel, SameClock, SameOwn, WaitsWithout
<1>3. r = [l EXCEPT !.grp = IF l.rq[x.prio[t]] = <<>> THEN l.grp \ {x.prio[t]} ELSE l.grp]
  BY <1>1 DEF RemoveThread, Kernel
<1> HIDE DEF l, r
<1>4. /\ SameClock(r, l) /\ SameOwn(r, l) /\ r.act = l.act /\ r.cur = l.cur /\ r.wait = l.wait
      /\ r.grp = IF l.rq[x.prio[t]] = <<>> THEN l.grp \ {x.prio[t]} ELSE l.grp
  BY <1>1, <1>3 DEF Kernel, SameClock, SameOwn
<1> QED BY <1>2, <1>4 DEF SameClock, SameOwn, r

(* rt_schedule_insert_thread may set one. *)
LEMMA InsertThreadRest ==
    ASSUME NEW x \in Kernel, NEW t \in Thread
    PROVE  LET r == InsertThread(x, t)
           IN  /\ SameClock(r, x) /\ SameOwn(r, x) /\ r.wait = x.wait
               /\ r.grp = IF t = x.cur THEN x.grp ELSE x.grp \cup {x.prio[t]}
BY DEF InsertThread, Kernel, SameClock, SameOwn

(* Timers.  The timer taken off the list is not activated any more. *)
LEMMA TimerRemoveRest ==
    ASSUME NEW x \in Kernel, NEW t \in Thread
    PROVE  LET r == TimerRemove(x, t)
           IN  /\ r.tick = x.tick /\ r.tmr = Unlink(x.tmr, t) /\ r.tout = [x.tout EXCEPT ![t] = 0]
               /\ SameOwn(r, x) /\ r.wait = x.wait /\ r.grp = x.grp
BY DEF TimerRemove, Kernel, SameOwn

LEMMA TimerStopRest ==
    ASSUME NEW x \in Kernel, NEW U, Timers(x, U), NEW t \in Thread
    PROVE  LET r == TimerStop(x, t)
           IN  /\ r.tick = x.tick /\ r.tmr = Unlink(x.tmr, t)
               /\ \A u \in Thread \ {t} : r.tout[u] = x.tout[u]
               /\ SameOwn(r, x) /\ r.wait = x.wait /\ r.grp = x.grp
<1>1. CASE x.act[t]
  <2>1. \A u \in Thread \ {t} : [x.tout EXCEPT ![t] = 0][u] = x.tout[u]
    BY DEF Kernel
  <2> QED BY <1>1, <2>1, TimerRemoveRest DEF TimerStop
<1>2. CASE ~x.act[t]
  BY <1>2, UnlinkAbsent DEF TimerStop, Timers, SameOwn
<1> QED BY <1>1, <1>2

(* A READY or RUNNING thread waits in no list. *)
LEMMA NotWaiting ==
    ASSUME NEW x, NEW U, Waits(x, U), x \in Kernel, NEW t \in Thread,
           t \in U \/ x.stat[t] # "suspend"
    PROVE  WaitsWithout(x, t) = x.wait
<1>1. \A o \in Obj : Unlink(x.wait[o], t) = x.wait[o]
  BY UnlinkAbsent DEF Waits
<1> QED BY <1>1 DEF WaitsWithout, Kernel

(* rt_thread_suspend. *)
LEMMA SuspendRest ==
    ASSUME NEW x, Sound(x), NEW t \in Thread
    PROVE  LET r == Suspend(x, t)
           IN  SameClock(r, x) /\ SameOwn(r, x) /\ r.wait = x.wait /\ r.grp \subseteq x.grp
<1>1. CASE x.stat[t] \notin {"ready", "running"}
  BY <1>1 DEF Suspend, SameClock, SameOwn
<1>2. CASE x.stat[t] \in {"ready", "running"}
  <2> DEFINE y == RemoveThread(x, t)
             z == [y EXCEPT !.stat[t] = "suspend"]
  <2>1. x \in Kernel /\ Waits(x, {}) /\ ~x.act[t]
    BY <1>2 DEF Sound, SoundBut, Timers
  <2>2. y \in Kernel
    BY RemoveThreadFacts DEF SoundBut
  <2>3. SameClock(y, x) /\ SameOwn(y, x) /\ y.wait = x.wait /\ y.act = x.act /\ y.grp \subseteq x.grp
    BY <1>2, <2>1, RemoveThreadRest, NotWaiting
  <2> HIDE DEF y
  <2>4. SameClock(z, y) /\ SameOwn(z, y) /\ z.wait = y.wait /\ z.act = y.act /\ z.grp = y.grp
    BY <2>2 DEF Kernel, SameClock, SameOwn
  <2>5. Suspend(x, t) = TimerStop(z, t)
    BY <1>2 DEF Suspend, z, y
  <2> HIDE DEF z
  <2>6. Suspend(x, t) = z
    BY <2>1, <2>3, <2>4, <2>5 DEF TimerStop
  <2> QED BY <2>3, <2>4, <2>6 DEF SameClock, SameOwn
<1> QED BY <1>1, <1>2

(* rt_thread_resume: of the lists and timers only those of the thread change. *)
LEMMA ResumeRest ==
    ASSUME NEW x, Sound(x), CurrentRuns(x), NEW t \in Thread
    PROVE  LET r == Resume(x, t)
           IN  /\ r.tick = x.tick /\ r.tmr = Unlink(x.tmr, t)
               /\ \A u \in Thread \ {t} : r.tout[u] = x.tout[u]
               /\ SameOwn(r, x) /\ r.wait = WaitsWithout(x, t)
               /\ r.grp \subseteq x.grp \cup (IF t = x.cur THEN {} ELSE {x.prio[t]})
<1> DEFINE y == ListRemove(x, t)
           z == TimerStop(y, t)
<1>1. x \in Kernel
  BY DEF Sound, SoundBut
<1>2. /\ SoundBut(y, {t}) /\ y \in Kernel /\ Timers(y, {t}) /\ SameSwitch(y, x)
  BY <1>1, ListRemoveLoosens, ListRemoveFields DEF SoundBut
<1>3. SameClock(y, x) /\ SameOwn(y, x) /\ y.wait = WaitsWithout(x, t) /\ y.grp = x.grp
  BY <1>1 DEF ListRemove, Kernel, SameClock, SameOwn, WaitsWithout
<1> HIDE DEF y
<1>4. z \in Kernel /\ SameSwitch(z, y)
  BY <1>2, TimerStopFacts DEF SoundBut
<1>5. /\ z.tick = y.tick /\ z.tmr = Unlink(y.tmr, t)
      /\ \A u \in Thread \ {t} : z.tout[u] = y.tout[u]
      /\ SameOwn(z, y) /\ z.wait = y.wait /\ z.grp = y.grp
  BY <1>2, TimerStopRest
<1>6. Resume(x, t) = InsertThread(z, t)
  BY DEF Resume, z, y
<1> HIDE DEF z
<1>7. /\ SameClock(InsertThread(z, t), z) /\ SameOwn(InsertThread(z, t), z)
      /\ InsertThread(z, t).wait = z.wait
      /\ InsertThread(z, t).grp = IF t = z.cur THEN z.grp ELSE z.grp \cup {z.prio[t]}
  BY <1>4, InsertThreadRest
<1> QED BY <1>2, <1>3, <1>4, <1>5, <1>6, <1>7 DEF SameClock, SameOwn, SameSwitch

(* _thread_timeout does the same and leaves the error behind. *)
LEMMA ExpireRest ==
    ASSUME NEW x, Sound(x), CurrentRuns(x), NEW t \in Thread, x.act[t]
    PROVE  LET r == Expire(x, t)
           IN  /\ r.tick = x.tick /\ r.tmr = Unlink(x.tmr, t)
               /\ \A u \in Thread \ {t} : r.tout[u] = x.tout[u]
               /\ r.err = [x.err EXCEPT ![t] = "timeout"] /\ r.prio = x.prio /\ r.lock = x.lock
               /\ r.wait = WaitsWithout(x, t)
               /\ r.grp \subseteq x.grp \cup (IF t = x.cur THEN {} ELSE {x.prio[t]})
<1> DEFINE w == TimerRemove(x, t)
           v == [w EXCEPT !.err[t] = "timeout"]
           y == ListRemove(v, t)
<1>1. x \in Kernel /\ SoundBut(x, {})
  BY DEF Sound, SoundBut
<1>2. /\ w \in Kernel /\ SameSwitch(w, x)
      /\ w.tick = x.tick /\ w.tmr = Unlink(x.tmr, t) /\ w.tout = [x.tout EXCEPT ![t] = 0]
      /\ SameOwn(w, x) /\ w.wait = x.wait /\ w.grp = x.grp
  BY <1>1, TimerRemoveFacts, TimerRemoveRest DEF SoundBut
<1> HIDE DEF w
<1>3. /\ v \in Kernel /\ SameSwitch(v, w) /\ SameClock(v, w) /\ v.err = [w.err EXCEPT ![t] = "timeout"]
      /\ v.prio = w.prio /\ v.lock = w.lock /\ v.wait = w.wait /\ v.grp = w.grp
  BY <1>2 DEF Kernel, Err, SameSwitch, SameClock
<1> HIDE DEF v
<1>4. y \in Kernel /\ SameSwitch(y, v)
  BY <1>3, ListRemoveFields
<1>5. SameClock(y, v) /\ SameOwn(y, v) /\ y.wait = WaitsWithout(v, t) /\ y.grp = v.grp
  BY <1>3 DEF ListRemove, Kernel, SameClock, SameOwn, WaitsWithout
<1>6. Expire(x, t) = InsertThread(y, t)
  BY DEF Expire, y, v, w
<1> HIDE DEF y
<1>7. /\ SameClock(InsertThread(y, t), y) /\ SameOwn(InsertThread(y, t), y)
      /\ InsertThread(y, t).wait = y.wait
      /\ InsertThread(y, t).grp = IF t = y.cur THEN y.grp ELSE y.grp \cup {y.prio[t]}
  BY <1>4, InsertThreadRest
<1>8. \A u \in Thread \ {t} : w.tout[u] = x.tout[u]
  BY <1>1, <1>2 DEF Kernel
<1>9. WaitsWithout(v, t) = WaitsWithout(x, t)
  BY <1>2, <1>3 DEF WaitsWithout
<1>10. y.cur = x.cur /\ y.prio = x.prio /\ y.grp = x.grp
  BY <1>2, <1>3, <1>4, <1>5 DEF SameSwitch, SameOwn
<1> QED BY <1>2, <1>3, <1>5, <1>6, <1>7, <1>8, <1>9, <1>10 DEF SameClock, SameOwn

(* _thread_exit. *)
LEMMA ExitRest ==
    ASSUME NEW x, Sound(x), NEW t \in Thread
    PROVE  LET r == Close(RemoveThread(x, t), t)
           IN  /\ r.tick = x.tick /\ r.tmr = Unlink(x.tmr, t)
               /\ \A u \in Thread \ {t} : r.tout[u] = x.tout[u]
               /\ SameOwn(r, x) /\ r.wait = WaitsWithout(x, t) /\ r.grp \subseteq x.grp
<1> DEFINE y == RemoveThread(x, t)
           z == TimerRemove(y, t)
           r == Close(y, t)
<1>1. x \in Kernel
  BY DEF Sound, SoundBut
<1>2. /\ y \in Kernel /\ SoundBut(y, {t})
      /\ SameClock(y, x) /\ SameOwn(y, x) /\ y.wait = WaitsWithout(x, t) /\ y.grp \subseteq x.grp
  BY <1>1, RemoveThreadFacts, RemoveThreadRest DEF SoundBut
<1> HIDE DEF y
<1>3. /\ z \in Kernel /\ z.tick = y.tick /\ z.tmr = Unlink(y.tmr, t) /\ z.tout = [y.tout EXCEPT ![t] = 0]
      /\ SameOwn(z, y) /\ z.wait = y.wait /\ z.grp = y.grp
  BY <1>2, TimerRemoveFacts, TimerRemoveRest DEF SoundBut
<1>4. r = [z EXCEPT !.stat[t] = "close", !.dead = PushFront(@, t), !.bad = @ \/ Linked(y, t),
                    !.yld[t] = FALSE]
  BY DEF Close, r, z
<1> HIDE DEF z, r
<1>5. SameClock(r, z) /\ SameOwn(r, z) /\ r.wait = z.wait /\ r.grp = z.grp
  BY <1>3, <1>4 DEF Kernel, SameClock, SameOwn
<1>6. \A u \in Thread \ {t} : z.tout[u] = y.tout[u]
  BY <1>2, <1>3 DEF Kernel
<1> QED BY <1>2, <1>3, <1>5, <1>6 DEF SameClock, SameOwn, r, y

(* RT_THREAD_CTRL_CHANGE_PRIORITY. *)
LEMMA ChangePriorityRest ==
    ASSUME NEW x, Sound(x), NEW t \in Thread, NEW p \in Prio
    PROVE  LET r == ChangePriority(x, t, p)
           IN  /\ SameClock(r, x) /\ r.wait = x.wait /\ r.err = x.err /\ r.lock = x.lock
               /\ r.prio = [x.prio EXCEPT ![t] = p]
<1>0. x \in Kernel
  BY DEF Sound, SoundBut
<1>1. CASE x.stat[t] = "ready"
  <2> DEFINE y == RemoveThread(x, t)
             z == [y EXCEPT !.prio[t] = p]
  <2>1. /\ y \in Kernel /\ SameClock(y, x) /\ SameOwn(y, x) /\ y.wait = x.wait
    BY <1>0, <1>1, RemoveThreadFacts, RemoveThreadRest, NotWaiting DEF SoundBut, Sound
  <2> HIDE DEF y
  <2>2. /\ z \in Kernel /\ SameClock(z, y) /\ z.wait = y.wait /\ z.err = y.err /\ z.lock = y.lock
        /\ z.prio = [y.prio EXCEPT ![t] = p]
    BY <2>1 DEF Kernel, SameClock
  <2>3. ChangePriority(x, t, p) = InsertThread(z, t)
    BY <1>1 DEF ChangePriority, z, y
  <2> HIDE DEF z
  <2>4. /\ SameClock(InsertThread(z, t), z) /\ SameOwn(InsertThread(z, t), z)
        /\ InsertThread(z, t).wait = z.wait
    BY <2>2, InsertThreadRest
  <2> QED BY <2>1, <2>2, <2>3, <2>4 DEF SameClock, SameOwn
<1>2. CASE x.stat[t] # "ready"
  BY <1>0, <1>2 DEF ChangePriority, Kernel, SameClock
<1> QED BY <1>1, <1>2

(* rt_tick_increase. *)
LEMMA CountTickRest ==
    ASSUME NEW x \in Kernel
    PROVE  LET r == CountTick(x)
           IN  /\ r.tick = (x.tick + 1) % TickMod /\ r.tmr = x.tmr /\ r.tout = x.tout
               /\ SameOwn(r, x) /\ r.wait = x.wait /\ r.grp = x.grp
BY DEF CountTick, Kernel, SameOwn

-----------------------------------------------------------------------------
(* rt_tick_t: differences and sums below 2^32. *)
LEMMA MinusIs ==
    ASSUME NEW a \in Tick, NEW b \in Tick
    PROVE  Minus(a, b) \in Tick /\ Minus(a, b) = IF b <= a THEN a - b ELSE a - b + TickMod
BY KernelAssumption DEF Minus, Tick

LEMMA PlusIs ==
    ASSUME NEW a \in Tick, NEW n \in Tick
    PROVE  /\ (a + n) % TickMod \in Tick
           /\ (a + n) % TickMod = IF a + n < TickMod THEN a + n ELSE a + n - TickMod
BY KernelAssumption DEF Tick

LEMMA HalfIs ==
    Half \in Nat /\ 2 * Half < TickMod /\ TickMod <= 2 * Half + 2
BY KernelAssumption DEF Half

(* How long after the instant b the timers fire. *)
Lead(x, b) == [t \in Thread |-> Minus(x.tout[t], b)]

LEMMA LeadType ==
    ASSUME NEW x \in Kernel, NEW b \in Tick
    PROVE  /\ Lead(x, b) \in [Thread -> Tick] /\ Lead(x, b) \in [Thread -> Int]
           /\ \A t \in Thread : Lead(x, b)[t] = Minus(x.tout[t], b)
<1>1. \A t \in Thread : x.tout[t] \in Tick
  BY DEF Kernel
<1>2. \A t \in Thread : Minus(x.tout[t], b) \in Tick
  BY <1>1, MinusIs
<1>3. Tick \subseteq Int
  BY DEF Tick
<1> QED BY <1>2, <1>3 DEF Lead

(* A timer that is to fire in n ticks is in front of those that fire later:  *)
(* Later compares instants as the leads from now do.                         *)
LEMMA LaterIs ==
    ASSUME NEW now \in Tick, NEW n \in 0..(Half - 1), NEW at, at = (now + n) % TickMod
    PROVE  /\ Minus(at, now) = n
           /\ \A o \in Tick : Minus(o, now) < Half =>
                 ((Minus(o, at) # 0 /\ Minus(o, at) < Half) <=> Minus(o, now) > n)
<1>1. n \in Tick /\ n \in Nat
  BY HalfIs, KernelAssumption DEF Tick
<1>2. at \in Tick /\ at = IF now + n < TickMod THEN now + n ELSE now + n - TickMod
  BY <1>1, PlusIs
<1>3. Minus(at, now) = IF now <= at THEN at - now ELSE at - now + TickMod
  BY <1>2, MinusIs
<1>4. /\ TickMod \in Int /\ now \in Int /\ 0 <= now /\ now < TickMod
      /\ Half \in Int /\ 2 * Half < TickMod /\ n < Half /\ 0 <= n
  BY HalfIs, KernelAssumption DEF Tick
<1>5. Minus(at, now) = n
  BY <1>1, <1>2, <1>3, <1>4
<1>6. ASSUME NEW o \in Tick, Minus(o, now) < Half
      PROVE  (Minus(o, at) # 0 /\ Minus(o, at) < Half) <=> Minus(o, now) > n
  <2>1. Minus(o, now) = IF now <= o THEN o - now ELSE o - now + TickMod
    BY MinusIs
  <2>2. Minus(o, at) = IF at <= o THEN o - at ELSE o - at + TickMod
    BY <1>2, MinusIs
  <2>3. o \in Int /\ 0 <= o /\ o < TickMod
    BY KernelAssumption DEF Tick
  <2> QED BY <1>1, <1>2, <1>4, <1>6, <2>1, <2>2, <2>3
<1> QED BY <1>5, <1>6

(* rt_timer_start puts the timer in its place: the list stays in the order   *)
(* of expiry.                                                                *)
LEMMA TimerStartOrder ==
    ASSUME NEW x, Sound(x), NEW t \in Thread, NEW n \in 0..(Half - 1),
           InOrder(x.tmr, Lead(x, x.tick)),
           \A u \in Thread : x.act[u] => Lead(x, x.tick)[u] < Half
    PROVE  LET r == TimerStart(x, t, n)
           IN  /\ r.tick = x.tick /\ SameOwn(r, x) /\ r.wait = x.wait /\ r.grp = x.grp
               /\ r.tout[t] = (x.tick + n) % TickMod
               /\ \A u \in Thread \ {t} : r.tout[u] = x.tout[u]
               /\ InOrder(r.tmr, Lead(r, x.tick))
               /\ Lead(r, x.tick)[t] = n
<1> DEFINE y == TimerRemove(x, t)
           at == (x.tick + n) % TickMod
           i == Position(y, at)
           r == TimerStart(x, t, n)
           f == Lead(r, x.tick)
<1>0. x \in Kernel /\ SoundBut(x, {}) /\ x.tick \in Tick /\ n \in Tick /\ x.tmr \in Seq(Thread)
  <2>1. x \in Kernel /\ SoundBut(x, {}) /\ x.tick \in Tick /\ x.tmr \in Seq(Thread)
    BY DEF Sound, SoundBut, Kernel
  <2>2. n \in Tick
    BY HalfIs, KernelAssumption DEF Tick
  <2> QED BY <2>1, <2>2
<1>1. /\ y \in Kernel /\ Timers(y, {}) /\ t \notin Elems(y.tmr)
      /\ y.act = [x.act EXCEPT ![t] = FALSE]
  BY <1>0, TimerRemoveFacts DEF SoundBut
<1>2. /\ y.tick = x.tick /\ y.tmr = Unlink(x.tmr, t) /\ y.tout = [x.tout EXCEPT ![t] = 0]
      /\ SameOwn(y, x) /\ y.wait = x.wait /\ y.grp = x.grp
  BY <1>0, TimerRemoveRest
<1>3. at \in Tick
  BY <1>0, PlusIs
<1>4. r = [y EXCEPT !.tout[t] = at, !.act[t] = TRUE, !.tmr = LinkAfter(y.tmr, i, t)]
  BY DEF TimerStart
<1>a. /\ Minus(at, x.tick) = n
      /\ \A o \in Tick : Minus(o, x.tick) < Half =>
            ((Minus(o, at) # 0 /\ Minus(o, at) < Half) <=> Minus(o, x.tick) > n)
  <2> DEFINE now == x.tick
  <2>1. now \in Tick /\ at = (now + n) % TickMod
    BY <1>0
  <2> HIDE DEF now, at
  <2>2. /\ Minus(at, now) = n
        /\ \A o \in Tick : Minus(o, now) < Half =>
              ((Minus(o, at) # 0 /\ Minus(o, at) < Half) <=> Minus(o, now) > n)
    BY <2>1, LaterIs
  <2> QED BY <2>2 DEF now
<1> HIDE DEF y, at, i, r
<1>5. /\ r.tick = y.tick /\ r.tmr = LinkAfter(y.tmr, i, t) /\ r.tout = [y.tout EXCEPT ![t] = at]
      /\ SameOwn(r, y) /\ r.wait = y.wait /\ r.grp = y.grp
  BY <1>1, <1>4 DEF Kernel, SameOwn
<1>6. \A u \in Thread : r.tout[u] = IF u = t THEN at ELSE x.tout[u]
  BY <1>0, <1>1, <1>2, <1>5 DEF Kernel
<1>7. /\ \A u \in Thread : f[u] = IF u = t THEN n ELSE Lead(x, x.tick)[u]
      /\ f \in [Thread -> Int]
  <2>3. \A u \in Thread : f[u] = Minus(r.tout[u], x.tick) /\ Lead(x, x.tick)[u] = Minus(x.tout[u], x.tick)
    BY DEF Lead
  <2>4. \A u \in Thread : f[u] = IF u = t THEN n ELSE Lead(x, x.tick)[u]
    BY <1>6, <1>a, <2>3
  <2>5. n \in Int /\ Lead(x, x.tick) \in [Thread -> Int]
    BY <1>0, LeadType
  <2>6. f = [u \in Thread |-> IF u = t THEN n ELSE Lead(x, x.tick)[u]]
    BY <2>4 DEF Lead
  <2> QED BY <2>4, <2>5, <2>6
<1> HIDE DEF f
<1>8. InOrder(y.tmr, f)
  <2>1. y.tmr \in Seq(Thread) /\ Elems(y.tmr) \subseteq Thread
    BY <1>1, ElemsType DEF Kernel
  <2>2. \A e \in Elems(y.tmr) : f[e] = Lead(x, x.tick)[e]
    BY <1>1, <1>7, <2>1
  <2>3. InOrder(y.tmr, Lead(x, x.tick))
    BY <1>0, <1>2, UnlinkInOrder
  <2> QED BY <2>2, <2>3, InOrderSame
<1>9. ASSUME NEW j \in 1..Len(y.tmr)
      PROVE  Later(y, y.tmr[j], at) <=> f[y.tmr[j]] > n
  <2> DEFINE u == y.tmr[j]
  <2>1. y.tmr \in Seq(Thread) /\ u \in Elems(y.tmr) /\ u \in Thread /\ u # t
    BY <1>1 DEF Kernel, Elems
  <2> HIDE DEF u
  <2>2. x.act[u] /\ y.tout[u] = x.tout[u] /\ x.tout[u] \in Tick
    BY <1>0, <1>1, <1>2, <2>1 DEF Timers, Kernel
  <2>3. Minus(x.tout[u], x.tick) < Half /\ f[u] = Minus(x.tout[u], x.tick)
    BY <1>7, <2>1, <2>2 DEF Lead
  <2>4. (Minus(x.tout[u], at) # 0 /\ Minus(x.tout[u], at) < Half) <=> Minus(x.tout[u], x.tick) > n
    BY <1>a, <2>2, <2>3
  <2> QED BY <2>2, <2>3, <2>4 DEF Later, u
<1>10. /\ y.tmr \in Seq(Thread) /\ i \in 0..Len(y.tmr)
       /\ \A j \in 1..i : ~Later(y, y.tmr[j], at)
       /\ i < Len(y.tmr) => Later(y, y.tmr[i + 1], at)
  BY <1>1, PositionInList DEF i, Kernel
<1>11. InOrder(r.tmr, f)
  <2>1. \A j \in 1..i : f[y.tmr[j]] <= f[t]
    <3>1. \A j \in 1..i : j \in 1..Len(y.tmr) /\ y.tmr[j] \in Thread
      BY <1>10
    <3>2. \A j \in 1..i : ~(f[y.tmr[j]] > n)
      BY <1>9, <1>10, <3>1
    <3>3. f[t] = n
      BY <1>7
    <3> QED BY <1>7, <3>1, <3>2, <3>3
  <2>2. i < Len(y.tmr) => f[t] <= f[y.tmr[i + 1]]
    <3> SUFFICES ASSUME i < Len(y.tmr) PROVE f[t] <= f[y.tmr[i + 1]]
      OBVIOUS
    <3>1. i + 1 \in 1..Len(y.tmr) /\ y.tmr[i + 1] \in Thread
      BY <1>10
    <3>2. f[y.tmr[i + 1]] > n
      BY <1>9, <1>10, <3>1
    <3>3. f[t] = n
      BY <1>7
    <3> QED BY <1>7, <3>1, <3>2, <3>3
  <2> QED BY <1>5, <1>7, <1>8, <1>10, <2>1, <2>2, LinkAfterInOrder
<1>12. r.tout[t] = at /\ f[t] = n /\ \A u \in Thread \ {t} : r.tout[u] = x.tout[u]
  BY <1>6, <1>7
<1> QED BY <1>2, <1>5, <1>11, <1>12 DEF SameOwn, r, f, at

-----------------------------------------------------------------------------
(* The tick. *)
LEMMA NextTick ==
    ASSUME NEW now \in Tick
    PROVE  /\ (now + 1) % TickMod \in Tick
           /\ Minus((now + 1) % TickMod, 1) = now
<1>1. 1 \in Tick
  BY KernelAssumption DEF Tick
<1> DEFINE r == (now + 1) % TickMod
<1>2. r \in Tick /\ r = IF now + 1 < TickMod THEN now + 1 ELSE now + 1 - TickMod
  BY <1>1, PlusIs
<1> HIDE DEF r
<1>3. Minus(r, 1) = IF 1 <= r THEN r - 1 ELSE r - 1 + TickMod
  BY <1>1, <1>2, MinusIs
<1>4. Minus(r, 1) = now
  BY <1>2, <1>3, KernelAssumption DEF Tick
<1> QED BY <1>2, <1>4 DEF r

(* A timer that has not fired one tick after b fires more than one tick      *)
(* after b.                                                                  *)
LEMMA NotFired ==
    ASSUME NEW now \in Tick, NEW o \in Tick, Minus(o, Minus(now, 1)) < Half, ~(Minus(now, o) < Half)
    PROVE  Minus(o, Minus(now, 1)) > 1
<1> DEFINE b == Minus(now, 1)
<1>1. 1 \in Tick
  BY KernelAssumption DEF Tick
<1>2. b \in Tick /\ b = IF 1 <= now THEN now - 1 ELSE now - 1 + TickMod
  BY <1>1, MinusIs
<1> HIDE DEF b
<1>3. Minus(o, b) = IF b <= o THEN o - b ELSE o - b + TickMod
  BY <1>2, MinusIs
<1>4. Minus(now, o) = IF o <= now THEN now - o ELSE now - o + TickMod
  BY MinusIs
<1>5. Half > 1 /\ Half \in Int /\ 2 * Half < TickMod /\ TickMod <= 2 * Half + 2
  BY HalfIs, KernelAssumption
<1>6. Minus(o, b) > 1
  <2>1. Minus(o, b) < Half /\ ~(Minus(now, o) < Half)
    BY DEF b
  <2>2. TickMod \in Int /\ now \in Int /\ o \in Int /\ 0 <= now /\ now < TickMod /\ 0 <= o /\ o < TickMod
    BY KernelAssumption DEF Tick
  <2> QED BY <1>2, <1>3, <1>4, <1>5, <2>1, <2>2
<1> QED BY <1>6 DEF b

LEMMA OneTickLess ==
    ASSUME NEW now \in Tick, NEW o \in Tick, Minus(o, Minus(now, 1)) > 1
    PROVE  Minus(o, now) = Minus(o, Minus(now, 1)) - 1
<1> DEFINE b == Minus(now, 1)
<1>1. 1 \in Tick
  BY KernelAssumption DEF Tick
<1>2. b \in Tick /\ b = IF 1 <= now THEN now - 1 ELSE now - 1 + TickMod
  BY <1>1, MinusIs
<1> HIDE DEF b
<1>3. Minus(o, b) = IF b <= o THEN o - b ELSE o - b + TickMod
  BY <1>2, MinusIs
<1>4. Minus(o, now) = IF now <= o THEN o - now ELSE o - now + TickMod
  BY MinusIs
<1>5. Minus(o, now) = Minus(o, b) - 1
  <2>1. Minus(o, b) > 1
    BY DEF b
  <2>2. TickMod \in Int /\ now \in Int /\ o \in Int /\ 0 <= now /\ now < TickMod /\ 0 <= o /\ o < TickMod
    BY KernelAssumption DEF Tick
  <2> QED BY <1>2, <1>3, <1>4, <2>1, <2>2
<1> QED BY <1>5 DEF b

-----------------------------------------------------------------------------
(* The thread that rt_schedule leaves current is RUNNING, and no bit of the  *)
(* group stands for a higher priority.                                       *)
Rules(x) == x.stat[x.cur] = "running" /\ \A q \in x.grp : x.prio[x.cur] <= q

LEMMA HighestIsLeast ==
    ASSUME NEW x \in Kernel, x.grp # {}
    PROVE  HighestPriority(x) \in Prio /\ \A q \in x.grp : HighestPriority(x) <= q
<1>1. x.grp \subseteq Prio /\ x.grp \subseteq Nat
  BY KernelAssumption DEF Kernel, Prio
<1>2. \E p \in x.grp : \A q \in x.grp : p <= q
  BY <1>1, Least
<1> QED BY <1>1, <1>2 DEF HighestPriority

LEMMA ClearYieldRest ==
    ASSUME NEW x \in Kernel
    PROVE  LET r == ClearYield(x)
           IN  SameClock(r, x) /\ SameOwn(r, x) /\ r.wait = x.wait
BY DEF ClearYield, Kernel, SameClock, SameOwn

LEMMA KeepCurrentRest ==
    ASSUME NEW x, Sound(x), x.stat[x.cur] = "running"
    PROVE  LET r == KeepCurrent(x)
           IN  SameClock(r, x) /\ SameOwn(r, x) /\ r.wait = x.wait /\ r.grp \subseteq x.grp
<1> DEFINE y == RemoveThread(x, x.cur)
<1>1. x \in Kernel /\ x.cur \in Thread /\ Waits(x, {})
  BY DEF Sound, SoundBut, Kernel
<1>2. WaitsWithout(x, x.cur) = x.wait
  BY <1>1, NotWaiting
<1>3. y \in Kernel /\ SameClock(y, x) /\ SameOwn(y, x) /\ y.wait = x.wait /\ y.grp \subseteq x.grp
  BY <1>1, <1>2, RemoveThreadFacts, RemoveThreadRest DEF SoundBut
<1>4. KeepCurrent(x) = [y EXCEPT !.stat[x.cur] = "running"]
  BY DEF KeepCurrent
<1> HIDE DEF y
<1> QED BY <1>3, <1>4 DEF Kernel, SameClock, SameOwn

LEMMA SwitchToRest ==
    ASSUME NEW x, Sound(x), CurrentRuns(x), NEW h \in Thread, x.stat[h] = "ready"
    PROVE  LET r == SwitchTo(x, h, x.stat[x.cur] = "running")
           IN  /\ SameClock(r, x) /\ SameOwn(r, x) /\ r.wait = x.wait
               /\ r.grp \subseteq x.grp \cup (IF x.stat[x.cur] = "running" THEN {x.prio[x.cur]} ELSE {})
<1> DEFINE c == x.cur
           k1 == [x EXCEPT !.cur = h]
           k2 == IF x.stat[c] = "running" THEN InsertThread(k1, c) ELSE k1
           k3 == RemoveThread(k2, h)
           k4 == [k3 EXCEPT !.stat[h] = "running"]
           r == ContextSwitch(k4, c, h)
<1>0. /\ x \in Kernel /\ SoundBut(x, {}) /\ Group(x, {}) /\ c \in Thread /\ c # h
      /\ ~x.act[h] /\ (x.stat[c] = "running" => ~x.act[c])
  BY DEF Sound, SoundBut, Kernel, CurrentRuns, Timers
<1>1. /\ k1 \in Kernel /\ k1.cur = h /\ SameClock(k1, x) /\ SameOwn(k1, x)
      /\ k1.rq = x.rq /\ k1.grp = x.grp /\ k1.wait = x.wait /\ k1.dead = x.dead /\ k1.stat = x.stat
      /\ k1.prio = x.prio /\ k1.act = x.act /\ k1.tmr = x.tmr /\ k1.bad = x.bad
  BY <1>0 DEF Kernel, SameClock, SameOwn
<1> HIDE DEF k1
<1>2. SoundBut(k1, {}) /\ Group(k1, {})
  BY <1>0, <1>1, SameListsFacts
<1>3. /\ Sound(k2) /\ SameClock(k2, x) /\ SameOwn(k2, x) /\ k2.wait = x.wait
      /\ k2.stat[h] = "ready"
      /\ k2.grp = x.grp \cup (IF x.stat[c] = "running" THEN {x.prio[c]} ELSE {})
  <2>1. CASE x.stat[c] = "running"
    <3>1. SoundBut(k1, {c})
      BY <1>1, <1>2, <2>1 DEF SoundBut, Queues, Waits, Defunct, Timers
    <3>2. Group(k1, {c}) /\ c # k1.cur /\ ~k1.act[c]
      BY <1>0, <1>1, <1>2, <2>1 DEF Group
    <3>3. Sound(k2) /\ k2.stat = [k1.stat EXCEPT ![c] = "ready"]
      BY <1>0, <2>1, <3>1, <3>2, InsertThreadFacts
    <3>4. /\ SameClock(k2, k1) /\ SameOwn(k2, k1) /\ k2.wait = k1.wait
          /\ k2.grp = k1.grp \cup {k1.prio[c]}
      BY <1>0, <1>1, <2>1, InsertThreadRest
    <3>5. k2.stat[h] = "ready"
      <4>1. k1.stat \in [Thread -> Stat] /\ k1.stat[h] = "ready"
        BY <1>1 DEF Kernel
      <4> HIDE DEF k2
      <4> QED BY <1>0, <3>3, <4>1
    <3> QED BY <1>1, <2>1, <3>3, <3>4, <3>5 DEF SameClock, SameOwn
  <2>2. CASE x.stat[c] # "running"
    BY <1>1, <1>2, <2>2 DEF Sound, SameClock, SameOwn
  <2> QED BY <2>1, <2>2
<1> HIDE DEF k2
<1>4. /\ k3 \in Kernel /\ SameClock(k3, k2) /\ SameOwn(k3, k2) /\ k3.wait = k2.wait /\ k3.grp \subseteq k2.grp
  <2>1. k2 \in Kernel /\ Waits(k2, {})
    BY <1>3 DEF Sound, SoundBut
  <2>2. WaitsWithout(k2, h) = k2.wait
    BY <1>3, <2>1, NotWaiting
  <2> QED BY <1>3, <2>1, <2>2, RemoveThreadFacts, RemoveThreadRest DEF SoundBut
<1> HIDE DEF k3
<1>5. /\ k4 \in Kernel /\ SameClock(k4, k3) /\ SameOwn(k4, k3) /\ k4.wait = k3.wait /\ k4.grp = k3.grp
  BY <1>4 DEF Kernel, Stat, SameClock, SameOwn
<1> HIDE DEF k4
<1>6. SameClock(r, k4) /\ SameOwn(r, k4) /\ r.wait = k4.wait /\ r.grp = k4.grp
  BY <1>5 DEF Kernel, ContextSwitch, SameClock, SameOwn
<1>7. SwitchTo(x, h, x.stat[x.cur] = "running") = r
  <2>1. SwitchTo(x, h, x.stat[x.cur] = "running")
          = ContextSwitch([RemoveThread(k2, h) EXCEPT !.stat[h] = "running"], x.cur, h)
    BY DEF SwitchTo, k2, k1
  <2> QED BY <2>1 DEF r, k4, k3
<1> HIDE DEF r
<1> QED BY <1>3, <1>4, <1>5, <1>6, <1>7 DEF SameClock, SameOwn

(* rt_schedule touches no clock, no timer, no wait list, no error and no     *)
(* priority; unless the scheduler is locked, its choice is right.            *)
LEMMA ScheduleRest ==
    ASSUME NEW x, Sound(x), CurrentRuns(x)
    PROVE  LET r == Schedule(x)
           IN  /\ SameClock(r, x) /\ SameOwn(r, x) /\ r.wait = x.wait
               /\ x.lock = 0 /\ (x.stat[x.cur] = "running" \/ x.grp # {}) => Rules(r)
<1>1. CASE x.lock # 0 \/ x.grp = {}
  BY <1>1 DEF Schedule, SameClock, SameOwn, Rules
<1>2. CASE ~(x.lock # 0 \/ x.grp = {})
  <2> DEFINE c == ClearYield(x)
             h == Highest(x)
             hp == HighestPriority(x)
  <2>0. x \in Kernel /\ x.prio[x.cur] \in Int
    <3>1. x \in Kernel /\ x.prio[x.cur] \in Prio
      BY DEF Sound, SoundBut, Kernel
    <3>2. Prio \subseteq Int
      BY KernelAssumption DEF Prio
    <3> QED BY <3>1, <3>2
  <2>1. /\ Sound(c) /\ SameSwitch(c, x) /\ c.act = x.act /\ c.stat = x.stat
        /\ c.grp = x.grp /\ c.rq = x.rq /\ c.prio = x.prio
        /\ SameClock(c, x) /\ SameOwn(c, x) /\ c.wait = x.wait
    BY <2>0, ClearYieldFacts, ClearYieldRest
  <2>2. h \in Thread /\ x.stat[h] = "ready" /\ h # x.cur /\ x.prio[h] = hp
    BY <1>2, HighestIsReady DEF CurrentRuns
  <2>3. hp \in Int /\ \A q \in x.grp : q \in Int /\ hp <= q
    <3>1. x.grp \subseteq Prio /\ Prio \subseteq Int
      BY <2>0, KernelAssumption DEF Kernel, Prio
    <3> QED BY <1>2, <2>0, <3>1, HighestIsLeast
  <2> HIDE DEF c
  <2>4. CurrentRuns(c)
    BY <2>1 DEF CurrentRuns, SameSwitch
  <2>5. CASE Stays(x)
    <3>1. Schedule(x) = KeepCurrent(c)
      BY <1>2, <2>5 DEF Schedule, c
    <3>2. c.stat[c.cur] = "running"
      BY <2>1, <2>5 DEF Stays, SameSwitch
    <3>3. /\ SameSwitch(KeepCurrent(c), c) /\ KeepCurrent(c).stat = c.stat
          /\ SameClock(KeepCurrent(c), c) /\ SameOwn(KeepCurrent(c), c)
          /\ KeepCurrent(c).wait = c.wait /\ KeepCurrent(c).grp \subseteq c.grp
      BY <2>1, <2>4, <3>2, KeepCurrentFacts, KeepCurrentRest
    <3>4. x.prio[x.cur] <= hp
      BY <2>0, <2>3, <2>5 DEF Stays
    <3>5. \A q \in x.grp : x.prio[x.cur] <= q
      <4> HIDE DEF hp
      <4> QED BY <2>0, <2>3, <3>4
    <3> DEFINE r == KeepCurrent(c)
    <3> HIDE DEF r
    <3>6. SameClock(r, x) /\ SameOwn(r, x) /\ r.wait = x.wait
      BY <2>1, <3>3 DEF SameClock, SameOwn, r
    <3>7. r.cur = x.cur /\ r.stat[r.cur] = "running" /\ r.grp \subseteq x.grp /\ r.prio = x.prio
      BY <2>1, <3>2, <3>3 DEF SameSwitch, SameOwn, r
    <3>8. Rules(r)
      BY <3>5, <3>7 DEF Rules
    <3> QED BY <3>1, <3>6, <3>8 DEF r
  <2>6. CASE ~Stays(x)
    <3> DEFINE r == SwitchTo(c, h, c.stat[c.cur] = "running")
    <3>1. Schedule(x) = r
      BY <1>2, <2>1, <2>2, <2>6 DEF Schedule, c, SameSwitch
    <3> HIDE DEF h
    <3>2. /\ r.cur = h
          /\ r.stat = [t \in Thread |-> IF t = h THEN "running"
                                       ELSE IF c.stat[t] = "running" THEN "ready" ELSE c.stat[t]]
      BY <2>1, <2>2, <2>4, SwitchToFacts
    <3>3. /\ SameClock(r, c) /\ SameOwn(r, c) /\ r.wait = c.wait
          /\ r.grp \subseteq c.grp \cup (IF c.stat[c.cur] = "running" THEN {c.prio[c.cur]} ELSE {})
      BY <2>1, <2>2, <2>4, SwitchToRest
    <3> HIDE DEF r
    <3>4. SameClock(r, x) /\ SameOwn(r, x) /\ r.wait = x.wait
      BY <2>1, <3>3 DEF SameClock, SameOwn
    <3>5. r.stat[r.cur] = "running" /\ r.prio[r.cur] = hp
      BY <2>2, <3>2, <3>4 DEF SameOwn
    <3>6. x.stat[x.cur] = "running" => hp <= x.prio[x.cur]
      <4> HIDE DEF hp
      <4>1. x.stat[x.cur] = "running" => ~(x.prio[x.cur] < hp)
        BY <2>6 DEF Stays, hp
      <4> QED BY <4>1, <2>0, <2>3
    <3>7. \A q \in r.grp : hp <= q
      BY <2>1, <2>3, <3>3, <3>6 DEF SameSwitch
    <3> QED BY <3>1, <3>4, <3>5, <3>7 DEF Rules
  <2> QED BY <2>5, <2>6
<1> QED BY <1>1, <1>2

(* In y the thread u of x has been taken off its list and off the timer      *)
(* list, and is READY or current again.                                      *)
ResumedBy(y, x, u) ==
    /\ Sound(y) /\ SameSwitch(y, x) /\ y.act = [x.act EXCEPT ![u] = FALSE]
    /\ y.stat = [x.stat EXCEPT ![u] = IF u = x.cur THEN "running" ELSE "ready"]
    /\ y.tick = x.tick /\ y.tmr = Unlink(x.tmr, u)
    /\ \A v \in Thread \ {u} : y.tout[v] = x.tout[v]

LEMMA ResumeResumes ==
    ASSUME NEW x, Sound(x), CurrentRuns(x), NEW t \in Thread
    PROVE  ResumedBy(Resume(x, t), x, t)
BY ResumeFacts, ResumeRest DEF ResumedBy

LEMMA ExpireResumes ==
    ASSUME NEW x, Sound(x), CurrentRuns(x), NEW t \in Thread, x.act[t]
    PROVE  ResumedBy(Expire(x, t), x, t)
<1> DEFINE r == Expire(x, t)
<1>1. /\ Sound(r) /\ SameSwitch(r, x) /\ r.act = [x.act EXCEPT ![t] = FALSE]
      /\ r.stat = [x.stat EXCEPT ![t] = IF t = x.cur THEN "running" ELSE "ready"]
  BY ExpireFacts
<1>2. /\ r.tick = x.tick /\ r.tmr = Unlink(x.tmr, t)
      /\ \A u \in Thread \ {t} : r.tout[u] = x.tout[u]
      /\ r.err = [x.err EXCEPT ![t] = "timeout"] /\ r.prio = x.prio /\ r.lock = x.lock
      /\ r.wait = WaitsWithout(x, t)
      /\ r.grp \subseteq x.grp \cup (IF t = x.cur THEN {} ELSE {x.prio[t]})
  BY ExpireRest
<1> HIDE DEF r
<1>3. ResumedBy(r, x, t)
  BY <1>1, <1>2 DEF ResumedBy
<1> QED BY <1>3 DEF r

-----------------------------------------------------------------------------

Disciplined ==
    \A g \in Programs :
        /\ g.deleted = {}
        /\ \A u \in Thread : "exit" \in g.calls[u] => u \notin g.resumed \cup g.device

(* The thread s is about to resume is not closed; if nobody but its starter  *)
(* can resume it, it stays as rt_thread_startup left it.                     *)
ResumePending(x, p, a, g, s) ==
    IF a[s] \in g.resumed \cup g.device
    THEN x.stat[a[s]] \notin {"init", "close"}
    ELSE /\ x.stat[a[s]] = "suspend" /\ ~x.act[a[s]] /\ a[s] # x.cur
         /\ \A r \in Thread : p[r] = "resume" /\ a[r] = a[s] => r = s

(* What the place of each thread in its code says of the kernel. *)
PlacesSound(x, p, a, g) ==
    \A s \in Thread :
        /\ x.stat[s] = "close" => p[s] \in {"exit_sched", "dead"}
        /\ p[s] \notin {"delete_remove", "delete_close"}
        /\ p[s] = "idle_take" => s = Idle /\ x.stat[a[s]] = "close"
        /\ p[s] = "resume" => ResumePending(x, p, a, g, s)

Places == /\ pc \in [Thread -> Pc]
          /\ arg \in [Thread -> Thread]
          /\ PlacesSound(k, pc, arg, prog)

IInv == /\ Sound(k) /\ CurrentRuns(k)
        /\ SwitchRecord
        /\ Places
        /\ cpu \in Thread
        /\ isr \in {"off", "sched", "timer", "loop"}
        /\ prog \in Programs

(* Outside M no thread is started, closed or, when it waits without a timer, *)
(* resumed.                                                                  *)
Calm(r, x, M) ==
    \A u \in Thread \ M :
        /\ x.stat[u] = "init" <=> r.stat[u] = "init"
        /\ x.stat[u] = "close" <=> r.stat[u] = "close"
        /\ x.stat[u] = "suspend" /\ ~x.act[u] /\ u # x.cur =>
              r.stat[u] = "suspend" /\ ~r.act[u] /\ u # r.cur

-----------------------------------------------------------------------------
(* What Programs allows the threads to do. *)
LEMMA ProgramsType ==
    ASSUME Disciplined, NEW g \in Programs
    PROVE  /\ g.resumed \subseteq Thread \ {Idle} /\ g.device \subseteq Thread \ {Idle}
           /\ g.prio \subseteq Thread \ {Idle} /\ g.deleted = {}
           /\ g.calls[Idle] = {}
           /\ \A u \in Thread : "exit" \in g.calls[u] => u \notin g.resumed \cup g.device
BY ThreadAssumption DEF Program, Disciplined

(* Steps that start and close no thread keep the places sound. *)
LEMMA PlacesKept ==
    ASSUME NEW x, NEW r, NEW p, NEW a, NEW p2, NEW a2, NEW g, NEW M,
           a \in [Thread -> Thread],
           PlacesSound(x, p, a, g), Calm(r, x, M), M \subseteq g.resumed \cup g.device,
           \A u \in M : x.stat[u] \notin {"init", "close"} /\ r.stat[u] \notin {"init", "close"},
           \A s \in Thread :
              \/ p2[s] = p[s] /\ a2[s] = a[s]
              \/ /\ p2[s] \notin {"resume", "idle_take", "delete_remove", "delete_close"}
                 /\ x.stat[s] = "close" => p2[s] \in {"exit_sched", "dead"}
    PROVE  PlacesSound(r, p2, a2, g)
<1> SUFFICES ASSUME NEW s \in Thread
             PROVE  /\ r.stat[s] = "close" => p2[s] \in {"exit_sched", "dead"}
                    /\ p2[s] \notin {"delete_remove", "delete_close"}
                    /\ p2[s] = "idle_take" => s = Idle /\ r.stat[a2[s]] = "close"
                    /\ p2[s] = "resume" => ResumePending(r, p2, a2, g, s)
  BY DEF PlacesSound
<1>1. r.stat[s] = "close" => p2[s] \in {"exit_sched", "dead"}
  BY DEF PlacesSound, Calm
<1>2. p2[s] \notin {"delete_remove", "delete_close"}
  BY DEF PlacesSound
<1>3. p2[s] = "idle_take" => s = Idle /\ r.stat[a2[s]] = "close"
  BY DEF PlacesSound, Calm
<1>4. ASSUME p2[s] = "resume" PROVE ResumePending(r, p2, a2, g, s)
  <2>1. p[s] = "resume" /\ a2[s] = a[s] /\ a[s] \in Thread
    BY <1>4
  <2>2. ResumePending(x, p, a, g, s)
    BY <2>1 DEF PlacesSound
  <2>3. CASE a[s] \in g.resumed \cup g.device
    BY <2>1, <2>2, <2>3 DEF ResumePending, Calm
  <2>4. CASE a[s] \notin g.resumed \cup g.device
    <3>1. a[s] \in Thread \ M
      BY <2>1, <2>4
    <3>2. r.stat[a[s]] = "suspend" /\ ~r.act[a[s]] /\ a[s] # r.cur
      BY <2>2, <2>4, <3>1 DEF ResumePending, Calm
    <3>3. \A q \in Thread : p2[q] = "resume" /\ a2[q] = a2[s] => q = s
      BY <2>1, <2>2, <2>4 DEF ResumePending
    <3> QED BY <2>1, <2>4, <3>2, <3>3 DEF ResumePending
  <2> QED BY <2>3, <2>4
<1> QED BY <1>1, <1>2, <1>3, <1>4

(* A calm change followed by one that is calm for every thread. *)
LEMMA CalmTransitive ==
    ASSUME NEW x, NEW y, NEW z, NEW M, Calm(y, x, M), Calm(z, y, {})
    PROVE  Calm(z, x, M)
BY DEF Calm

(* rt_schedule starts and closes nobody, and keeps the switch record. *)
LEMMA ScheduleKeeps ==
    ASSUME NEW x, Sound(x), CurrentRuns(x)
    PROVE  LET r == Schedule(x)
           IN  /\ Sound(r) /\ CurrentRuns(r) /\ Calm(r, x, {})
               /\ \A c : (IF x.flag THEN x.from = c /\ x.to = x.cur ELSE c = x.cur)
                           => (IF r.flag THEN r.from = c /\ r.to = r.cur ELSE c = r.cur)
<1> DEFINE r == Schedule(x)
<1>1. Sound(r) /\ CurrentRuns(r) /\ r.act = x.act /\ Switched(r, x)
  BY ScheduleFacts
<1>2. r.flag \in BOOLEAN /\ x.flag \in BOOLEAN /\ x.stat \in [Thread -> Stat]
  BY <1>1 DEF Sound, SoundBut, Kernel
<1> HIDE DEF r
<1>3. Calm(r, x, {})
  BY <1>1, <1>2 DEF Calm, Switched
<1>4. \A c : (IF x.flag THEN x.from = c /\ x.to = x.cur ELSE c = x.cur)
                => (IF r.flag THEN r.from = c /\ r.to = r.cur ELSE c = r.cur)
  BY <1>1, <1>2 DEF Switched
<1> QED BY <1>1, <1>3, <1>4 DEF r

(* The invariant holds when the scheduler has started the first thread. *)
LEMMA InitInv ==
    ASSUME Disciplined, Init
    PROVE  IInv
<1>1. k \in Kernel
  BY KernelAssumption, ThreadAssumption DEF Init, Kernel, Stat, Err, Tick
<1>2. Queues(k, {})
  <2>1. \A p \in Prio : k.rq[p] = IF p = InitPrio[Idle] THEN <<Idle>> ELSE <<>>
    BY DEF Init
  <2>2. Elems(<<Idle>>) = {Idle} /\ Elems(<<>>) = {} /\ IsOnce(<<Idle>>) /\ IsOnce(<<>>)
    BY DEF Elems, IsOnce
  <2>3. \A t \in Thread : (k.stat[t] = "ready" <=> t = Idle) /\ k.prio[t] = InitPrio[t]
    BY ThreadAssumption DEF Init
  <2>4. ASSUME NEW p \in Prio PROVE IsOnce(k.rq[p])
    BY <2>1, <2>2
  <2>5. ASSUME NEW t \in Thread, NEW p \in Prio
        PROVE  t \in Elems(k.rq[p]) <=> t \notin {} /\ k.stat[t] = "ready" /\ k.prio[t] = p
    BY <2>1, <2>2, <2>3
  <2> QED BY <2>4, <2>5 DEF Queues
<1>3. Waits(k, {}) /\ Defunct(k, {}) /\ Timers(k, {})
  BY DEF Init, Waits, Defunct, Timers, Elems, IsOnce
<1>4. Group(k, {})
  BY ThreadAssumption DEF Init, Group
<1>5. CurrentRuns(k)
  BY ThreadAssumption DEF Init, CurrentRuns
<1>6. Places
  BY DEF Init, Places, PlacesSound, Pc
<1> QED BY <1>1, <1>2, <1>3, <1>4, <1>5, <1>6, ThreadAssumption
        DEF IInv, Sound, SoundBut, SwitchRecord, Init

-----------------------------------------------------------------------------
(* Steps.  No step reopens a closed thread. *)
ClosedStays == \A t \in Thread : k.stat[t] = "close" => k'.stat[t] = "close"

(* A step that keeps the kernel sound, starts and closes nobody, and makes   *)
(* no call pending.                                                          *)
LEMMA StepKeeps ==
    ASSUME Disciplined, IInv, NEW M,
           Sound(k'), CurrentRuns(k'), SwitchRecord', Calm(k', k, M),
           M \subseteq prog.resumed \cup prog.device,
           \A u \in M : k.stat[u] \notin {"init", "close"} /\ k'.stat[u] \notin {"init", "close"},
           pc' \in [Thread -> Pc], arg' \in [Thread -> Thread],
           \A s \in Thread :
              \/ pc'[s] = pc[s] /\ arg'[s] = arg[s]
              \/ /\ pc'[s] \notin {"resume", "idle_take", "delete_remove", "delete_close"}
                 /\ k.stat[s] = "close" => pc'[s] \in {"exit_sched", "dead"},
           cpu' \in Thread, isr' \in {"off", "sched", "timer", "loop"}, prog' = prog
    PROVE  IInv' /\ ClosedStays
<1>1. PlacesSound(k, pc, arg, prog) /\ arg \in [Thread -> Thread] /\ prog \in Programs
  BY DEF IInv, Places
<1>2. PlacesSound(k', pc', arg', prog)
  BY <1>1, PlacesKept
<1>3. ClosedStays
  BY DEF ClosedStays, Calm
<1> QED BY <1>1, <1>2, <1>3 DEF IInv, Places

(* The same for a step of a thread that goes from one place to another. *)
LEMMA ThreadStepKeeps ==
    ASSUME Disciplined, IInv, NEW t \in Thread,
           NEW w \in Pc \ {"resume", "idle_take", "delete_remove", "delete_close"},
           Sound(k'), CurrentRuns(k'), SwitchRecord', Calm(k', k, {}),
           k.stat[t] = "close" => w \in {"exit_sched", "dead"},
           pc' = [pc EXCEPT ![t] = w], arg' \in {arg, [arg EXCEPT ![t] = t]},
           UNCHANGED <<cpu, isr, prog>>
    PROVE  IInv' /\ ClosedStays
<1>1. pc \in [Thread -> Pc] /\ arg \in [Thread -> Thread]
  BY DEF IInv, Places
<1>2. pc' \in [Thread -> Pc] /\ arg' \in [Thread -> Thread]
  BY <1>1
<1>3. \A s \in Thread :
              \/ pc'[s] = pc[s] /\ arg'[s] = arg[s]
              \/ /\ pc'[s] \notin {"resume", "idle_take", "delete_remove", "delete_close"}
                 /\ k.stat[s] = "close" => pc'[s] \in {"exit_sched", "dead"}
  BY <1>1
<1>4. cpu' \in Thread /\ isr' \in {"off", "sched", "timer", "loop"} /\ prog' = prog
  BY DEF IInv
<1> QED BY <1>2, <1>3, <1>4, StepKeeps

(* Steps that do not touch the switch leave its record right. *)
LEMMA SameSwitchKeeps ==
    ASSUME IInv, SameSwitch(k', k), cpu' = cpu
    PROVE  SwitchRecord'
BY DEF IInv, SameSwitch, SwitchRecord

(* A step that is a change of the kernel's data followed by rt_schedule. *)
LEMMA ScheduledStep ==
    ASSUME IInv, NEW y, NEW M, Sound(y), CurrentRuns(y), SameSwitch(y, k), Calm(y, k, M),
           k' = Schedule(y), cpu' = cpu
    PROVE  /\ Sound(k') /\ CurrentRuns(k') /\ SwitchRecord' /\ Calm(k', k, M)
           /\ Calm(k', y, {})
<1> DEFINE r == Schedule(y)
<1>1. /\ Sound(r) /\ CurrentRuns(r) /\ Calm(r, y, {})
      /\ \A c : (IF y.flag THEN y.from = c /\ y.to = y.cur ELSE c = y.cur)
                    => (IF r.flag THEN r.from = c /\ r.to = r.cur ELSE c = r.cur)
  BY ScheduleKeeps
<1> HIDE DEF r
<1>2. k' = r
  BY DEF r
<1>3. IF y.flag THEN y.from = cpu /\ y.to = y.cur ELSE cpu = y.cur
  BY DEF IInv, SwitchRecord, SameSwitch
<1>4. SwitchRecord'
  BY <1>1, <1>2, <1>3 DEF SwitchRecord
<1> QED BY <1>1, <1>2, <1>4, CalmTransitive

(* A thread that executes its own code is the current one and is not closed. *)
LEMMA RunningThread ==
    ASSUME IInv, NEW t \in Thread, NEW w, At(t, w)
    PROVE  /\ cpu = t /\ k.cur = t /\ pc[t] = w /\ ~k.flag /\ isr = "off"
           /\ k.stat[t] \in Stat \ {"init", "ready"}
           /\ k.stat[t] = "close" => w \in {"exit_sched", "dead"}
           /\ ~k.act[t] \/ k.stat[t] = "suspend"
<1>1. cpu = t /\ k.cur = t /\ pc[t] = w /\ ~k.flag /\ isr = "off"
  BY DEF At, Runs, IInv, SwitchRecord
<1>2. k.stat[t] \in Stat \ {"init", "ready"}
  BY <1>1 DEF IInv, CurrentRuns, Sound, SoundBut, Kernel
<1>3. k.stat[t] = "close" => w \in {"exit_sched", "dead"}
  BY <1>1 DEF IInv, Places, PlacesSound
<1>4. ~k.act[t] \/ k.stat[t] = "suspend"
  BY DEF IInv, Sound, SoundBut, Timers
<1> QED BY <1>1, <1>2, <1>3, <1>4

(* rt_thread_yield preserves the invariant. *)
LEMMA YieldStep ==
    ASSUME Disciplined, IInv, NEW t \in Thread, Yield(t)
    PROVE  IInv' /\ ClosedStays
<1> DEFINE y == [k EXCEPT !.rem[t] = Slice[t], !.yld[t] = TRUE]
<1>1. Sound(k) /\ CurrentRuns(k) /\ k \in Kernel
  BY DEF IInv, Sound, SoundBut
<1>2. /\ y \in Kernel /\ SameSwitch(y, k)
      /\ y.rq = k.rq /\ y.grp = k.grp /\ y.wait = k.wait /\ y.dead = k.dead /\ y.stat = k.stat
      /\ y.prio = k.prio /\ y.act = k.act /\ y.tmr = k.tmr /\ y.bad = k.bad
  BY <1>1, KernelAssumption DEF Kernel, SameSwitch
<1>3. k' = Schedule(y) /\ UNCHANGED <<cpu, pc, arg, isr, prog>>
  BY DEF Yield
<1> HIDE DEF y
<1>4. Sound(y) /\ CurrentRuns(y) /\ Calm(y, k, {})
  <2>1. Sound(y)
    BY <1>1, <1>2, SameListsFacts DEF Sound
  <2> QED BY <1>1, <1>2, <2>1 DEF CurrentRuns, Calm, SameSwitch
<1>5. Sound(k') /\ CurrentRuns(k') /\ SwitchRecord' /\ Calm(k', k, {})
  BY <1>2, <1>3, <1>4, ScheduledStep
<1> QED BY <1>3, <1>5, StepKeeps DEF IInv, Places

(* rt_thread_sleep, up to rt_schedule, preserves the invariant. *)
LEMMA SleepStep ==
    ASSUME Disciplined, IInv, NEW t \in Thread, NEW n \in SleepArg, Sleep(t, n)
    PROVE  IInv' /\ ClosedStays
<1> DEFINE e == [k EXCEPT !.err[t] = "ok"]
           y == Suspend(e, t)
<1>1. Sound(k) /\ CurrentRuns(k) /\ k \in Kernel /\ n \in Nat
  BY ThreadAssumption DEF IInv, Sound, SoundBut
<1>2. /\ k.cur = t /\ pc[t] = "user"
      /\ k.stat[t] \in {"running", "suspend"}
  BY RunningThread DEF Sleep, Does, Stat
<1>3. /\ e \in Kernel /\ SameSwitch(e, k)
      /\ e.rq = k.rq /\ e.grp = k.grp /\ e.wait = k.wait /\ e.dead = k.dead /\ e.stat = k.stat
      /\ e.prio = k.prio /\ e.act = k.act /\ e.tmr = k.tmr /\ e.bad = k.bad
  BY <1>1 DEF Kernel, Err, SameSwitch
<1> HIDE DEF e
<1>4. Sound(e)
  BY <1>1, <1>3, SameListsFacts DEF Sound
<1>5. /\ Sound(y) /\ SameSwitch(y, k) /\ y.act = k.act /\ y.stat = [k.stat EXCEPT ![t] = "suspend"]
  <2>1. [k.stat EXCEPT ![t] = "suspend"] = IF k.stat[t] \in {"ready", "running"}
                                           THEN [k.stat EXCEPT ![t] = "suspend"] ELSE k.stat
    BY <1>1, <1>2 DEF Kernel
  <2> QED BY <1>3, <1>4, <2>1, SuspendFacts DEF SameSwitch
<1> HIDE DEF y
<1>6. y.stat[t] = "suspend"
  BY <1>1, <1>5 DEF Kernel
<1>7. k' = TimerStart(y, t, n) /\ pc' = [pc EXCEPT ![t] = "sleep_sched"]
      /\ UNCHANGED <<cpu, arg, isr, prog>>
  BY DEF Sleep, Goto, y, e
<1>8. /\ Sound(k') /\ SameSwitch(k', k) /\ k'.stat = [k.stat EXCEPT ![t] = "suspend"]
      /\ k'.act = [k.act EXCEPT ![t] = TRUE]
  <2> DEFINE r == TimerStart(y, t, n)
  <2>1. Sound(r) /\ SameSwitch(r, y) /\ r.stat = y.stat /\ r.act = [y.act EXCEPT ![t] = TRUE]
    BY <1>1, <1>5, <1>6, TimerStartFacts
  <2> HIDE DEF r
  <2>2. k' = r
    BY <1>7 DEF r
  <2> QED BY <1>5, <2>1, <2>2 DEF SameSwitch
<1>9. CurrentRuns(k') /\ Calm(k', k, {})
  <2>1. \A u \in Thread : k'.stat[u] = IF u = t THEN "suspend" ELSE k.stat[u]
    BY <1>1, <1>8 DEF Kernel
  <2>2. \A u \in Thread : k'.act[u] = IF u = t THEN TRUE ELSE k.act[u]
    BY <1>1, <1>8 DEF Kernel
  <2>3. k'.cur = t
    BY <1>2, <1>8 DEF SameSwitch
  <2> QED BY <1>1, <1>2, <2>1, <2>2, <2>3 DEF CurrentRuns, Calm
<1>10. SwitchRecord'
  BY <1>7, <1>8, SameSwitchKeeps
<1>11. "sleep_sched" \in Pc \ {"resume", "idle_take", "delete_remove", "delete_close"}
  BY DEF Pc
<1>12. pc' = [pc EXCEPT ![t] = "sleep_sched"] /\ arg' = arg /\ UNCHANGED <<cpu, isr, prog>>
  BY <1>7
<1> QED BY <1>2, <1>8, <1>9, <1>10, <1>11, <1>12, ThreadStepKeeps

(* rt_schedule, called with interrupts enabled, preserves the invariant. *)
LEMMA CallScheduleStep ==
    ASSUME Disciplined, IInv, NEW t \in Thread, CallSchedule(t)
    PROVE  IInv' /\ ClosedStays
<1>1. PICK hop \in {<<"sched", "user">>, <<"sleep_sched", "sleep_ret">>, <<"exit_sched", "dead">>} :
         At(t, hop[1]) /\ Goto(t, hop[2])
  BY DEF CallSchedule
<1>2. hop[2] \in Pc \ {"resume", "idle_take", "delete_remove", "delete_close"}
      /\ (hop[1] \in {"exit_sched", "dead"} => hop[2] \in {"exit_sched", "dead"})
  BY DEF Pc
<1>3. k.stat[t] = "close" => hop[2] \in {"exit_sched", "dead"}
  BY <1>1, <1>2, RunningThread
<1>4. k' = Schedule(k) /\ UNCHANGED <<cpu, arg, isr, prog>>
  BY DEF CallSchedule
<1>5. Sound(k) /\ CurrentRuns(k) /\ SameSwitch(k, k) /\ Calm(k, k, {})
  BY DEF IInv, SameSwitch, Calm
<1>6. Sound(k') /\ CurrentRuns(k') /\ SwitchRecord' /\ Calm(k', k, {})
  BY <1>4, <1>5, ScheduledStep
<1>7. pc' = [pc EXCEPT ![t] = hop[2]] /\ arg' = arg /\ UNCHANGED <<cpu, isr, prog>>
  BY <1>1, <1>4 DEF Goto
<1> QED BY <1>2, <1>3, <1>6, <1>7, ThreadStepKeeps

(* Steps that change only fields no list depends on. *)
LEMMA SameListsStep ==
    ASSUME IInv, k' \in Kernel, cpu' = cpu, SameSwitch(k', k),
           k'.rq = k.rq, k'.grp = k.grp, k'.wait = k.wait, k'.dead = k.dead, k'.stat = k.stat,
           k'.prio = k.prio, k'.act = k.act, k'.tmr = k.tmr, k'.bad = k.bad
    PROVE  Sound(k') /\ CurrentRuns(k') /\ SwitchRecord' /\ Calm(k', k, {})
<1>1. Sound(k) /\ CurrentRuns(k)
  BY DEF IInv
<1>2. Sound(k')
  BY <1>1, SameListsFacts DEF Sound
<1> QED BY <1>1, <1>2, SameSwitchKeeps DEF CurrentRuns, Calm, SameSwitch

(* rt_thread_sleep, after rt_schedule, preserves the invariant. *)
LEMMA SleepReturnStep ==
    ASSUME Disciplined, IInv, NEW t \in Thread, SleepReturn(t)
    PROVE  IInv' /\ ClosedStays
<1>1. k \in Kernel
  BY DEF IInv, Sound, SoundBut
<1>2. k.stat[t] # "close"
  BY RunningThread DEF SleepReturn
<1>3. pc' = [pc EXCEPT ![t] = "user"] /\ arg' = arg /\ UNCHANGED <<cpu, isr, prog>>
  BY DEF SleepReturn, Goto
<1>4. k' = [k EXCEPT !.err[t] = IF k.err[t] = "timeout" THEN "ok" ELSE k.err[t]]
  BY <1>1 DEF SleepReturn, Kernel
<1>5. /\ k' \in Kernel /\ SameSwitch(k', k)
      /\ k'.rq = k.rq /\ k'.grp = k.grp /\ k'.wait = k.wait /\ k'.dead = k.dead /\ k'.stat = k.stat
      /\ k'.prio = k.prio /\ k'.act = k.act /\ k'.tmr = k.tmr /\ k'.bad = k.bad
  BY <1>1, <1>4 DEF Kernel, Err, SameSwitch
<1>6. Sound(k') /\ CurrentRuns(k') /\ SwitchRecord' /\ Calm(k', k, {})
  BY <1>3, <1>5, SameListsStep
<1>7. "user" \in Pc \ {"resume", "idle_take", "delete_remove", "delete_close"}
  BY DEF Pc
<1> QED BY <1>2, <1>3, <1>6, <1>7, ThreadStepKeeps

(* rt_enter_critical and rt_exit_critical preserve the invariant. *)
LEMMA CriticalStep ==
    ASSUME Disciplined, IInv, NEW t \in Thread, EnterCritical(t) \/ ExitCritical(t)
    PROVE  IInv' /\ ClosedStays
<1>1. k \in Kernel
  BY DEF IInv, Sound, SoundBut
<1>2. k.stat[t] # "close" /\ pc[t] = "user"
  BY RunningThread DEF EnterCritical, ExitCritical, Does
<1>3. PICK n \in Nat : k' = [k EXCEPT !.lock = n]
  BY <1>1 DEF EnterCritical, ExitCritical, Kernel
<1>4. \E w \in {"user", "sched"} : pc' = [pc EXCEPT ![t] = w]
  BY <1>2 DEF EnterCritical, ExitCritical, Goto, IInv, Places
<1>5. arg' = arg /\ UNCHANGED <<cpu, isr, prog>>
  BY DEF EnterCritical, ExitCritical
<1>6. /\ k' \in Kernel /\ SameSwitch(k', k)
      /\ k'.rq = k.rq /\ k'.grp = k.grp /\ k'.wait = k.wait /\ k'.dead = k.dead /\ k'.stat = k.stat
      /\ k'.prio = k.prio /\ k'.act = k.act /\ k'.tmr = k.tmr /\ k'.bad = k.bad
  BY <1>1, <1>3 DEF Kernel, SameSwitch
<1>7. Sound(k') /\ CurrentRuns(k') /\ SwitchRecord' /\ Calm(k', k, {})
  BY <1>5, <1>6, SameListsStep
<1>8. {"user", "sched"} \subseteq Pc \ {"resume", "idle_take", "delete_remove", "delete_close"}
  BY DEF Pc
<1> QED BY <1>2, <1>4, <1>5, <1>7, <1>8, ThreadStepKeeps

(* rt_thread_suspend of the running thread preserves the invariant. *)
LEMMA SuspendStep ==
    ASSUME Disciplined, IInv, NEW t \in Thread, SuspendSelf(t)
    PROVE  IInv' /\ ClosedStays
<1> DEFINE r == Suspend(k, t)
<1>1. Sound(k) /\ CurrentRuns(k) /\ k.stat \in [Thread -> Stat]
  BY DEF IInv, Sound, SoundBut, Kernel
<1>2. k.cur = t /\ k.stat[t] # "close"
  BY RunningThread DEF SuspendSelf, Does
<1>3. /\ Sound(r) /\ SameSwitch(r, k) /\ r.act = k.act
      /\ r.stat = IF k.stat[t] \in {"ready", "running"}
                  THEN [k.stat EXCEPT ![t] = "suspend"] ELSE k.stat
  BY <1>1, SuspendFacts
<1>4. k' = r
  BY DEF SuspendSelf
<1> HIDE DEF r
<1>5. \A u \in Thread : k'.stat[u] = IF u = t /\ k.stat[t] \in {"ready", "running"}
                                    THEN "suspend" ELSE k.stat[u]
  BY <1>1, <1>3, <1>4
<1>6. CurrentRuns(k') /\ Calm(k', k, {})
  BY <1>1, <1>2, <1>3, <1>4, <1>5 DEF CurrentRuns, Calm, SameSwitch
<1>7. pc' = [pc EXCEPT ![t] = "sched"] /\ arg' = arg /\ UNCHANGED <<cpu, isr, prog>>
  BY DEF SuspendSelf, Goto
<1>8. SwitchRecord'
  BY <1>3, <1>4, <1>7, SameSwitchKeeps
<1>9. "sched" \in Pc \ {"resume", "idle_take", "delete_remove", "delete_close"}
  BY DEF Pc
<1> QED BY <1>2, <1>3, <1>4, <1>6, <1>7, <1>8, <1>9, ThreadStepKeeps

(* rt_thread_resume finds the thread suspended: it may be resumed by others  *)
(* too, and so is one that does not exit.                                    *)
LEMMA ResumeCheckStep ==
    ASSUME Disciplined, IInv, NEW t \in Thread, NEW u \in prog.resumed, ResumeCheck(t, u)
    PROVE  IInv' /\ ClosedStays
<1>1. /\ pc \in [Thread -> Pc] /\ arg \in [Thread -> Thread] /\ PlacesSound(k, pc, arg, prog)
      /\ prog \in Programs
  BY DEF IInv, Places
<1>2. k.stat[t] # "close" /\ pc[t] = "user" /\ k.stat[u] = "suspend" /\ u \in Thread
  BY <1>1, RunningThread, ProgramsType DEF ResumeCheck, Does
<1>3. /\ pc' = [pc EXCEPT ![t] = "resume"] /\ arg' = [arg EXCEPT ![t] = u]
      /\ UNCHANGED <<k, cpu, isr, prog>>
  BY DEF ResumeCheck, Goto
<1>4. pc' \in [Thread -> Pc] /\ arg' \in [Thread -> Thread]
  BY <1>1, <1>2, <1>3 DEF Pc
<1>5. /\ pc'[t] = "resume" /\ arg'[t] = u
      /\ \A s \in Thread \ {t} : pc'[s] = pc[s] /\ arg'[s] = arg[s]
  BY <1>1, <1>3
<1>6. ResumePending(k, pc', arg', prog, t)
  BY <1>2, <1>5 DEF ResumePending
<1>7. ASSUME NEW s \in Thread \ {t}, pc[s] = "resume" PROVE ResumePending(k, pc', arg', prog, s)
  <2>1. ResumePending(k, pc, arg, prog, s)
    BY <1>1, <1>7 DEF PlacesSound
  <2> QED BY <1>5, <2>1 DEF ResumePending
<1>8. PlacesSound(k, pc', arg', prog)
  BY <1>1, <1>2, <1>5, <1>6, <1>7 DEF PlacesSound
<1>9. SwitchRecord'
  BY <1>3 DEF IInv, SwitchRecord
<1> QED BY <1>3, <1>4, <1>8, <1>9 DEF IInv, Places, ClosedStays

(* rt_thread_resume, with interrupts disabled, preserves the invariant: a   *)
(* thread that others resume never exits, one that is started waits for t.  *)
LEMMA ResumeDoStep ==
    ASSUME Disciplined, IInv, NEW t \in Thread, ResumeDo(t)
    PROVE  IInv' /\ ClosedStays
<1> DEFINE u == arg[t]
           r == Resume(k, u)
<1>1. /\ Sound(k) /\ CurrentRuns(k) /\ k.stat \in [Thread -> Stat] /\ k.act \in [Thread -> BOOLEAN]
      /\ pc \in [Thread -> Pc] /\ arg \in [Thread -> Thread] /\ PlacesSound(k, pc, arg, prog)
  BY DEF IInv, Sound, SoundBut, Kernel, Places
<1>2. k.cur = t /\ k.stat[t] # "close" /\ pc[t] = "resume" /\ u \in Thread
  BY <1>1, RunningThread DEF ResumeDo
<1>3. /\ Sound(r) /\ SameSwitch(r, k) /\ r.act = [k.act EXCEPT ![u] = FALSE]
      /\ r.stat = [k.stat EXCEPT ![u] = IF u = k.cur THEN "running" ELSE "ready"]
  BY <1>1, <1>2, ResumeFacts
<1>4. k' = r
  BY DEF ResumeDo
<1>5. ResumePending(k, pc, arg, prog, t)
  BY <1>1, <1>2 DEF PlacesSound
<1>6. k.stat[u] \notin {"init", "close"}
  BY <1>5 DEF ResumePending
<1> HIDE DEF r
<1>7. /\ \A v \in Thread : k'.stat[v] = IF v = u THEN IF u = t THEN "running" ELSE "ready"
                                        ELSE k.stat[v]
      /\ \A v \in Thread : k'.act[v] = IF v = u THEN FALSE ELSE k.act[v]
      /\ k'.cur = t
  BY <1>1, <1>2, <1>3, <1>4 DEF SameSwitch
<1>8. CurrentRuns(k')
  BY <1>1, <1>2, <1>7 DEF CurrentRuns
<1>9. Calm(k', k, {u})
  BY <1>2, <1>7 DEF Calm
<1>10. pc' = [pc EXCEPT ![t] = "sched"] /\ arg' = [arg EXCEPT ![t] = t] /\ UNCHANGED <<cpu, isr, prog>>
  BY DEF ResumeDo, Goto, Done
<1>11. SwitchRecord'
  BY <1>3, <1>4, <1>10, SameSwitchKeeps
<1>12. pc' \in [Thread -> Pc] /\ arg' \in [Thread -> Thread]
  BY <1>1, <1>10 DEF Pc
<1>13. pc'[t] = "sched" /\ \A s \in Thread \ {t} : pc'[s] = pc[s] /\ arg'[s] = arg[s]
  BY <1>1, <1>10
<1>14. cpu' \in Thread /\ isr' \in {"off", "sched", "timer", "loop"} /\ prog' = prog
  BY <1>10 DEF IInv
<1>15. CASE u \in prog.resumed \cup prog.device
  <2> DEFINE M == {u}
  <2>1. /\ M \subseteq prog.resumed \cup prog.device /\ Calm(k', k, M)
        /\ \A v \in M : k.stat[v] \notin {"init", "close"} /\ k'.stat[v] \notin {"init", "close"}
    BY <1>2, <1>6, <1>7, <1>9, <1>15
  <2>2. \A s \in Thread :
              \/ pc'[s] = pc[s] /\ arg'[s] = arg[s]
              \/ /\ pc'[s] \notin {"resume", "idle_take", "delete_remove", "delete_close"}
                 /\ k.stat[s] = "close" => pc'[s] \in {"exit_sched", "dead"}
    BY <1>2, <1>13
  <2> HIDE DEF M
  <2> QED BY <1>3, <1>4, <1>8, <1>11, <1>12, <1>14, <2>1, <2>2, StepKeeps
<1>16. CASE u \notin prog.resumed \cup prog.device
  <2>1. \A s \in Thread : pc[s] = "resume" /\ arg[s] = u => s = t
    BY <1>5, <1>16 DEF ResumePending
  <2>2. ASSUME NEW s \in Thread, pc'[s] = "resume" PROVE ResumePending(k', pc', arg', prog, s)
    <3>1. s # t /\ pc[s] = "resume" /\ arg'[s] = arg[s] /\ arg[s] # u /\ arg[s] \in Thread
      BY <1>1, <1>13, <2>1, <2>2
    <3>2. ResumePending(k, pc, arg, prog, s)
      BY <1>1, <3>1 DEF PlacesSound
    <3>3. \A q \in Thread : pc'[q] = "resume" => pc[q] = "resume" /\ arg'[q] = arg[q]
      BY <1>13
    <3> QED BY <1>2, <1>7, <3>1, <3>2, <3>3 DEF ResumePending
  <2>3. PlacesSound(k', pc', arg', prog)
    <3>1. ASSUME NEW s \in Thread
          PROVE  /\ k'.stat[s] = "close" => pc'[s] \in {"exit_sched", "dead"}
                 /\ pc'[s] \notin {"delete_remove", "delete_close"}
      BY <1>1, <1>2, <1>7, <1>13 DEF PlacesSound
    <3>2. ASSUME NEW s \in Thread, pc'[s] = "idle_take" PROVE s = Idle /\ k'.stat[arg'[s]] = "close"
      <4>1. s # t /\ pc[s] = "idle_take" /\ arg'[s] = arg[s] /\ arg[s] \in Thread
        BY <1>1, <1>13, <3>2
      <4> QED BY <1>1, <1>6, <1>7, <4>1 DEF PlacesSound
    <3> QED BY <2>2, <3>1, <3>2 DEF PlacesSound
  <2>4. ClosedStays
    BY <1>2, <1>6, <1>7 DEF ClosedStays
  <2> QED BY <1>3, <1>4, <1>8, <1>11, <1>12, <1>14, <2>3, <2>4 DEF IInv, Places
<1> QED BY <1>15, <1>16

(* rt_thread_startup: nobody has the thread pending, for it was INIT. *)
LEMMA StartupStep ==
    ASSUME Disciplined, IInv, NEW t \in Thread, NEW u \in Thread, Startup(t, u)
    PROVE  IInv' /\ ClosedStays
<1>1. /\ Sound(k) /\ CurrentRuns(k) /\ k \in Kernel /\ k.stat \in [Thread -> Stat]
      /\ pc \in [Thread -> Pc] /\ arg \in [Thread -> Thread] /\ PlacesSound(k, pc, arg, prog)
  BY DEF IInv, Sound, SoundBut, Kernel, Places
<1>2. k.cur = t /\ k.stat[t] \notin {"close", "init"} /\ pc[t] = "user" /\ k.stat[u] = "init"
  BY RunningThread DEF Startup, Does
<1>3. ~k.act[u] /\ \A p \in Prio : u \notin Elems(k.rq[p])
  BY <1>1, <1>2 DEF Sound, SoundBut, Timers, Queues
<1>4. /\ k' = [k EXCEPT !.stat[u] = "suspend"]
      /\ pc' = [pc EXCEPT ![t] = "resume"] /\ arg' = [arg EXCEPT ![t] = u]
      /\ UNCHANGED <<cpu, isr, prog>>
  BY DEF Startup, Goto
<1>5. SoundBut(k, {u}) /\ Group(k, {})
  BY <1>1, <1>2 DEF Sound, SoundBut, Queues, Waits, Defunct, Timers
<1>6. /\ Sound(k') /\ SameSwitch(k', k) /\ k'.act = k.act
      /\ k'.stat = [k.stat EXCEPT ![u] = "suspend"]
  <2>1. "suspend" \in Stat \ {"ready"}
    BY DEF Stat
  <2> QED BY <1>4, <1>5, <2>1, SetStatFacts
<1>7. \A v \in Thread : k'.stat[v] = IF v = u THEN "suspend" ELSE k.stat[v]
  BY <1>1, <1>6
<1>8. CurrentRuns(k') /\ k'.cur = t
  BY <1>1, <1>2, <1>6, <1>7 DEF CurrentRuns, SameSwitch
<1>9. SwitchRecord'
  BY <1>4, <1>6, SameSwitchKeeps
<1>10. pc' \in [Thread -> Pc] /\ arg' \in [Thread -> Thread]
  BY <1>1, <1>4 DEF Pc
<1>11. /\ pc'[t] = "resume" /\ arg'[t] = u
       /\ \A s \in Thread \ {t} : pc'[s] = pc[s] /\ arg'[s] = arg[s]
  BY <1>1, <1>4
<1>12. \A s \in Thread : pc[s] = "resume" => arg[s] # u /\ arg[s] \in Thread
  BY <1>1, <1>2 DEF PlacesSound, ResumePending
<1>13. ResumePending(k', pc', arg', prog, t)
  <2>1. k'.stat[u] = "suspend" /\ ~k'.act[u] /\ u # k'.cur
    BY <1>2, <1>3, <1>6, <1>7, <1>8
  <2>2. \A r \in Thread : pc'[r] = "resume" /\ arg'[r] = u => r = t
    BY <1>11, <1>12
  <2> QED BY <1>11, <2>1, <2>2 DEF ResumePending
<1>14. ASSUME NEW s \in Thread \ {t}, pc[s] = "resume" PROVE ResumePending(k', pc', arg', prog, s)
  <2>1. ResumePending(k, pc, arg, prog, s)
    BY <1>1, <1>14 DEF PlacesSound
  <2>2. arg'[s] = arg[s] /\ arg[s] # u /\ arg[s] \in Thread
    BY <1>11, <1>12, <1>14
  <2> QED BY <1>2, <1>6, <1>7, <1>8, <1>11, <2>1, <2>2 DEF ResumePending
<1>15. PlacesSound(k', pc', arg', prog)
  <2>1. ASSUME NEW s \in Thread, pc'[s] = "idle_take" PROVE s = Idle /\ k'.stat[arg'[s]] = "close"
    <3>1. s # t /\ pc[s] = "idle_take" /\ arg'[s] = arg[s] /\ arg[s] \in Thread
      BY <1>1, <1>11, <2>1
    <3> QED BY <1>1, <1>2, <1>7, <3>1 DEF PlacesSound
  <2>2. ASSUME NEW s \in Thread
        PROVE  /\ k'.stat[s] = "close" => pc'[s] \in {"exit_sched", "dead"}
               /\ pc'[s] \notin {"delete_remove", "delete_close"}
    BY <1>1, <1>2, <1>7, <1>11 DEF PlacesSound
  <2>3. ASSUME NEW s \in Thread, pc'[s] = "resume" PROVE ResumePending(k', pc', arg', prog, s)
    BY <1>11, <1>13, <1>14, <2>3
  <2> QED BY <2>1, <2>2, <2>3 DEF PlacesSound
<1>16. ClosedStays
  BY <1>2, <1>7 DEF ClosedStays
<1> QED BY <1>4, <1>6, <1>8, <1>9, <1>10, <1>15, <1>16 DEF IInv, Places

(* _thread_exit: nobody can be about to resume the thread that exits. *)
LEMMA ExitStep ==
    ASSUME Disciplined, IInv, NEW t \in Thread, Exit(t)
    PROVE  IInv' /\ ClosedStays
<1> DEFINE r == Close(RemoveThread(k, t), t)
<1>1. /\ Sound(k) /\ CurrentRuns(k) /\ k.stat \in [Thread -> Stat] /\ k.act \in [Thread -> BOOLEAN]
      /\ pc \in [Thread -> Pc] /\ arg \in [Thread -> Thread] /\ PlacesSound(k, pc, arg, prog)
      /\ prog \in Programs
  BY DEF IInv, Sound, SoundBut, Kernel, Places
<1>2. k.cur = t /\ k.stat[t] # "close" /\ pc[t] = "user" /\ "exit" \in prog.calls[t]
  BY RunningThread DEF Exit, Does
<1>3. t \notin prog.resumed \cup prog.device
  BY <1>1, <1>2, ProgramsType
<1>4. /\ Sound(r) /\ SameSwitch(r, k) /\ r.act = [k.act EXCEPT ![t] = FALSE]
      /\ r.stat = [k.stat EXCEPT ![t] = "close"]
  BY <1>1, ExitFacts
<1>5. k' = r /\ pc' = [pc EXCEPT ![t] = "exit_sched"] /\ UNCHANGED <<cpu, arg, isr, prog>>
  BY DEF Exit, Goto
<1> HIDE DEF r
<1>6. /\ \A v \in Thread : k'.stat[v] = IF v = t THEN "close" ELSE k.stat[v]
      /\ \A v \in Thread : k'.act[v] = IF v = t THEN FALSE ELSE k.act[v]
      /\ k'.cur = t
  BY <1>1, <1>2, <1>4, <1>5 DEF SameSwitch
<1>7. CurrentRuns(k')
  BY <1>1, <1>2, <1>6 DEF CurrentRuns
<1>8. SwitchRecord'
  BY <1>4, <1>5, SameSwitchKeeps
<1>9. pc' \in [Thread -> Pc] /\ pc'[t] = "exit_sched" /\ \A s \in Thread \ {t} : pc'[s] = pc[s]
  BY <1>1, <1>5 DEF Pc
<1>10. ASSUME NEW s \in Thread, pc'[s] = "resume" PROVE ResumePending(k', pc', arg', prog, s)
  <2>1. s # t /\ pc[s] = "resume" /\ arg'[s] = arg[s] /\ arg[s] \in Thread
    BY <1>1, <1>5, <1>9, <1>10
  <2>2. ResumePending(k, pc, arg, prog, s)
    BY <1>1, <2>1 DEF PlacesSound
  <2>3. arg[s] # t
    BY <1>2, <1>3, <2>2 DEF ResumePending
  <2>4. \A q \in Thread : pc'[q] = "resume" => pc[q] = "resume"
    BY <1>9
  <2> QED BY <1>2, <1>5, <1>6, <2>1, <2>2, <2>3, <2>4 DEF ResumePending
<1>11. PlacesSound(k', pc', arg', prog)
  <2>1. ASSUME NEW s \in Thread, pc'[s] = "idle_take" PROVE s = Idle /\ k'.stat[arg'[s]] = "close"
    <3>1. s # t /\ pc[s] = "idle_take" /\ arg'[s] = arg[s] /\ arg[s] \in Thread
      BY <1>1, <1>5, <1>9, <2>1
    <3> QED BY <1>1, <1>6, <3>1 DEF PlacesSound
  <2>2. ASSUME NEW s \in Thread
        PROVE  /\ k'.stat[s] = "close" => pc'[s] \in {"exit_sched", "dead"}
               /\ pc'[s] \notin {"delete_remove", "delete_close"}
    BY <1>1, <1>6, <1>9 DEF PlacesSound
  <2> QED BY <1>10, <2>1, <2>2 DEF PlacesSound
<1>12. ClosedStays
  BY <1>6 DEF ClosedStays
<1> QED BY <1>1, <1>4, <1>5, <1>7, <1>8, <1>9, <1>11, <1>12 DEF IInv, Places

(* RT_THREAD_CTRL_CHANGE_PRIORITY preserves the invariant. *)
LEMMA SetPriorityStep ==
    ASSUME Disciplined, IInv, NEW t \in Thread, NEW u \in prog.prio, NEW p \in NewPrio,
           SetPriority(t, u, p)
    PROVE  IInv' /\ ClosedStays
<1> DEFINE r == ChangePriority(k, u, p)
<1>1. Sound(k) /\ CurrentRuns(k) /\ prog \in Programs
  BY DEF IInv
<1>2. u \in Thread /\ p \in Prio
  <2>1. InitPrio[Idle] \in Prio /\ p \in 0..(InitPrio[Idle] - 1)
    BY ThreadAssumption
  <2> QED BY <1>1, <2>1, ProgramsType, KernelAssumption DEF Prio
<1>3. Sound(r) /\ SameSwitch(r, k) /\ r.act = k.act /\ r.stat = k.stat
  BY <1>1, <1>2, ChangePriorityFacts
<1>4. k' = r /\ UNCHANGED <<cpu, pc, arg, isr, prog>>
  BY DEF SetPriority
<1> HIDE DEF r
<1>5. CurrentRuns(k') /\ Calm(k', k, {})
  BY <1>1, <1>3, <1>4 DEF CurrentRuns, Calm, SameSwitch
<1>6. SwitchRecord'
  BY <1>3, <1>4, SameSwitchKeeps
<1> QED BY <1>3, <1>4, <1>5, <1>6, StepKeeps DEF IInv, Places

(* The idle thread finds a closed thread, and nothing reopens it. *)
LEMMA IdleLookStep ==
    ASSUME Disciplined, IInv, IdleLook
    PROVE  IInv' /\ ClosedStays
<1>1. /\ Sound(k) /\ k.dead \in Seq(Thread) /\ k.dead # <<>> /\ Idle \in Thread
      /\ pc \in [Thread -> Pc] /\ arg \in [Thread -> Thread] /\ PlacesSound(k, pc, arg, prog)
  BY ThreadAssumption DEF IInv, Sound, SoundBut, Kernel, Places, IdleLook
<1>2. Head(k.dead) \in Thread /\ k.stat[Head(k.dead)] = "close"
  BY <1>1, HeadElem DEF Sound, SoundBut, Defunct
<1>3. /\ pc' = [pc EXCEPT ![Idle] = "idle_take"] /\ arg' = [arg EXCEPT ![Idle] = Head(k.dead)]
      /\ UNCHANGED <<k, cpu, isr, prog>>
  BY DEF IdleLook, Goto
<1>4. k.stat[Idle] # "close" /\ pc[Idle] = "user"
  BY <1>1, RunningThread DEF IdleLook
<1>5. /\ pc' \in [Thread -> Pc] /\ arg' \in [Thread -> Thread]
      /\ pc'[Idle] = "idle_take" /\ arg'[Idle] = Head(k.dead)
      /\ \A s \in Thread \ {Idle} : pc'[s] = pc[s] /\ arg'[s] = arg[s]
  BY <1>1, <1>2, <1>3 DEF Pc
<1>6. ASSUME NEW s \in Thread, pc'[s] = "resume" PROVE ResumePending(k, pc', arg', prog, s)
  <2>1. s # Idle /\ pc[s] = "resume" /\ arg'[s] = arg[s]
    BY <1>5, <1>6
  <2>2. ResumePending(k, pc, arg, prog, s)
    BY <1>1, <2>1 DEF PlacesSound
  <2>3. \A q \in Thread : pc'[q] = "resume" => pc[q] = "resume" /\ arg'[q] = arg[q]
    BY <1>5
  <2> QED BY <2>1, <2>2, <2>3 DEF ResumePending
<1>7. PlacesSound(k, pc', arg', prog)
  BY <1>1, <1>2, <1>4, <1>5, <1>6 DEF PlacesSound
<1>8. SwitchRecord'
  BY <1>3 DEF IInv, SwitchRecord
<1> QED BY <1>3, <1>5, <1>7, <1>8 DEF IInv, Places, ClosedStays

(* rt_thread_defunct_dequeue unlinks a thread that is still closed. *)
LEMMA IdleTakeStep ==
    ASSUME Disciplined, IInv, IdleTake
    PROVE  IInv' /\ ClosedStays
<1> DEFINE u == arg[Idle]
           r == ListRemove(k, u)
<1>1. /\ Sound(k) /\ CurrentRuns(k) /\ k \in Kernel /\ Idle \in Thread /\ u \in Thread
      /\ k.stat[Idle] # "close" /\ k.stat[u] = "close"
  <2>1. /\ Sound(k) /\ CurrentRuns(k) /\ k \in Kernel /\ Idle \in Thread /\ u \in Thread
    BY ThreadAssumption DEF IInv, Sound, SoundBut, Places
  <2>2. k.stat[Idle] # "close" /\ k.stat[u] = "close"
    BY <2>1, RunningThread DEF IInv, Places, PlacesSound, IdleTake
  <2> QED BY <2>1, <2>2
<1>2. /\ SoundBut(r, {u}) /\ Group(r, {}) /\ SameSwitch(r, k)
      /\ r.stat = k.stat /\ r.act = k.act /\ ~k.act[u]
  <2> HIDE DEF u
  <2>1. SoundBut(r, {u}) /\ Group(r, {})
    BY <1>1, ListRemoveLoosens
  <2>2. SameSwitch(r, k) /\ r.stat = k.stat /\ r.act = k.act
    BY <1>1, ListRemoveFields
  <2>3. ~k.act[u]
    BY <1>1 DEF Sound, SoundBut, Timers
  <2> QED BY <2>1, <2>2, <2>3
<1>3. k' = r
  BY DEF IdleTake
<1> HIDE DEF r, u
<1>4. Sound(r)
  BY <1>1, <1>2 DEF Sound, SoundBut, Queues, Waits, Defunct, Timers
<1>5. CurrentRuns(k') /\ Calm(k', k, {})
  BY <1>1, <1>2, <1>3 DEF CurrentRuns, Calm, SameSwitch
<1>6. pc' = [pc EXCEPT ![Idle] = "user"] /\ arg' = [arg EXCEPT ![Idle] = Idle]
      /\ UNCHANGED <<cpu, isr, prog>>
  BY DEF IdleTake, Goto, Done
<1>7. SwitchRecord'
  BY <1>2, <1>3, <1>6, SameSwitchKeeps
<1>8. "user" \in Pc \ {"resume", "idle_take", "delete_remove", "delete_close"}
  BY DEF Pc
<1> QED BY <1>1, <1>3, <1>4, <1>5, <1>6, <1>7, <1>8, ThreadStepKeeps

-----------------------------------------------------------------------------
(* PendSV_Handler preserves the invariant: the switch record becomes empty. *)
LEMMA PendSVStep ==
    ASSUME Disciplined, IInv, PendSV
    PROVE  IInv' /\ ClosedStays
<1>1. /\ Sound(k) /\ CurrentRuns(k) /\ k \in Kernel /\ k.cur \in Thread
      /\ k.flag /\ k.to = k.cur
  BY DEF IInv, Sound, SoundBut, Kernel, SwitchRecord, PendSV
<1>2. k' = [k EXCEPT !.flag = FALSE, !.from = k.to] /\ cpu' = k.cur /\ UNCHANGED <<pc, arg, isr, prog>>
  BY <1>1 DEF PendSV
<1>3. /\ k' \in Kernel /\ k'.cur = k.cur /\ ~k'.flag
      /\ k'.rq = k.rq /\ k'.grp = k.grp /\ k'.wait = k.wait /\ k'.dead = k.dead /\ k'.stat = k.stat
      /\ k'.prio = k.prio /\ k'.act = k.act /\ k'.tmr = k.tmr /\ k'.bad = k.bad
  BY <1>1, <1>2 DEF Kernel
<1>4. Sound(k')
  BY <1>1, <1>3, SameListsFacts DEF Sound
<1>5. CurrentRuns(k') /\ Calm(k', k, {}) /\ SwitchRecord'
  BY <1>1, <1>2, <1>3 DEF CurrentRuns, Calm, SwitchRecord
<1> QED BY <1>1, <1>2, <1>4, <1>5, StepKeeps DEF IInv, Places

(* rt_tick_increase preserves the invariant. *)
LEMMA TickStep ==
    ASSUME Disciplined, IInv, TickInterrupt
    PROVE  IInv' /\ ClosedStays
<1> DEFINE r == CountTick(k)
<1>1. Sound(r) /\ SameSwitch(r, k) /\ r.act = k.act /\ r.stat = k.stat
  BY CountTickFacts DEF IInv
<1>2. k' = r /\ UNCHANGED <<cpu, pc, arg, prog>> /\ isr' \in {"off", "sched", "timer", "loop"}
  BY DEF TickInterrupt
<1> HIDE DEF r
<1>3. CurrentRuns(k') /\ Calm(k', k, {})
  BY <1>1, <1>2 DEF IInv, CurrentRuns, Calm, SameSwitch
<1>4. SwitchRecord'
  BY <1>1, <1>2, SameSwitchKeeps
<1> QED BY <1>1, <1>2, <1>3, <1>4, StepKeeps DEF IInv, Places

(* rt_schedule in the tick interrupt preserves the invariant. *)
LEMMA TickScheduleStep ==
    ASSUME Disciplined, IInv, TickSchedule
    PROVE  IInv' /\ ClosedStays
<1>1. k' = Schedule(k) /\ UNCHANGED <<cpu, pc, arg, prog>> /\ isr' \in {"off", "sched", "timer", "loop"}
  BY DEF TickSchedule
<1>2. Sound(k) /\ CurrentRuns(k) /\ SameSwitch(k, k) /\ Calm(k, k, {})
  BY DEF IInv, SameSwitch, Calm
<1>3. Sound(k') /\ CurrentRuns(k') /\ SwitchRecord' /\ Calm(k', k, {})
  BY <1>1, <1>2, ScheduledStep
<1> QED BY <1>1, <1>3, StepKeeps DEF IInv, Places

(* A thread with a timer is not one that waits to be started. *)
LEMMA TimerFiresStep ==
    ASSUME Disciplined, IInv, TimerFires
    PROVE  IInv' /\ ClosedStays
<1> DEFINE u == Head(k.tmr)
           y == Expire(k, u)
<1>1. /\ Sound(k) /\ CurrentRuns(k) /\ k.stat \in [Thread -> Stat] /\ k.act \in [Thread -> BOOLEAN]
      /\ k.tmr \in Seq(Thread) /\ k.tmr # <<>> /\ k.cur \in Thread
  BY DEF IInv, Sound, SoundBut, Kernel, TimerFires, Fired
<1>2. u \in Thread /\ k.act[u] /\ k.stat[u] = "suspend"
  BY <1>1, HeadElem DEF Sound, SoundBut, Timers
<1>3. k' = Schedule(y) /\ UNCHANGED <<cpu, pc, arg, prog>> /\ isr' \in {"off", "sched", "timer", "loop"}
  BY DEF TimerFires
<1> HIDE DEF u
<1>4. /\ Sound(y) /\ SameSwitch(y, k) /\ y.act = [k.act EXCEPT ![u] = FALSE]
      /\ y.stat = [k.stat EXCEPT ![u] = IF u = k.cur THEN "running" ELSE "ready"]
  BY <1>1, <1>2, ExpireFacts
<1> HIDE DEF y
<1>5. /\ \A v \in Thread : y.stat[v] = IF v = u THEN IF u = k.cur THEN "running" ELSE "ready"
                                       ELSE k.stat[v]
      /\ \A v \in Thread : y.act[v] = IF v = u THEN FALSE ELSE k.act[v]
      /\ y.cur = k.cur
  BY <1>1, <1>4 DEF SameSwitch
<1>6. CurrentRuns(y) /\ Calm(y, k, {})
  BY <1>1, <1>2, <1>5 DEF CurrentRuns, Calm
<1>7. Sound(k') /\ CurrentRuns(k') /\ SwitchRecord' /\ Calm(k', k, {})
  BY <1>3, <1>4, <1>6, ScheduledStep
<1> QED BY <1>3, <1>7, StepKeeps DEF IInv, Places

(* A device interrupt resumes only threads that never exit. *)
LEMMA DeviceInterruptStep ==
    ASSUME Disciplined, IInv, NEW u \in prog.device, DeviceResumes(u)
    PROVE  IInv' /\ ClosedStays
<1> DEFINE y == Resume(k, u)
           M == {u}
<1>1. /\ Sound(k) /\ CurrentRuns(k) /\ k.stat \in [Thread -> Stat] /\ k.act \in [Thread -> BOOLEAN]
      /\ k.cur \in Thread /\ u \in Thread
  <2>1. prog \in Programs
    BY DEF IInv
  <2> QED BY <2>1, ProgramsType DEF IInv, Sound, SoundBut, Kernel
<1>2. /\ k' = Schedule(y) /\ UNCHANGED <<cpu, pc, arg, isr, prog>> /\ k.stat[u] = "suspend"
  BY DEF DeviceResumes
<1>3. /\ Sound(y) /\ SameSwitch(y, k) /\ y.act = [k.act EXCEPT ![u] = FALSE]
      /\ y.stat = [k.stat EXCEPT ![u] = IF u = k.cur THEN "running" ELSE "ready"]
  BY <1>1, ResumeFacts
<1> HIDE DEF y
<1>4. /\ \A v \in Thread : y.stat[v] = IF v = u THEN IF u = k.cur THEN "running" ELSE "ready"
                                       ELSE k.stat[v]
      /\ \A v \in Thread : y.act[v] = IF v = u THEN FALSE ELSE k.act[v]
      /\ y.cur = k.cur
  BY <1>1, <1>3 DEF SameSwitch
<1>5. CurrentRuns(y) /\ Calm(y, k, M)
  BY <1>1, <1>2, <1>4 DEF CurrentRuns, Calm
<1> HIDE DEF M
<1>6. /\ Sound(k') /\ CurrentRuns(k') /\ SwitchRecord' /\ Calm(k', k, M) /\ Calm(k', y, {})
  BY <1>2, <1>3, <1>5, ScheduledStep
<1>7. /\ M \subseteq prog.resumed \cup prog.device
      /\ \A v \in M : k.stat[v] \notin {"init", "close"} /\ k'.stat[v] \notin {"init", "close"}
  <2>1. k'.stat[u] \notin {"init", "close"}
    BY <1>1, <1>4, <1>6 DEF Calm
  <2> QED BY <1>2, <2>1 DEF M
<1> QED BY <1>2, <1>6, <1>7, StepKeeps DEF IInv, Places

-----------------------------------------------------------------------------
(* The inductive invariant and the steps. *)
LEMMA NextKeeps ==
    ASSUME Disciplined, IInv, [Next]_vars
    PROVE  IInv' /\ ClosedStays
<1>1. CASE UNCHANGED vars
  BY <1>1 DEF vars, IInv, SwitchRecord, Places, ClosedStays
<1>2. ASSUME NEW t \in Thread, ThreadStep(t) PROVE IInv' /\ ClosedStays
  <2>1. prog.deleted = {} /\ pc[t] \notin {"delete_remove", "delete_close"}
    BY ProgramsType DEF IInv, Places, PlacesSound
  <2>2. CASE Yield(t)
    BY <2>2, YieldStep
  <2>3. CASE \E n \in SleepArg : Sleep(t, n)
    BY <2>3, SleepStep
  <2>4. CASE CallSchedule(t)
    BY <2>4, CallScheduleStep
  <2>5. CASE SleepReturn(t)
    BY <2>5, SleepReturnStep
  <2>6. CASE EnterCritical(t) \/ ExitCritical(t)
    BY <2>6, CriticalStep
  <2>7. CASE SuspendSelf(t)
    BY <2>7, SuspendStep
  <2>8. CASE \E u \in prog.resumed : ResumeCheck(t, u)
    BY <2>8, ResumeCheckStep
  <2>9. CASE ResumeDo(t)
    BY <2>9, ResumeDoStep
  <2>10. CASE Start(t)
    BY <2>10, StartupStep DEF Start
  <2>11. CASE Exit(t)
    BY <2>11, ExitStep
  <2>12. CASE \E u \in prog.prio, p \in NewPrio : SetPriority(t, u, p)
    BY <2>12, SetPriorityStep
  <2>13. ~(\E u \in prog.deleted : DeleteCheck(t, u)) /\ ~DeleteRemove(t) /\ ~DeleteClose(t)
    BY <2>1 DEF DeleteRemove, DeleteClose, At
  <2> QED BY <1>2, <2>2, <2>3, <2>4, <2>5, <2>6, <2>7, <2>8, <2>9, <2>10, <2>11, <2>12, <2>13
          DEF ThreadStep
<1>3. CASE IdleLook \/ IdleTake
  BY <1>3, IdleLookStep, IdleTakeStep
<1>4. CASE PendSV
  BY <1>4, PendSVStep
<1>5. CASE Interrupt
  <2>1. CASE TickReturn
    <3>1. UNCHANGED <<k, cpu, pc, arg, prog>> /\ isr' = "off"
      BY <2>1 DEF TickReturn
    <3> QED BY <3>1 DEF IInv, SwitchRecord, Places, ClosedStays
  <2> QED BY <1>5, <2>1, TickStep, TickScheduleStep, TimerFiresStep, DeviceInterruptStep DEF Interrupt
<1> QED BY <1>1, <1>2, <1>3, <1>4, <1>5 DEF Next

(* IInv is an invariant. *)
LEMMA Invariance ==
    ASSUME Disciplined
    PROVE  Spec => []IInv
<1>1. Init => IInv
  BY InitInv
<1>2. IInv /\ [Next]_vars => IInv'
  BY NextKeeps
<1> QED BY <1>1, <1>2, PTL DEF Spec

(* Every variable keeps its type: in particular rt_schedule, which takes the *)
(* head of the highest queue without looking, always finds a thread.         *)
THEOREM ThreadTypes ==
    ASSUME Disciplined
    PROVE  Spec => []TypeOK
<1>1. IInv => TypeOK
  BY DEF IInv, Sound, SoundBut, Places, TypeOK
<1> QED BY <1>1, Invariance, PTL

LEMMA QueuesNow == ASSUME IInv PROVE QueuesMatchStat
<1>1. /\ ~k.bad /\ Queues(k, {}) /\ Waits(k, {}) /\ Defunct(k, {})
      /\ PlacesSound(k, pc, arg, prog)
  BY DEF IInv, Sound, SoundBut, Places
<1>2. \A t \in Thread : ~BeingDeleted(t)
  BY <1>1 DEF PlacesSound, BeingDeleted
<1> QED BY <1>1, <1>2 DEF QueuesMatchStat, Queues, Waits, Defunct

(* A READY thread is in the queue of its priority, once, and in no other     *)
(* list; a thread of any other stat is in no queue (scheduler.c).            *)
THEOREM QueuesSound ==
    ASSUME Disciplined
    PROVE  Spec => []QueuesMatchStat
<1>1. IInv => QueuesMatchStat
  BY QueuesNow
<1> QED BY <1>1, Invariance, PTL

(* The priority group has exactly the bits of the queues that hold a thread. *)
THEOREM GroupIsExact ==
    ASSUME Disciplined
    PROVE  Spec => []GroupExact
<1>1. ASSUME IInv PROVE GroupExact
  <2>1. Group(k, {}) /\ k.grp \subseteq Prio
    BY <1>1 DEF IInv, Sound, SoundBut, Kernel
  <2> QED BY <2>1 DEF Group, GroupExact
<1> QED BY <1>1, Invariance, PTL

(* PendSV switches from the thread whose registers are in the CPU to         *)
(* rt_current_thread, whatever the interrupts since the request did.         *)
THEOREM SwitchIsRight ==
    ASSUME Disciplined
    PROVE  Spec => []SwitchRecord
<1>1. IInv => SwitchRecord
  BY DEF IInv
<1> QED BY <1>1, Invariance, PTL

(* No call and no interrupt brings a thread that exited back to life. *)
THEOREM ClosedForGood ==
    ASSUME Disciplined
    PROVE  Spec => ClosedStaysClosed
<1>1. IInv /\ [Next]_vars => [ClosedStays]_vars
  BY NextKeeps
<1>2. Spec => [][ClosedStays]_vars
  BY <1>1, Invariance, PTL DEF Spec
<1> QED BY <1>2 DEF ClosedStaysClosed, ClosedStays

-----------------------------------------------------------------------------
(* The instant the timers are ordered from: the last tick that rt_timer_check *)
(* has dealt with.                                                           *)
Base(x, i) == IF i = "off" THEN x.tick ELSE Minus(x.tick, 1)

(* The ticks timers may be started for: those of rt_thread_sleep and, in the *)
(* modules that extend RtThread, the timeouts of other calls.                *)
Durations(A) == SleepArg \subseteq A /\ A \subseteq 0..(Half - 1)

(* From b on the timers fire in the order of the list, each within one of    *)
(* the times they may be started for.                                        *)
OnTime(x, b, A) ==
    /\ InOrder(x.tmr, Lead(x, b))
    /\ \A t \in Thread : x.act[t] => \E n \in A : Lead(x, b)[t] <= n

(* A thread that has not been started makes no call; one that sleeps has a   *)
(* timer.                                                                    *)
Sleeping == {"sleep_sched", "sleep_ret"}
Sleepers(x, p) ==
    \A t \in Thread :
        /\ x.stat[t] = "init" => p[t] = "user"
        /\ p[t] \in Sleeping /\ x.stat[t] = "suspend" => x.act[t]

(* There is always a thread to run. *)
IdleAlive(x) == x.stat[Idle] \in {"ready", "running"}

(* Unless it is about to call rt_schedule the current thread is RUNNING and, *)
(* if the program is in S and changes no priorities, no READY thread has a   *)
(* higher priority.                                                          *)
About == {"sched", "sleep_sched", "exit_sched", "wait_sched"}
Ruling(x, p, g, S) ==
    x.lock = 0 => \/ p[x.cur] \in About
                  \/ x.stat[x.cur] = "running" /\ (g \in S /\ g.prio = {} => Rules(x))

Timely(A, S) == /\ OnTime(k, Base(k, isr), A)
                /\ Sleepers(k, pc)
                /\ IdleAlive(k)
                /\ Ruling(k, pc, prog, S)

TInv == Timely(SleepArg, Programs)

-----------------------------------------------------------------------------
(* The timers are in the same order after t's has been taken off the list. *)
LEMMA OnTimeLess ==
    ASSUME NEW A, Durations(A),
           NEW x \in Kernel, NEW r \in Kernel, Timers(x, {}), Timers(r, {}), NEW b, OnTime(x, b, A),
           NEW t \in Thread, r.tmr = Unlink(x.tmr, t),
           \A u \in Thread \ {t} : r.tout[u] = x.tout[u]
    PROVE  OnTime(r, b, A)
<1>1. x.tmr \in Seq(Thread) /\ IsOnce(x.tmr) /\ Elems(x.tmr) \subseteq Thread
  BY ElemsType DEF Timers, Kernel
<1>2. Elems(r.tmr) = Elems(x.tmr) \ {t}
  BY <1>1, UnlinkFacts
<1>3. \A u \in Thread \ {t} : Lead(r, b)[u] = Lead(x, b)[u]
  BY DEF Lead
<1>4. InOrder(r.tmr, Lead(r, b))
  <2>1. InOrder(r.tmr, Lead(x, b))
    BY <1>1, UnlinkInOrder DEF OnTime
  <2>2. \A e \in Elems(r.tmr) : Lead(r, b)[e] = Lead(x, b)[e]
    BY <1>1, <1>2, <1>3
  <2> QED BY <2>1, <2>2, InOrderSame
<1>5. ASSUME NEW u \in Thread, r.act[u] PROVE \E n \in A : Lead(r, b)[u] <= n
  <2>1. u # t /\ x.act[u]
    BY <1>2, <1>5 DEF Timers
  <2> QED BY <1>3, <2>1 DEF OnTime
<1> QED BY <1>4, <1>5 DEF OnTime

(* Or when no timer has changed. *)
LEMMA OnTimeSame ==
    ASSUME NEW A, Durations(A),
           NEW x, NEW r, NEW b, OnTime(x, b, A), r.tmr = x.tmr, r.tout = x.tout, r.act = x.act
    PROVE  OnTime(r, b, A)
BY DEF OnTime, Lead

(* rt_thread_sleep starts a timer for a time that was asked for. *)
LEMMA OnTimeStart ==
    ASSUME NEW A, Durations(A),
           NEW x, Sound(x), NEW t \in Thread, x.stat[t] = "suspend", NEW n \in A,
           OnTime(x, x.tick, A)
    PROVE  OnTime(TimerStart(x, t, n), x.tick, A)
<1> DEFINE r == TimerStart(x, t, n)
<1>1. n \in 0..(Half - 1) /\ n \in Nat /\ Half \in Int /\ A \subseteq 0..(Half - 1)
  BY HalfIs DEF Durations
<1>2. x \in Kernel /\ x.tick \in Tick /\ x.act \in [Thread -> BOOLEAN]
  BY DEF Sound, SoundBut, Kernel
<1>3. \A u \in Thread : x.act[u] => Lead(x, x.tick)[u] < Half
  <2> SUFFICES ASSUME NEW u \in Thread, x.act[u] PROVE Lead(x, x.tick)[u] < Half
    OBVIOUS
  <2>1. PICK m \in A : Lead(x, x.tick)[u] <= m
    BY DEF OnTime
  <2>2. Lead(x, x.tick)[u] \in Int /\ m \in Int /\ m < Half
    BY <1>1, <1>2, LeadType
  <2> QED BY <1>1, <2>1, <2>2
<1>4. /\ InOrder(r.tmr, Lead(r, x.tick))
      /\ Lead(r, x.tick)[t] = n
      /\ \A u \in Thread \ {t} : r.tout[u] = x.tout[u]
  BY <1>1, <1>3, TimerStartOrder DEF OnTime
<1>5. \A u \in Thread : r.act[u] = IF u = t THEN TRUE ELSE x.act[u]
  <2>1. r.act = [x.act EXCEPT ![t] = TRUE]
    BY <1>1, TimerStartFacts
  <2> HIDE DEF r
  <2> QED BY <1>2, <2>1
<1> HIDE DEF r
<1>6. ASSUME NEW u \in Thread, r.act[u] PROVE \E m \in A : Lead(r, x.tick)[u] <= m
  <2>1. CASE u = t
    BY <1>1, <1>4, <2>1
  <2>2. CASE u # t
    <3>1. Lead(r, x.tick)[u] = Lead(x, x.tick)[u] /\ x.act[u]
      BY <1>4, <1>5, <1>6, <2>2 DEF Lead
    <3> QED BY <3>1 DEF OnTime
  <2> QED BY <2>1, <2>2
<1> QED BY <1>4, <1>6 DEF OnTime, r

(* rt_timer_check returns when the first timer has not fired: then none has, *)
(* and all of them are one tick nearer.                                      *)
LEMMA OnTimeNext ==
    ASSUME NEW A, Durations(A), NEW x, Sound(x), OnTime(x, Minus(x.tick, 1), A), ~Fired(x)
    PROVE  OnTime(x, x.tick, A)
<1> DEFINE now == x.tick
           b == Minus(x.tick, 1)
           f == Lead(x, b)
           g == Lead(x, now)
<1>1. /\ x \in Kernel /\ now \in Tick /\ x.tout \in [Thread -> Tick] /\ Timers(x, {})
      /\ x.tmr \in Seq(Thread) /\ Elems(x.tmr) \subseteq Thread
  BY ElemsType DEF Sound, SoundBut, Kernel
<1>2. b \in Tick
  <2>1. 1 \in Tick
    BY KernelAssumption DEF Tick
  <2> QED BY <1>1, <2>1, MinusIs
<1>3. f \in [Thread -> Int] /\ g \in [Thread -> Int]
  BY <1>1, <1>2, LeadType
<1>4. A \subseteq 0..(Half - 1) /\ Half \in Int
  BY HalfIs DEF Durations
<1>5. ASSUME NEW u \in Elems(x.tmr) PROVE g[u] = f[u] - 1
  <2>1. x.tmr # <<>> /\ u \in Thread
    BY <1>1, <1>5, EmptyElems
  <2> DEFINE h == Head(x.tmr)
  <2>2. h \in Thread /\ h \in Elems(x.tmr)
    BY <1>1, <2>1, HeadElem
  <2>3. ~(Minus(now, x.tout[h]) < Half)
    BY <2>1 DEF Fired
  <2> HIDE DEF h
  <2>4. f[h] < Half
    <3>1. x.act[h]
      BY <1>1, <2>2 DEF Timers
    <3>2. PICK m \in A : f[h] <= m
      BY <2>2, <3>1 DEF OnTime
    <3>3. f[h] \in Int /\ m \in Int /\ m < Half
      BY <1>3, <1>4, <2>2
    <3> HIDE DEF f
    <3> QED BY <1>4, <3>2, <3>3
  <2>5. f[h] = Minus(x.tout[h], b) /\ f[u] = Minus(x.tout[u], b) /\ g[u] = Minus(x.tout[u], now)
    BY <2>1, <2>2 DEF Lead
  <2>6. x.tout[h] \in Tick /\ x.tout[u] \in Tick
    BY <1>1, <2>1, <2>2
  <2>7. f[h] > 1
    <3> HIDE DEF now, f
    <3> QED BY <1>1, <2>3, <2>4, <2>5, <2>6, NotFired DEF b, now
  <2>8. f[h] <= f[u]
    BY <1>1, <1>3, <2>1, InOrderHead DEF OnTime, h
  <2>9. f[u] > 1
    <3> HIDE DEF f
    <3> QED BY <1>3, <2>1, <2>2, <2>7, <2>8
  <2>10. Minus(x.tout[u], now) = Minus(x.tout[u], b) - 1
    <3>1. Minus(x.tout[u], Minus(now, 1)) > 1
      BY <2>5, <2>9
    <3> HIDE DEF now
    <3>2. Minus(x.tout[u], now) = Minus(x.tout[u], Minus(now, 1)) - 1
      BY <1>1, <2>6, <3>1, OneTickLess
    <3> QED BY <3>2 DEF now
  <2> QED BY <2>5, <2>10
<1>6. InOrder(x.tmr, g)
  <2>1. ASSUME NEW i \in DOMAIN x.tmr, NEW j \in DOMAIN x.tmr, i < j PROVE g[x.tmr[i]] <= g[x.tmr[j]]
    <3>1. x.tmr[i] \in Elems(x.tmr) /\ x.tmr[j] \in Elems(x.tmr)
      BY DEF Elems
    <3>2. f[x.tmr[i]] <= f[x.tmr[j]]
      BY <2>1 DEF OnTime, InOrder
    <3>3. f[x.tmr[i]] \in Int /\ f[x.tmr[j]] \in Int
      BY <1>1, <1>3, <3>1
    <3>4. g[x.tmr[i]] = f[x.tmr[i]] - 1 /\ g[x.tmr[j]] = f[x.tmr[j]] - 1
      BY <1>5, <3>1
    <3> HIDE DEF f, g
    <3> QED BY <3>2, <3>3, <3>4
  <2> QED BY <2>1 DEF InOrder
<1>7. ASSUME NEW u \in Thread, x.act[u] PROVE \E n \in A : g[u] <= n
  <2>1. PICK n \in A : f[u] <= n
    BY <1>7 DEF OnTime
  <2>2. g[u] = f[u] - 1
    BY <1>1, <1>5, <1>7 DEF Timers
  <2>3. f[u] \in Int /\ n \in Int
    BY <1>3, <1>4
  <2> HIDE DEF f, g
  <2>4. g[u] <= n
    BY <2>1, <2>2, <2>3
  <2> QED BY <2>4
<1> QED BY <1>6, <1>7 DEF OnTime

-----------------------------------------------------------------------------
(* Sleepers: stats and timers of the threads that are INIT or suspended.     *)
LEMMA SleepersKept ==
    ASSUME NEW x, NEW p, NEW r, NEW q, Sleepers(x, p),
           \A u \in Thread :
              /\ r.stat[u] = "init" => x.stat[u] = "init" /\ q[u] = p[u]
              /\ r.stat[u] = "suspend" /\ q[u] \in Sleeping =>
                    \/ r.act[u]
                    \/ x.stat[u] = "suspend" /\ p[u] \in Sleeping /\ (x.act[u] => r.act[u])
    PROVE  Sleepers(r, q)
BY DEF Sleepers

(* rt_schedule, whatever thread it leaves current. *)
LEMMA ScheduledRest ==
    ASSUME NEW A, Durations(A),
           NEW y, Sound(y), CurrentRuns(y), NEW b, OnTime(y, b, A), NEW p, Sleepers(y, p), IdleAlive(y),
           NEW r, r = Schedule(y)
    PROVE  /\ OnTime(r, b, A) /\ Sleepers(r, p) /\ IdleAlive(r)
           /\ r.tick = y.tick
           /\ \A q, g, S : Ruling(r, q, g, S)
<1>1. CurrentRuns(r) /\ r.act = y.act /\ Switched(r, y)
  BY ScheduleFacts
<1>2. y \in Kernel /\ y.stat \in [Thread -> Stat] /\ y.cur \in Thread /\ Idle \in Thread
  BY ThreadAssumption DEF Sound, SoundBut, Kernel
<1>3. y.stat[y.cur] = "running" \/ y.grp # {}
  <2>1. CASE y.stat[Idle] = "running"
    BY <1>2, <2>1 DEF CurrentRuns
  <2>2. CASE y.stat[Idle] = "ready"
    <3>1. y.prio[Idle] \in Prio /\ Idle \in Elems(y.rq[y.prio[Idle]])
      BY <1>2, <2>2 DEF Sound, SoundBut, Queues, Kernel
    <3>2. y.rq[y.prio[Idle]] # <<>>
      BY <3>1 DEF Elems
    <3> QED BY <3>1, <3>2 DEF Sound, Group
  <2> QED BY <2>1, <2>2 DEF IdleAlive
<1>4. /\ SameClock(r, y) /\ SameOwn(r, y) /\ (y.lock = 0 => Rules(r))
  BY <1>3, ScheduleRest
<1>5. \A u \in Thread : /\ r.stat[u] = y.stat[u] \/ {r.stat[u], y.stat[u]} \subseteq {"ready", "running"}
  BY <1>1, <1>2 DEF Switched
<1>6. Sleepers(r, p)
  BY <1>1, <1>5, SleepersKept
<1>7. IdleAlive(r)
  BY <1>2, <1>5 DEF IdleAlive
<1>8. OnTime(r, b, A)
  BY <1>1, <1>4, OnTimeSame DEF SameClock
<1>9. \A q, g, S : Ruling(r, q, g, S)
  BY <1>4 DEF Ruling, Rules, SameOwn
<1> QED BY <1>4, <1>6, <1>7, <1>8, <1>9 DEF SameClock

-----------------------------------------------------------------------------
(* Steps.  What IInv gives about the current state. *)
LEMMA Now ==
    ASSUME IInv
    PROVE  /\ Sound(k) /\ CurrentRuns(k) /\ k \in Kernel /\ Timers(k, {}) /\ k.cur \in Thread
           /\ k.stat \in [Thread -> Stat] /\ k.act \in [Thread -> BOOLEAN] /\ k.lock \in Nat
           /\ pc \in [Thread -> Pc] /\ prog \in Programs /\ k.tick \in Tick
BY DEF IInv, Sound, SoundBut, Kernel, Places

(* The idle thread makes no calls. *)
LEMMA NotIdle ==
    ASSUME Disciplined, IInv, NEW t \in Thread, NEW c, Does(t, c)
    PROVE  t # Idle /\ c \in prog.calls[t]
<1>1. prog.calls[Idle] = {}
  BY ProgramsType DEF IInv
<1> QED BY <1>1 DEF Does

(* A step of a thread that leaves the clock, the timers and stat alone. *)
LEMMA OwnStep ==
    ASSUME NEW A, NEW S, Durations(A),
           IInv, Timely(A, S), SameClock(k', k), k'.act = k.act, k'.stat = k.stat, isr' = isr,
           NEW t \in Thread, NEW w \in Pc \ Sleeping, k.stat[t] # "init", pc' = [pc EXCEPT ![t] = w],
           Ruling(k', pc', prog', S)
    PROVE  Timely(A, S)'
<1>1. OnTime(k', Base(k', isr'), A)
  BY OnTimeSame DEF Timely, SameClock, Base
<1>2. Sleepers(k', pc')
  <2>1. \A u \in Thread : pc'[u] = IF u = t THEN w ELSE pc[u]
    BY Now
  <2>2. w \notin Sleeping
    OBVIOUS
  <2> QED BY <2>1, <2>2 DEF Timely, Sleepers
<1>3. IdleAlive(k')
  BY DEF Timely, IdleAlive
<1> QED BY <1>1, <1>2, <1>3 DEF Timely

(* A thread is woken, then rt_schedule is called. *)
LEMMA WokenRest ==
    ASSUME NEW A, NEW S, Durations(A),
           IInv, Timely(A, S), NEW y, NEW u \in Thread, ResumedBy(y, k, u), k' = Schedule(y)
    PROVE  /\ OnTime(k', Base(k, isr), A) /\ Sleepers(k', pc) /\ IdleAlive(k') /\ k'.tick = k.tick
           /\ Ruling(k', pc, prog, S)
<1>1. /\ Sound(k) /\ CurrentRuns(k) /\ k \in Kernel /\ Timers(k, {})
      /\ k.stat \in [Thread -> Stat] /\ k.act \in [Thread -> BOOLEAN] /\ k.cur \in Thread
  BY Now
<1>2. /\ Sound(y) /\ y \in Kernel /\ Timers(y, {}) /\ y.cur = k.cur /\ y.tick = k.tick
      /\ y.tmr = Unlink(k.tmr, u)
      /\ \A v \in Thread \ {u} : y.tout[v] = k.tout[v]
  BY DEF ResumedBy, Sound, SoundBut, SameSwitch
<1>3. /\ \A v \in Thread : y.stat[v] = IF v = u THEN IF u = k.cur THEN "running" ELSE "ready"
                                       ELSE k.stat[v]
      /\ \A v \in Thread : y.act[v] = IF v = u THEN FALSE ELSE k.act[v]
  BY <1>1 DEF ResumedBy
<1>4. CurrentRuns(y)
  BY <1>1, <1>2, <1>3 DEF CurrentRuns
<1>5. OnTime(y, Base(k, isr), A)
  <2>1. OnTime(k, Base(k, isr), A)
    BY DEF Timely
  <2> QED BY <1>1, <1>2, <2>1, OnTimeLess
<1>6. Sleepers(y, pc) /\ IdleAlive(y)
  BY <1>3, ThreadAssumption DEF Timely, Sleepers, IdleAlive
<1>7. /\ OnTime(k', Base(k, isr), A) /\ Sleepers(k', pc) /\ IdleAlive(k') /\ k'.tick = y.tick
      /\ Ruling(k', pc, prog, S)
  BY <1>2, <1>4, <1>5, <1>6, ScheduledRest
<1> QED BY <1>2, <1>7

(* rt_thread_yield. *)
LEMMA YieldTimely ==
    ASSUME NEW A, NEW S, Durations(A), Disciplined, IInv, Timely(A, S), NEW t \in Thread, Yield(t)
    PROVE  Timely(A, S)'
<1> DEFINE y == [k EXCEPT !.rem[t] = Slice[t], !.yld[t] = TRUE]
<1>1. Sound(k) /\ CurrentRuns(k) /\ k \in Kernel
  BY Now
<1>2. /\ y \in Kernel /\ SameSwitch(y, k) /\ SameClock(y, k) /\ SameOwn(y, k)
      /\ y.rq = k.rq /\ y.grp = k.grp /\ y.wait = k.wait /\ y.dead = k.dead /\ y.stat = k.stat
      /\ y.prio = k.prio /\ y.act = k.act /\ y.tmr = k.tmr /\ y.bad = k.bad
  BY <1>1, KernelAssumption DEF Kernel, SameSwitch, SameClock, SameOwn
<1>3. k' = Schedule(y) /\ UNCHANGED <<cpu, pc, arg, isr, prog>>
  BY DEF Yield
<1> HIDE DEF y
<1>4. Sound(y) /\ CurrentRuns(y)
  BY <1>1, <1>2, SameListsFacts DEF Sound, CurrentRuns, SameSwitch
<1>5. OnTime(y, Base(k, isr), A) /\ Sleepers(y, pc) /\ IdleAlive(y) /\ y.tick = k.tick
  BY <1>2, OnTimeSame DEF Timely, SameClock, Sleepers, IdleAlive
<1>6. /\ OnTime(k', Base(k, isr), A) /\ Sleepers(k', pc) /\ IdleAlive(k') /\ k'.tick = k.tick
      /\ Ruling(k', pc, prog, S)
  BY <1>3, <1>4, <1>5, ScheduledRest
<1> QED BY <1>3, <1>6 DEF Timely, Base

(* rt_thread_sleep: the timer is started before any other code runs. *)
LEMMA SleepTimely ==
    ASSUME NEW A, NEW S, Durations(A),
           Disciplined, IInv, IInv', Timely(A, S), NEW t \in Thread, NEW n \in SleepArg, Sleep(t, n)
    PROVE  Timely(A, S)'
<1> DEFINE e == [k EXCEPT !.err[t] = "ok"]
           y == Suspend(e, t)
<1>1. Sound(k) /\ CurrentRuns(k) /\ k \in Kernel /\ n \in Nat /\ n \in 0..(Half - 1)
      /\ k.stat \in [Thread -> Stat] /\ k.act \in [Thread -> BOOLEAN] /\ pc \in [Thread -> Pc]
  BY Now, ThreadAssumption
<1>2. /\ k.cur = t /\ pc[t] = "user" /\ isr = "off" /\ t # Idle
      /\ k.stat[t] \in {"running", "suspend"}
  BY RunningThread, NotIdle DEF Sleep, Does, Stat
<1>3. /\ e \in Kernel /\ SameSwitch(e, k) /\ SameClock(e, k)
      /\ e.rq = k.rq /\ e.grp = k.grp /\ e.wait = k.wait /\ e.dead = k.dead /\ e.stat = k.stat
      /\ e.prio = k.prio /\ e.act = k.act /\ e.tmr = k.tmr /\ e.bad = k.bad
  BY <1>1 DEF Kernel, Err, SameSwitch, SameClock
<1> HIDE DEF e
<1>4. Sound(e)
  BY <1>1, <1>3, SameListsFacts DEF Sound
<1>5. /\ Sound(y) /\ SameSwitch(y, k) /\ y.act = k.act /\ y.stat = [k.stat EXCEPT ![t] = "suspend"]
      /\ SameClock(y, k)
  <2>1. [k.stat EXCEPT ![t] = "suspend"] = IF k.stat[t] \in {"ready", "running"}
                                           THEN [k.stat EXCEPT ![t] = "suspend"] ELSE k.stat
    BY <1>1, <1>2 DEF Kernel
  <2>2. SameClock(y, e)
    BY <1>4, SuspendRest
  <2>3. /\ Sound(y) /\ SameSwitch(y, e) /\ y.act = e.act
        /\ y.stat = IF e.stat[t] \in {"ready", "running"}
                    THEN [e.stat EXCEPT ![t] = "suspend"] ELSE e.stat
    BY <1>4, SuspendFacts
  <2> HIDE DEF y
  <2> QED BY <1>3, <2>1, <2>2, <2>3 DEF SameSwitch, SameClock
<1>7. k' = TimerStart(y, t, n) /\ pc' = [pc EXCEPT ![t] = "sleep_sched"]
      /\ UNCHANGED <<cpu, arg, isr, prog>>
  BY DEF Sleep, Goto, y, e
<1> HIDE DEF y
<1>6. y.stat[t] = "suspend"
  BY <1>1, <1>5
<1>8. OnTime(y, y.tick, A) /\ y.tick = k.tick
  BY <1>2, <1>5, OnTimeSame DEF Timely, Base, SameClock
<1> DEFINE r == TimerStart(y, t, n)
<1>9. SameSwitch(r, y) /\ r.stat = y.stat /\ r.act = [y.act EXCEPT ![t] = TRUE]
  BY <1>1, <1>5, <1>6, TimerStartFacts
<1>10. OnTime(r, y.tick, A)
  <2>1. n \in A
    BY DEF Durations
  <2> QED BY <1>5, <1>6, <1>8, <2>1, OnTimeStart
<1>11. r.tick = y.tick
  BY DEF TimerStart, TimerRemove
<1> HIDE DEF r
<1>12. k' = r
  BY <1>7 DEF r
<1>13. OnTime(k', Base(k', isr'), A)
  BY <1>2, <1>7, <1>10, <1>11, <1>12 DEF Base
<1>14. /\ \A u \in Thread : k'.stat[u] = IF u = t THEN "suspend" ELSE k.stat[u]
       /\ \A u \in Thread : k'.act[u] = IF u = t THEN TRUE ELSE k.act[u]
       /\ \A u \in Thread : pc'[u] = IF u = t THEN "sleep_sched" ELSE pc[u]
       /\ k'.cur = t
  <2>1. k'.stat = [k.stat EXCEPT ![t] = "suspend"] /\ k'.act = [k.act EXCEPT ![t] = TRUE]
    BY <1>5, <1>9, <1>12
  <2>2. k'.cur = t
    BY <1>2, <1>5, <1>9, <1>12 DEF SameSwitch
  <2> QED BY <1>1, <1>7, <2>1, <2>2
<1>15. Sleepers(k', pc')
  BY <1>14 DEF Timely, Sleepers
<1>16. IdleAlive(k')
  BY <1>2, <1>14, ThreadAssumption DEF Timely, IdleAlive
<1>17. Ruling(k', pc', prog', S)
  BY <1>14 DEF Ruling, About
<1> QED BY <1>13, <1>15, <1>16, <1>17 DEF Timely

(* rt_schedule, called with interrupts enabled. *)
LEMMA CallScheduleTimely ==
    ASSUME NEW A, NEW S, Durations(A), Disciplined, IInv, Timely(A, S), NEW t \in Thread, CallSchedule(t)
    PROVE  Timely(A, S)'
<1>1. PICK hop \in {<<"sched", "user">>, <<"sleep_sched", "sleep_ret">>, <<"exit_sched", "dead">>} :
         At(t, hop[1]) /\ Goto(t, hop[2])
  BY DEF CallSchedule
<1>2. pc[t] = hop[1] /\ (hop[2] \in Sleeping => hop[1] \in Sleeping) /\ hop[1] # "user"
  BY <1>1 DEF At, Sleeping
<1>3. k' = Schedule(k) /\ UNCHANGED <<cpu, arg, isr, prog>> /\ pc' = [pc EXCEPT ![t] = hop[2]]
  BY <1>1 DEF CallSchedule, Goto
<1>4. Sound(k) /\ CurrentRuns(k) /\ pc \in [Thread -> Pc]
  BY Now
<1>5. Sleepers(k, pc')
  BY <1>2, <1>3, <1>4 DEF Timely, Sleepers
<1>6. OnTime(k, Base(k, isr), A) /\ IdleAlive(k)
  BY DEF Timely
<1>7. /\ OnTime(k', Base(k, isr), A) /\ Sleepers(k', pc') /\ IdleAlive(k') /\ k'.tick = k.tick
      /\ Ruling(k', pc', prog, S)
  BY <1>3, <1>4, <1>5, <1>6, ScheduledRest
<1> QED BY <1>3, <1>7 DEF Timely, Base

(* rt_thread_sleep returns to a thread that runs. *)
LEMMA SleepReturnTimely ==
    ASSUME NEW A, NEW S, Durations(A), Disciplined, IInv, Timely(A, S), NEW t \in Thread, SleepReturn(t)
    PROVE  Timely(A, S)'
<1>1. k \in Kernel /\ pc \in [Thread -> Pc]
  BY Now
<1>2. k.stat[t] # "init" /\ k.cur = t /\ pc[t] = "sleep_ret"
  BY RunningThread DEF SleepReturn
<1>3. pc' = [pc EXCEPT ![t] = "user"] /\ UNCHANGED <<isr, prog>>
  BY DEF SleepReturn, Goto
<1>4. k' = [k EXCEPT !.err[t] = IF k.err[t] = "timeout" THEN "ok" ELSE k.err[t]]
  BY <1>1 DEF SleepReturn, Kernel
<1>5. SameClock(k', k) /\ k'.act = k.act /\ k'.stat = k.stat /\ k'.cur = k.cur /\ k'.lock = k.lock
      /\ k'.grp = k.grp /\ k'.prio = k.prio
  BY <1>1, <1>4 DEF Kernel, SameClock
<1>6. "user" \in Pc \ Sleeping
  BY DEF Pc, Sleeping
<1>7. Ruling(k', pc', prog', S)
  BY <1>2, <1>3, <1>5 DEF Timely, Ruling, Rules, About
<1> QED BY <1>2, <1>3, <1>5, <1>6, <1>7, OwnStep

(* rt_enter_critical and rt_exit_critical: the last rt_exit_critical calls   *)
(* rt_schedule.                                                              *)
LEMMA CriticalTimely ==
    ASSUME NEW A, NEW S, Durations(A),
           Disciplined, IInv, Timely(A, S), NEW t \in Thread, EnterCritical(t) \/ ExitCritical(t)
    PROVE  Timely(A, S)'
<1>1. k \in Kernel /\ pc \in [Thread -> Pc] /\ k.lock \in Nat
  BY Now
<1>2. k.stat[t] # "init" /\ k.cur = t /\ pc[t] = "user"
  BY RunningThread DEF EnterCritical, ExitCritical, Does
<1>3. PICK n \in Nat, w \in {"user", "sched"} :
         /\ k' = [k EXCEPT !.lock = n] /\ pc' = [pc EXCEPT ![t] = w]
         /\ n = 0 => w = "sched"
  <2>1. CASE EnterCritical(t)
    <3>1. k' = [k EXCEPT !.lock = k.lock + 1] /\ pc' = [pc EXCEPT ![t] = "user"] /\ k.lock + 1 \in Nat \ {0}
      BY <1>1, <1>2, <2>1 DEF EnterCritical, Kernel
    <3> QED BY <3>1
  <2>2. CASE ExitCritical(t)
    <3> DEFINE n == IF k.lock > 0 THEN k.lock - 1 ELSE 0
               w == IF k.lock <= 1 THEN "sched" ELSE "user"
    <3>1. k' = [k EXCEPT !.lock = n] /\ pc' = [pc EXCEPT ![t] = w]
      BY <1>1, <1>2, <2>2 DEF ExitCritical, Kernel, Goto
    <3>2. n \in Nat /\ (n = 0 => w = "sched") /\ w \in {"user", "sched"}
      BY <1>1
    <3> HIDE DEF n, w
    <3> QED BY <3>1, <3>2
  <2> QED BY <2>1, <2>2
<1>4. UNCHANGED <<isr, prog>>
  BY DEF EnterCritical, ExitCritical
<1>5. SameClock(k', k) /\ k'.act = k.act /\ k'.stat = k.stat /\ k'.cur = k.cur /\ k'.lock = n
  BY <1>1, <1>3 DEF Kernel, SameClock
<1>6. w \in Pc \ Sleeping
  BY DEF Pc, Sleeping
<1>7. Ruling(k', pc', prog', S)
  <2>1. pc'[t] = w
    BY <1>1, <1>3
  <2> QED BY <1>2, <1>3, <1>5, <2>1 DEF Ruling, About
<1> QED BY <1>2, <1>3, <1>4, <1>5, <1>6, <1>7, OwnStep

(* rt_thread_suspend of the running thread, which then calls rt_schedule. *)
LEMMA SuspendTimely ==
    ASSUME NEW A, NEW S, Durations(A), Disciplined, IInv, Timely(A, S), NEW t \in Thread, SuspendSelf(t)
    PROVE  Timely(A, S)'
<1> DEFINE r == Suspend(k, t)
<1>1. Sound(k) /\ k.stat \in [Thread -> Stat] /\ pc \in [Thread -> Pc]
  BY Now
<1>2. k.cur = t /\ k.stat[t] \notin {"init", "ready"} /\ t # Idle /\ pc[t] = "user"
  BY RunningThread, NotIdle DEF SuspendSelf, Does
<1>3. /\ SameSwitch(r, k) /\ r.act = k.act /\ SameClock(r, k)
      /\ r.stat = IF k.stat[t] \in {"ready", "running"}
                  THEN [k.stat EXCEPT ![t] = "suspend"] ELSE k.stat
  BY <1>1, SuspendFacts, SuspendRest
<1>4. k' = r /\ pc' = [pc EXCEPT ![t] = "sched"] /\ UNCHANGED <<isr, prog>>
  BY DEF SuspendSelf, Goto
<1> HIDE DEF r
<1>5. \A u \in Thread : k'.stat[u] = IF u = t /\ k.stat[t] \in {"ready", "running"}
                                    THEN "suspend" ELSE k.stat[u]
  BY <1>1, <1>3, <1>4
<1>6. \A u \in Thread : pc'[u] = IF u = t THEN "sched" ELSE pc[u]
  BY <1>1, <1>4
<1>7. OnTime(k', Base(k', isr'), A)
  BY <1>3, <1>4, OnTimeSame DEF Timely, SameClock, Base
<1>8. Sleepers(k', pc')
  BY <1>2, <1>3, <1>4, <1>5, <1>6 DEF Timely, Sleepers, Sleeping
<1>9. IdleAlive(k')
  BY <1>2, <1>5, ThreadAssumption DEF Timely, IdleAlive
<1>10. Ruling(k', pc', prog', S)
  BY <1>2, <1>3, <1>4, <1>6 DEF Ruling, About, SameSwitch
<1> QED BY <1>7, <1>8, <1>9, <1>10 DEF Timely

(* rt_thread_resume reads stat. *)
LEMMA ResumeCheckTimely ==
    ASSUME NEW A, NEW S, Durations(A),
           Disciplined, IInv, Timely(A, S), NEW t \in Thread, NEW u \in prog.resumed, ResumeCheck(t, u)
    PROVE  Timely(A, S)'
<1>1. k.stat[t] # "init" /\ k.cur = t /\ pc[t] = "user" /\ pc \in [Thread -> Pc]
  BY RunningThread, Now DEF ResumeCheck, Does
<1>2. pc' = [pc EXCEPT ![t] = "resume"] /\ UNCHANGED <<k, isr, prog>>
  BY DEF ResumeCheck, Goto
<1>3. "resume" \in Pc \ Sleeping
  BY DEF Pc, Sleeping
<1>4. Ruling(k', pc', prog', S)
  BY <1>1, <1>2 DEF Timely, Ruling, About
<1> QED BY <1>1, <1>2, <1>3, <1>4, OwnStep DEF SameClock

(* rt_thread_resume takes the thread's timer off the list. *)
LEMMA ResumeDoTimely ==
    ASSUME NEW A, NEW S, Durations(A), Disciplined, IInv, IInv', Timely(A, S), NEW t \in Thread, ResumeDo(t)
    PROVE  Timely(A, S)'
<1> DEFINE u == arg[t]
           r == Resume(k, u)
<1>1. /\ Sound(k) /\ CurrentRuns(k) /\ k \in Kernel /\ Timers(k, {}) /\ k.stat \in [Thread -> Stat]
      /\ k.act \in [Thread -> BOOLEAN] /\ pc \in [Thread -> Pc]
  BY Now
<1>2. k.cur = t /\ k.stat[t] # "init" /\ u \in Thread
  BY RunningThread DEF ResumeDo, IInv, Places
<1>3. /\ r \in Kernel /\ Timers(r, {}) /\ SameSwitch(r, k)
      /\ r.act = [k.act EXCEPT ![u] = FALSE]
      /\ r.stat = [k.stat EXCEPT ![u] = IF u = k.cur THEN "running" ELSE "ready"]
      /\ r.tick = k.tick /\ r.tmr = Unlink(k.tmr, u)
      /\ \A v \in Thread \ {u} : r.tout[v] = k.tout[v]
  BY <1>1, <1>2, ResumeFacts, ResumeRest DEF Sound, SoundBut
<1>4. k' = r /\ pc' = [pc EXCEPT ![t] = "sched"] /\ UNCHANGED <<isr, prog>>
  BY DEF ResumeDo, Goto
<1> HIDE DEF r, u
<1>5. /\ \A v \in Thread : k'.stat[v] = IF v = u THEN IF u = k.cur THEN "running" ELSE "ready"
                                        ELSE k.stat[v]
      /\ \A v \in Thread : k'.act[v] = IF v = u THEN FALSE ELSE k.act[v]
      /\ \A v \in Thread : pc'[v] = IF v = t THEN "sched" ELSE pc[v]
      /\ k'.cur = t
  <2>1. k'.cur = t
    BY <1>2, <1>3, <1>4 DEF SameSwitch
  <2> QED BY <1>1, <1>3, <1>4, <2>1
<1>6. OnTime(k', Base(k', isr'), A)
  <2>1. OnTime(k, Base(k, isr), A)
    BY DEF Timely
  <2>2. OnTime(r, Base(k, isr), A)
    BY <1>1, <1>2, <1>3, <2>1, OnTimeLess
  <2> QED BY <1>3, <1>4, <2>2 DEF Base
<1>7. Sleepers(k', pc')
  BY <1>2, <1>5 DEF Timely, Sleepers, Sleeping
<1>8. IdleAlive(k')
  BY <1>5, ThreadAssumption DEF Timely, IdleAlive
<1>9. Ruling(k', pc', prog', S)
  BY <1>2, <1>5 DEF Ruling, About
<1> QED BY <1>6, <1>7, <1>8, <1>9 DEF Timely

(* rt_thread_startup makes a thread that was INIT suspended, without a timer. *)
LEMMA StartupTimely ==
    ASSUME NEW A, NEW S, Durations(A),
           Disciplined, IInv, IInv', Timely(A, S), NEW t \in Thread, NEW u \in Thread, Startup(t, u)
    PROVE  Timely(A, S)'
<1>1. k \in Kernel /\ k.stat \in [Thread -> Stat] /\ pc \in [Thread -> Pc]
  BY Now
<1>2. k.cur = t /\ k.stat[t] # "init" /\ pc[t] = "user" /\ k.stat[u] = "init" /\ u # t /\ u # Idle
  BY RunningThread DEF Startup, Does, Timely, IdleAlive
<1>3. k' = [k EXCEPT !.stat[u] = "suspend"] /\ pc' = [pc EXCEPT ![t] = "resume"] /\ UNCHANGED <<isr, prog>>
  BY DEF Startup, Goto
<1>4. /\ SameClock(k', k) /\ k'.act = k.act /\ k'.cur = k.cur /\ k'.lock = k.lock
      /\ k'.grp = k.grp /\ k'.prio = k.prio /\ k'.stat = [k.stat EXCEPT ![u] = "suspend"]
  BY <1>1, <1>3 DEF Kernel, SameClock
<1>5. /\ \A v \in Thread : k'.stat[v] = IF v = u THEN "suspend" ELSE k.stat[v]
      /\ \A v \in Thread : pc'[v] = IF v = t THEN "resume" ELSE pc[v]
  BY <1>1, <1>3, <1>4
<1>6. OnTime(k', Base(k', isr'), A)
  <2>1. Base(k', isr') = Base(k, isr) /\ OnTime(k, Base(k, isr), A)
    BY <1>3, <1>4 DEF Timely, SameClock, Base
  <2> QED BY <1>4, <2>1, OnTimeSame DEF SameClock
<1>7. Sleepers(k', pc')
  BY <1>2, <1>4, <1>5 DEF Timely, Sleepers, Sleeping
<1>8. IdleAlive(k')
  BY <1>2, <1>5, ThreadAssumption DEF Timely, IdleAlive
<1>9. Ruling(k', pc', prog', S)
  BY <1>2, <1>3, <1>4, <1>5 DEF Timely, Ruling, Rules, About
<1> QED BY <1>6, <1>7, <1>8, <1>9 DEF Timely

(* _thread_exit. *)
LEMMA ExitTimely ==
    ASSUME NEW A, NEW S, Durations(A), Disciplined, IInv, IInv', Timely(A, S), NEW t \in Thread, Exit(t)
    PROVE  Timely(A, S)'
<1> DEFINE r == Close(RemoveThread(k, t), t)
<1>1. /\ Sound(k) /\ k \in Kernel /\ Timers(k, {}) /\ k.stat \in [Thread -> Stat]
      /\ k.act \in [Thread -> BOOLEAN] /\ pc \in [Thread -> Pc]
  BY Now
<1>2. k.cur = t /\ pc[t] = "user" /\ t # Idle
  BY RunningThread, NotIdle DEF Exit, Does
<1>3. /\ r \in Kernel /\ Timers(r, {}) /\ SameSwitch(r, k) /\ r.act = [k.act EXCEPT ![t] = FALSE]
      /\ r.stat = [k.stat EXCEPT ![t] = "close"]
      /\ r.tick = k.tick /\ r.tmr = Unlink(k.tmr, t)
      /\ \A v \in Thread \ {t} : r.tout[v] = k.tout[v]
  BY <1>1, ExitFacts, ExitRest DEF Sound, SoundBut
<1>4. k' = r /\ pc' = [pc EXCEPT ![t] = "exit_sched"] /\ UNCHANGED <<isr, prog>>
  BY DEF Exit, Goto
<1> HIDE DEF r
<1>5. /\ \A v \in Thread : k'.stat[v] = IF v = t THEN "close" ELSE k.stat[v]
      /\ \A v \in Thread : k'.act[v] = IF v = t THEN FALSE ELSE k.act[v]
      /\ \A v \in Thread : pc'[v] = IF v = t THEN "exit_sched" ELSE pc[v]
      /\ k'.cur = t
  <2>1. k'.cur = t
    BY <1>2, <1>3, <1>4 DEF SameSwitch
  <2> QED BY <1>1, <1>3, <1>4, <2>1
<1>6. OnTime(k', Base(k', isr'), A)
  <2>1. OnTime(k, Base(k, isr), A)
    BY DEF Timely
  <2>2. OnTime(r, Base(k, isr), A)
    BY <1>1, <1>3, <2>1, OnTimeLess
  <2> QED BY <1>3, <1>4, <2>2 DEF Base
<1>7. Sleepers(k', pc')
  BY <1>2, <1>5 DEF Timely, Sleepers, Sleeping
<1>8. IdleAlive(k')
  BY <1>2, <1>5, ThreadAssumption DEF Timely, IdleAlive
<1>9. Ruling(k', pc', prog', S)
  BY <1>5 DEF Ruling, About
<1> QED BY <1>6, <1>7, <1>8, <1>9 DEF Timely

(* RT_THREAD_CTRL_CHANGE_PRIORITY. *)
LEMMA SetPriorityTimely ==
    ASSUME NEW A, NEW S, Durations(A),
           Disciplined, IInv, Timely(A, S), NEW t \in Thread, NEW u \in prog.prio, NEW p \in NewPrio,
           SetPriority(t, u, p)
    PROVE  Timely(A, S)'
<1> DEFINE r == ChangePriority(k, u, p)
<1>1. Sound(k) /\ CurrentRuns(k) /\ prog \in Programs
  BY Now
<1>2. u \in Thread /\ p \in Prio
  <2>1. InitPrio[Idle] \in Prio /\ p \in 0..(InitPrio[Idle] - 1)
    BY ThreadAssumption
  <2> QED BY <1>1, <2>1, ProgramsType, KernelAssumption DEF Prio
<1>3. SameSwitch(r, k) /\ r.act = k.act /\ r.stat = k.stat /\ SameClock(r, k) /\ r.lock = k.lock
  BY <1>1, <1>2, ChangePriorityFacts, ChangePriorityRest
<1>4. k' = r /\ UNCHANGED <<pc, isr, prog>> /\ prog.prio # {}
  BY DEF SetPriority
<1> HIDE DEF r
<1>5. OnTime(k', Base(k', isr'), A)
  BY <1>3, <1>4, OnTimeSame DEF Timely, SameClock, Base
<1>6. Sleepers(k', pc') /\ IdleAlive(k')
  BY <1>3, <1>4 DEF Timely, Sleepers, IdleAlive
<1>7. Ruling(k', pc', prog', S)
  BY <1>3, <1>4 DEF Timely, Ruling, SameSwitch
<1> QED BY <1>5, <1>6, <1>7 DEF Timely

(* The idle thread looks at the defunct list. *)
LEMMA IdleTimely ==
    ASSUME NEW A, NEW S, Durations(A), Disciplined, IInv, Timely(A, S), IdleLook \/ IdleTake
    PROVE  Timely(A, S)'
<1>1. /\ k.cur = Idle /\ Idle \in Thread /\ k.stat[Idle] # "init" /\ pc[Idle] \in {"user", "idle_take"}
      /\ k \in Kernel /\ pc \in [Thread -> Pc] /\ arg[Idle] \in Thread
  BY ThreadAssumption, RunningThread, Now DEF IdleLook, IdleTake, IInv, Places
<1>2. PICK w \in {"user", "idle_take"} :
         /\ pc' = [pc EXCEPT ![Idle] = w] /\ UNCHANGED <<isr, prog>>
         /\ k' = k \/ k' = ListRemove(k, arg[Idle])
  BY DEF IdleLook, IdleTake, Goto
<1>3. /\ SameClock(k', k) /\ k'.act = k.act /\ k'.stat = k.stat /\ k'.cur = k.cur /\ k'.lock = k.lock
      /\ k'.grp = k.grp /\ k'.prio = k.prio
  BY <1>1, <1>2 DEF ListRemove, Kernel, SameClock
<1>4. w \in Pc \ Sleeping
  BY DEF Pc, Sleeping
<1>5. Ruling(k', pc', prog', S)
  BY <1>1, <1>2, <1>3 DEF Timely, Ruling, Rules, About
<1> QED BY <1>1, <1>2, <1>3, <1>4, <1>5, OwnStep

-----------------------------------------------------------------------------
(* PendSV_Handler. *)
LEMMA PendSVTimely ==
    ASSUME NEW A, NEW S, Durations(A), Disciplined, IInv, Timely(A, S), PendSV
    PROVE  Timely(A, S)'
<1>1. k' = [k EXCEPT !.flag = FALSE, !.from = k.to] /\ UNCHANGED <<pc, isr, prog>> /\ k \in Kernel
  BY Now DEF PendSV
<1>2. /\ SameClock(k', k) /\ k'.act = k.act /\ k'.stat = k.stat /\ k'.cur = k.cur /\ k'.lock = k.lock
      /\ k'.grp = k.grp /\ k'.prio = k.prio
  BY <1>1 DEF Kernel, SameClock
<1>3. OnTime(k', Base(k', isr'), A)
  <2>1. Base(k', isr') = Base(k, isr) /\ OnTime(k, Base(k, isr), A)
    BY <1>1, <1>2 DEF Timely, SameClock, Base
  <2> QED BY <1>2, <2>1, OnTimeSame DEF SameClock
<1> QED BY <1>1, <1>2, <1>3 DEF Timely, Sleepers, IdleAlive, Ruling, Rules

(* rt_tick_increase: rt_timer_check has not yet dealt with the new tick. *)
LEMMA TickTimely ==
    ASSUME NEW A, NEW S, Durations(A), Disciplined, IInv, Timely(A, S), TickInterrupt
    PROVE  Timely(A, S)'
<1> DEFINE r == CountTick(k)
           now == k.tick
<1>1. Sound(k) /\ k \in Kernel /\ now \in Tick
  BY Now
<1>2. /\ SameSwitch(r, k) /\ r.act = k.act /\ r.stat = k.stat
      /\ r.tick = (now + 1) % TickMod /\ r.tmr = k.tmr /\ r.tout = k.tout
      /\ SameOwn(r, k) /\ r.grp = k.grp
  BY <1>1, CountTickFacts, CountTickRest
<1>3. k' = r /\ UNCHANGED <<pc, prog>> /\ isr = "off" /\ isr' # "off"
  BY DEF TickInterrupt
<1> HIDE DEF r
<1>4. Minus(r.tick, 1) = now
  <2> HIDE DEF now
  <2> QED BY <1>1, <1>2, NextTick
<1>5. OnTime(r, now, A)
  BY <1>2, <1>3, OnTimeSame DEF Timely, Base
<1>6. OnTime(k', Base(k', isr'), A)
  BY <1>3, <1>4, <1>5 DEF Base
<1> QED BY <1>2, <1>3, <1>6 DEF Timely, Sleepers, IdleAlive, Ruling, Rules, SameSwitch, SameOwn

(* rt_tick_increase: the slice is used up. *)
LEMMA TickScheduleTimely ==
    ASSUME NEW A, NEW S, Durations(A), Disciplined, IInv, Timely(A, S), TickSchedule
    PROVE  Timely(A, S)'
<1>1. k' = Schedule(k) /\ UNCHANGED <<pc, prog>> /\ isr = "sched" /\ isr' = "timer"
  BY DEF TickSchedule
<1>2. Sound(k) /\ CurrentRuns(k) /\ OnTime(k, Base(k, isr), A) /\ Sleepers(k, pc) /\ IdleAlive(k)
  BY Now DEF Timely
<1>3. /\ OnTime(k', Base(k, isr), A) /\ Sleepers(k', pc) /\ IdleAlive(k') /\ k'.tick = k.tick
      /\ Ruling(k', pc, prog, S)
  BY <1>1, <1>2, ScheduledRest
<1> QED BY <1>1, <1>3 DEF Timely, Base

(* _thread_timeout and the rt_schedule at its end. *)
LEMMA TimerFiresTimely ==
    ASSUME NEW A, NEW S, Durations(A), Disciplined, IInv, Timely(A, S), TimerFires
    PROVE  Timely(A, S)'
<1> DEFINE u == Head(k.tmr)
           y == Expire(k, u)
<1>1. /\ Sound(k) /\ CurrentRuns(k) /\ k \in Kernel /\ Timers(k, {})
      /\ k.stat \in [Thread -> Stat] /\ k.act \in [Thread -> BOOLEAN]
      /\ k.tmr \in Seq(Thread) /\ k.tmr # <<>>
  BY Now DEF Kernel, TimerFires, Fired
<1>2. u \in Thread /\ k.act[u]
  BY <1>1, HeadElem DEF Timers
<1>3. k' = Schedule(y) /\ UNCHANGED <<pc, prog>> /\ isr # "off" /\ isr' # "off"
  BY DEF TimerFires
<1> HIDE DEF u
<1>5. ResumedBy(y, k, u)
  BY <1>1, <1>2, ExpireResumes
<1> HIDE DEF y
<1>6. /\ OnTime(k', Base(k, isr), A) /\ Sleepers(k', pc) /\ IdleAlive(k') /\ k'.tick = k.tick
      /\ Ruling(k', pc, prog, S)
  BY <1>2, <1>3, <1>5, WokenRest
<1> QED BY <1>3, <1>6 DEF Timely, Base

(* A device interrupt that resumes a thread. *)
LEMMA DeviceTimely ==
    ASSUME NEW A, NEW S, Durations(A),
           Disciplined, IInv, Timely(A, S), NEW u \in prog.device, DeviceResumes(u)
    PROVE  Timely(A, S)'
<1> DEFINE y == Resume(k, u)
<1>1. Sound(k) /\ CurrentRuns(k) /\ u \in Thread
  BY Now, ProgramsType
<1>2. k' = Schedule(y) /\ UNCHANGED <<pc, isr, prog>>
  BY DEF DeviceResumes
<1>4. ResumedBy(y, k, u)
  BY <1>1, ResumeResumes
<1> HIDE DEF y
<1>5. /\ OnTime(k', Base(k, isr), A) /\ Sleepers(k', pc) /\ IdleAlive(k') /\ k'.tick = k.tick
      /\ Ruling(k', pc, prog, S)
  BY <1>1, <1>2, <1>4, WokenRest
<1> QED BY <1>2, <1>5 DEF Timely, Base

(* rt_timer_check ends: no timer fires at this tick. *)
LEMMA TickReturnTimely ==
    ASSUME NEW A, NEW S, Durations(A), Disciplined, IInv, Timely(A, S), TickReturn
    PROVE  Timely(A, S)'
<1>1. UNCHANGED <<k, pc, prog>> /\ isr # "off" /\ isr' = "off" /\ ~Fired(k)
  BY DEF TickReturn
<1>2. Sound(k) /\ OnTime(k, Minus(k.tick, 1), A)
  BY <1>1, Now DEF Timely, Base
<1>3. OnTime(k, k.tick, A)
  BY <1>1, <1>2, OnTimeNext
<1> QED BY <1>1, <1>3 DEF Timely, Base, Sleepers, IdleAlive, Ruling, Rules

-----------------------------------------------------------------------------
(* With IInv, Timely(A, S) is inductive. *)
LEMMA NextTimely ==
    ASSUME NEW A, NEW S, Durations(A), Disciplined, IInv, IInv', Timely(A, S), [Next]_vars
    PROVE  Timely(A, S)'
<1>1. CASE UNCHANGED vars
  BY <1>1 DEF vars, Timely, OnTime, Lead, Base, Sleepers, IdleAlive, Ruling, Rules
<1>2. ASSUME NEW t \in Thread, ThreadStep(t) PROVE Timely(A, S)'
  <2>1. prog.deleted = {} /\ pc[t] \notin {"delete_remove", "delete_close"}
    BY ProgramsType DEF IInv, Places, PlacesSound
  <2>2. CASE Yield(t)
    BY <2>2, YieldTimely
  <2>3. CASE \E n \in SleepArg : Sleep(t, n)
    BY <2>3, SleepTimely
  <2>4. CASE CallSchedule(t)
    BY <2>4, CallScheduleTimely
  <2>5. CASE SleepReturn(t)
    BY <2>5, SleepReturnTimely
  <2>6. CASE EnterCritical(t) \/ ExitCritical(t)
    BY <2>6, CriticalTimely
  <2>7. CASE SuspendSelf(t)
    BY <2>7, SuspendTimely
  <2>8. CASE \E u \in prog.resumed : ResumeCheck(t, u)
    BY <2>8, ResumeCheckTimely
  <2>9. CASE ResumeDo(t)
    BY <2>9, ResumeDoTimely
  <2>10. CASE Start(t)
    BY <2>10, StartupTimely DEF Start
  <2>11. CASE Exit(t)
    BY <2>11, ExitTimely
  <2>12. CASE \E u \in prog.prio, p \in NewPrio : SetPriority(t, u, p)
    BY <2>12, SetPriorityTimely
  <2>13. ~(\E u \in prog.deleted : DeleteCheck(t, u)) /\ ~DeleteRemove(t) /\ ~DeleteClose(t)
    BY <2>1 DEF DeleteRemove, DeleteClose, At
  <2> QED BY <1>2, <2>2, <2>3, <2>4, <2>5, <2>6, <2>7, <2>8, <2>9, <2>10, <2>11, <2>12, <2>13
          DEF ThreadStep
<1>3. CASE IdleLook \/ IdleTake
  BY <1>3, IdleTimely
<1>4. CASE PendSV
  BY <1>4, PendSVTimely
<1>5. CASE Interrupt
  BY <1>5, TickTimely, TickScheduleTimely, TimerFiresTimely, TickReturnTimely, DeviceTimely DEF Interrupt
<1> QED BY <1>1, <1>2, <1>3, <1>4, <1>5 DEF Next

(* It holds when the scheduler has started the first thread. *)
LEMMA InitTimely ==
    ASSUME NEW A, NEW S, Durations(A), Init
    PROVE  Timely(A, S)
<1>1. OnTime(k, Base(k, isr), A)
  BY DEF Init, OnTime, InOrder
<1>2. Sleepers(k, pc) /\ IdleAlive(k)
  BY ThreadAssumption DEF Init, Sleepers, Sleeping, IdleAlive
<1>3. Ruling(k, pc, prog, S)
  <2>1. k.cur = Main /\ k.stat[Main] = "running" /\ k.grp = {InitPrio[Idle]} /\ k.prio = InitPrio
    BY ThreadAssumption DEF Init
  <2>2. InitPrio[Main] < InitPrio[Idle] /\ InitPrio[Main] \in Int /\ InitPrio[Idle] \in Int
    BY ThreadAssumption, KernelAssumption DEF Prio
  <2>3. InitPrio[Main] <= InitPrio[Idle]
    BY <2>2
  <2> QED BY <2>1, <2>3 DEF Ruling, Rules
<1> QED BY <1>1, <1>2, <1>3 DEF Timely

LEMMA TimelyInvariance ==
    ASSUME Disciplined
    PROVE  Spec => [](IInv /\ TInv)
<1>1. Init => TInv
  BY InitTimely, ThreadAssumption DEF Durations, TInv
<1>2. IInv /\ IInv' /\ TInv /\ [Next]_vars => TInv'
  BY NextTimely, ThreadAssumption DEF Durations, TInv
<1> QED BY <1>1, <1>2, Invariance, PTL DEF Spec

(* A thread in rt_thread_sleep that is suspended has a timer that will wake  *)
(* it: however its suspension, its timer and the calls of other threads      *)
(* interleave it is not forgotten (rt_thread_sleep, thread.c).               *)
THEOREM SleepersWake ==
    ASSUME Disciplined
    PROVE  Spec => []SleeperHasTimer
<1>1. TInv => SleeperHasTimer
  BY DEF TInv, Timely, Sleepers, Sleeping, SleeperHasTimer
<1> QED BY <1>1, TimelyInvariance, PTL

(* Differences of instants are differences of their leads. *)
LEMMA LeadDifference ==
    ASSUME NEW b \in Tick, NEW o \in Tick, NEW l \in Tick, Minus(o, b) <= Minus(l, b)
    PROVE  Minus(l, o) = Minus(l, b) - Minus(o, b)
<1>1. Minus(o, b) = IF b <= o THEN o - b ELSE o - b + TickMod
  BY MinusIs
<1>2. Minus(l, b) = IF b <= l THEN l - b ELSE l - b + TickMod
  BY MinusIs
<1>3. Minus(l, o) = IF o <= l THEN l - o ELSE l - o + TickMod
  BY MinusIs
<1>4. TickMod \in Int /\ b \in Int /\ o \in Int /\ l \in Int
      /\ 0 <= b /\ b < TickMod /\ 0 <= o /\ o < TickMod /\ 0 <= l /\ l < TickMod
  BY KernelAssumption DEF Tick
<1> QED BY <1>1, <1>2, <1>3, <1>4

(* The timer list holds the activated timers, each of a suspended thread, in *)
(* the order in which they fire, and outside the tick interrupt none is      *)
(* overdue: across the wrap of rt_tick too (rt_timer_start, rt_timer_check). *)
THEOREM TimersInOrder ==
    ASSUME Disciplined
    PROVE  Spec => []TimersSound
<1>1. ASSUME IInv, TInv PROVE TimersSound
  <2> DEFINE b == Base(k, isr)
             f == Lead(k, b)
  <2>1. k \in Kernel /\ Timers(k, {}) /\ k.tick \in Tick /\ k.tmr \in Seq(Thread) /\ k.tout \in [Thread -> Tick]
    BY <1>1, Now DEF Kernel
  <2>2. b \in Tick
    <3>1. 1 \in Tick
      BY KernelAssumption DEF Tick
    <3> QED BY <2>1, <3>1, MinusIs DEF Base
  <2>3. OnTime(k, b, SleepArg)
    BY <1>1 DEF TInv, Timely
  <2>4. \A t \in Thread : f[t] = Minus(k.tout[t], b)
    BY DEF Lead
  <2>5. f \in [Thread -> Int] /\ f \in [Thread -> Tick]
    BY <2>1, <2>2, LeadType
  <2> HIDE DEF b, f
  <2>6. ASSUME NEW i \in DOMAIN k.tmr, NEW j \in DOMAIN k.tmr, i < j
        PROVE  Minus(k.tout[k.tmr[j]], k.tout[k.tmr[i]]) < Half
    <3>1. k.tmr[i] \in Thread /\ k.tmr[j] \in Thread /\ k.act[k.tmr[j]]
      BY <2>1 DEF Timers, Elems
    <3>2. f[k.tmr[i]] <= f[k.tmr[j]]
      BY <2>3, <2>6 DEF OnTime, InOrder, f
    <3>3. PICK n \in SleepArg : f[k.tmr[j]] <= n
      BY <2>3, <3>1 DEF OnTime, f
    <3>4. n \in Int /\ n < Half /\ Half \in Int
      BY ThreadAssumption, HalfIs
    <3>5. f[k.tmr[i]] \in Int /\ f[k.tmr[j]] \in Int /\ f[k.tmr[i]] >= 0
      BY <2>5, <3>1 DEF Tick
    <3>6. Minus(k.tout[k.tmr[j]], k.tout[k.tmr[i]]) = f[k.tmr[j]] - f[k.tmr[i]]
      <4>1. k.tout[k.tmr[i]] \in Tick /\ k.tout[k.tmr[j]] \in Tick
        BY <2>1, <3>1
      <4> QED BY <2>2, <2>4, <3>1, <3>2, <4>1, LeadDifference
    <3> QED BY <3>3, <3>4, <3>5, <3>6
  <2>7. ASSUME isr = "off", NEW t \in Thread, k.act[t]
        PROVE  \E n \in SleepArg : Minus(k.tout[t], k.tick) <= n
    BY <2>3, <2>4, <2>7 DEF OnTime, Base, b, f
  <2> QED BY <2>1, <2>6, <2>7 DEF Timers, TimersSound
<1> QED BY <1>1, TimelyInvariance, PTL

(* Whenever a thread executes its own code with the scheduler unlocked, it   *)
(* is RUNNING and no READY thread has a higher priority: rt_schedule is      *)
(* called after every change that could make another thread the right one.   *)
THEOREM HighestThreadRuns ==
    ASSUME Disciplined
    PROVE  Spec => []HighestRuns
<1>1. IInv /\ TInv => HighestRuns
  BY DEF IInv, SwitchRecord, TInv, Timely, Ruling, Rules, About, HighestRuns
<1> QED BY <1>1, TimelyInvariance, PTL

-----------------------------------------------------------------------------
(***************************************************************************)
(* What all calls of ipc.c and mempool.c do to the frames of their threads  *)
(* and to the kernel.                                                       *)
(***************************************************************************)

(* A frame holds a mail, wherever the call is. *)
Framed(f) ==
    /\ f = [t \in Thread |-> f[t]]
    /\ \A t \in Thread :
          /\ f[t].msg \in Msg
          /\ f[t] = [call |-> f[t].call, obj |-> f[t].obj, left |-> f[t].left,
                     since |-> f[t].since, msg |-> f[t].msg]

LEMMA NoCallFramed == NoCall.msg \in Msg
BY WaitAssumption DEF NoCall

(* A thread enters a call, leaves it, or turns to the next list. *)
LEMMA EnterFramed ==
    ASSUME Framed(frame), NEW t \in Thread, NEW call, NEW o, NEW n, NEW v \in Msg,
           Enter(t, call, o, n, v)
    PROVE  Framed(frame')
BY DEF Framed, Enter

LEMMA LeaveFramed ==
    ASSUME Framed(frame), NEW t \in Thread, Leave(t)
    PROVE  Framed(frame')
BY NoCallFramed DEF Framed, Leave, NoCall

LEMMA TurnFramed ==
    ASSUME Framed(frame), NEW t \in Thread, NEW o, frame' = [frame EXCEPT ![t].obj = o]
    PROVE  Framed(frame')
<1>1. \A u \in Thread : frame'[u] = IF u = t THEN [frame[t] EXCEPT !.obj = o] ELSE frame[u]
  BY DEF Framed
<1>2. [frame[t] EXCEPT !.obj = o].msg = frame[t].msg
      /\ [frame[t] EXCEPT !.obj = o]
            = [call |-> frame[t].call, obj |-> o, left |-> frame[t].left,
               since |-> frame[t].since, msg |-> frame[t].msg]
  BY DEF Framed
<1> QED BY <1>1, <1>2 DEF Framed

-----------------------------------------------------------------------------
(* Kernel states.  The timers of calls are started for any time below half   *)
(* a turn of rt_tick.                                                        *)
Times == 0..(Half - 1)

LEMMA TimesAreDurations == Durations(Times)
BY ThreadAssumption DEF Durations, Times

(* The state r of the kernel is as x for the thread u. *)
Undisturbed(r, x, u) ==
    /\ r.err[u] = x.err[u] /\ r.act[u] = x.act[u] /\ r.tout[u] = x.tout[u]
    /\ r.stat[u] = "suspend" <=> x.stat[u] = "suspend"

(* x is a state the kernel can be in between two steps, with its timers in   *)
(* order from the instant b on.                                              *)
Fit(x, b) == Sound(x) /\ CurrentRuns(x) /\ OnTime(x, b, Times) /\ IdleAlive(x)

(* From x to r only the threads in M are served: woken or suspended.  Unless *)
(* it is a mutex that serves them, their priorities stay.                    *)
Handled(r, x, M) ==
    /\ \A u \in Thread : /\ r.stat[u] = "init" <=> x.stat[u] = "init"
                         /\ r.stat[u] = "close" <=> x.stat[u] = "close"
    /\ \A u \in Thread \ M : Undisturbed(r, x, u)
    /\ r.lock = x.lock /\ r.tick = x.tick
    /\ r.cur = x.cur \/ r.cur \in M \/ x.stat[r.cur] # "suspend"

Attended(r, x, M) == Handled(r, x, M) /\ r.prio = x.prio

LEMMA AttendedTwice ==
    ASSUME NEW x, NEW y, NEW r, NEW M, NEW N, Attended(y, x, M), Attended(r, y, N), r.cur \in Thread
    PROVE  Attended(r, x, M \cup N)
BY DEF Attended, Handled, Undisturbed

(* rt_schedule disturbs nobody who sleeps. *)
LEMMA ScheduleServes ==
    ASSUME NEW x, NEW b, Fit(x, b)
    PROVE  LET r == Schedule(x)
           IN  /\ Fit(r, b) /\ Attended(r, x, {}) /\ r.wait = x.wait
               /\ \A p, g, S : Ruling(r, p, g, S)
               /\ \A c : (IF x.flag THEN x.from = c /\ x.to = x.cur ELSE c = x.cur)
                            => (IF r.flag THEN r.from = c /\ r.to = r.cur ELSE c = r.cur)
<1> DEFINE r == Schedule(x)
           q == [t \in Thread |-> "user"]
<1>1. Sound(x) /\ CurrentRuns(x) /\ OnTime(x, b, Times) /\ IdleAlive(x) /\ x \in Kernel
  BY DEF Fit, Sound, SoundBut
<1>2. Sound(r) /\ CurrentRuns(r) /\ r.act = x.act /\ Switched(r, x)
  BY <1>1, ScheduleFacts
<1>3. SameClock(r, x) /\ SameOwn(r, x) /\ r.wait = x.wait
  BY <1>1, ScheduleRest
<1>4. OnTime(r, b, Times) /\ IdleAlive(r) /\ \A p, g, S : Ruling(r, p, g, S)
  <2>1. Sleepers(x, [t \in Thread |-> IF x.stat[t] = "init" THEN "user" ELSE "sched"])
    BY DEF Sleepers, Sleeping
  <2> QED BY <1>1, <2>1, TimesAreDurations, ScheduledRest
<1>5. \A c : (IF x.flag THEN x.from = c /\ x.to = x.cur ELSE c = x.cur)
                => (IF r.flag THEN r.from = c /\ r.to = r.cur ELSE c = r.cur)
  BY <1>1, ScheduleKeeps
<1> HIDE DEF r
<1>6. Attended(r, x, {})
  <2>1. r.cur = x.cur \/ x.stat[r.cur] # "suspend"
    BY <1>2 DEF Switched
  <2>2. x.stat \in [Thread -> Stat] /\ r.stat \in [Thread -> Stat]
    BY <1>1, <1>2 DEF Sound, SoundBut, Kernel
  <2>3. \A u \in Thread : r.stat[u] = x.stat[u]
                            \/ {r.stat[u], x.stat[u]} \subseteq {"ready", "running"}
    BY <1>2, <2>2 DEF Switched
  <2> QED BY <1>2, <1>3, <2>1, <2>3 DEF Attended, Handled, Undisturbed, SameClock, SameOwn
<1> QED BY <1>2, <1>3, <1>4, <1>5, <1>6 DEF Fit, r

(* In r the thread h of x has been woken: it has left its list and its timer *)
(* and finds the error e.                                                    *)
WokenIn(r, x, h, e, b) ==
    /\ Fit(r, b) /\ SameSwitch(r, x) /\ Attended(r, x, {h})
    /\ r.wait = WaitsWithout(x, h)
    /\ r.err[h] = e /\ r.stat[h] # "suspend" /\ ~r.act[h]

LEMMA ResumedServes ==
    ASSUME NEW x, NEW b, Fit(x, b), NEW h \in Thread, x.stat[h] = "suspend", NEW r,
           ResumedBy(r, x, h), NEW e, r.err = [x.err EXCEPT ![h] = e],
           r.prio = x.prio, r.lock = x.lock, r.wait = WaitsWithout(x, h)
    PROVE  WokenIn(r, x, h, e, b)
<1>1. /\ x \in Kernel /\ Timers(x, {}) /\ Sound(x) /\ CurrentRuns(x) /\ OnTime(x, b, Times)
      /\ x.stat \in [Thread -> Stat] /\ x.act \in [Thread -> BOOLEAN] /\ x.cur \in Thread
      /\ x.err \in [Thread -> Err]
  BY DEF Fit, Sound, SoundBut, Kernel
<1>2. /\ Sound(r) /\ r \in Kernel /\ Timers(r, {}) /\ SameSwitch(r, x) /\ r.tick = x.tick
      /\ r.tmr = Unlink(x.tmr, h)
      /\ \A v \in Thread \ {h} : r.tout[v] = x.tout[v]
  BY DEF ResumedBy, Sound, SoundBut
<1>3. /\ \A v \in Thread : r.stat[v] = IF v = h THEN IF h = x.cur THEN "running" ELSE "ready"
                                       ELSE x.stat[v]
      /\ \A v \in Thread : r.act[v] = IF v = h THEN FALSE ELSE x.act[v]
      /\ \A v \in Thread : r.err[v] = IF v = h THEN e ELSE x.err[v]
  BY <1>1 DEF ResumedBy
<1>4. CurrentRuns(r) /\ IdleAlive(r)
  BY <1>1, <1>2, <1>3, ThreadAssumption DEF CurrentRuns, IdleAlive, Fit, SameSwitch
<1>5. OnTime(r, b, Times)
  BY <1>1, <1>2, OnTimeLess, TimesAreDurations
<1>6. Attended(r, x, {h})
  BY <1>1, <1>2, <1>3 DEF Attended, Handled, Undisturbed, SameSwitch
<1> QED BY <1>2, <1>3, <1>4, <1>5, <1>6 DEF WokenIn, Fit

LEMMA ResumeServes ==
    ASSUME NEW x, NEW b, Fit(x, b), NEW h \in Thread, x.stat[h] = "suspend"
    PROVE  WokenIn(Resume(x, h), x, h, x.err[h], b)
<1> DEFINE r == Resume(x, h)
<1>1. x \in Kernel /\ Sound(x) /\ CurrentRuns(x) /\ x.err \in [Thread -> Err]
  BY DEF Fit, Sound, SoundBut, Kernel
<1>2. ResumedBy(r, x, h) /\ SameOwn(r, x) /\ r.wait = WaitsWithout(x, h)
  BY <1>1, ResumeResumes, ResumeRest
<1> HIDE DEF r
<1>3. r.err = [x.err EXCEPT ![h] = x.err[h]] /\ r.prio = x.prio /\ r.lock = x.lock
  BY <1>1, <1>2 DEF SameOwn
<1>4. WokenIn(r, x, h, x.err[h], b)
  BY <1>2, <1>3, ResumedServes
<1> QED BY <1>4 DEF r

(* _ipc_list_resume_all, one turn. *)
LEMMA ErrorServes ==
    ASSUME NEW x, NEW b, Fit(x, b), NEW h \in Thread, x.stat[h] = "suspend"
    PROVE  WokenIn(WakeWithError(x, h), x, h, "error", b)
<1> DEFINE y == [x EXCEPT !.err[h] = "error"]
           r == Resume(y, h)
<1>1. x \in Kernel /\ Sound(x) /\ CurrentRuns(x) /\ x.err \in [Thread -> Err]
  BY DEF Fit, Sound, SoundBut, Kernel
<1>2. /\ y \in Kernel /\ SameSwitch(y, x) /\ SameClock(y, x)
      /\ y.rq = x.rq /\ y.grp = x.grp /\ y.wait = x.wait /\ y.dead = x.dead /\ y.stat = x.stat
      /\ y.prio = x.prio /\ y.act = x.act /\ y.tmr = x.tmr /\ y.bad = x.bad /\ y.lock = x.lock
      /\ y.err = [x.err EXCEPT ![h] = "error"]
  BY <1>1 DEF Kernel, Err, SameSwitch, SameClock
<1> HIDE DEF y
<1>3. Sound(y) /\ CurrentRuns(y)
  BY <1>1, <1>2, SameListsFacts DEF Sound, CurrentRuns, SameSwitch
<1>4. ResumedBy(r, y, h) /\ SameOwn(r, y) /\ r.wait = WaitsWithout(y, h)
  BY <1>3, ResumeResumes, ResumeRest
<1>5. WakeWithError(x, h) = r
  BY DEF WakeWithError, y
<1> HIDE DEF r
<1>6. ResumedBy(r, x, h)
  BY <1>2, <1>4 DEF ResumedBy, SameSwitch, SameClock
<1>7. r.err = [x.err EXCEPT ![h] = "error"] /\ r.prio = x.prio /\ r.lock = x.lock
      /\ r.wait = WaitsWithout(x, h)
  BY <1>2, <1>4 DEF SameOwn, WaitsWithout
<1>8. WokenIn(r, x, h, "error", b)
  BY <1>6, <1>7, ResumedServes
<1> QED BY <1>5, <1>8

(* _thread_timeout. *)
LEMMA ExpireServes ==
    ASSUME NEW x, NEW b, Fit(x, b), NEW h \in Thread, x.act[h]
    PROVE  WokenIn(Expire(x, h), x, h, "timeout", b)
<1> DEFINE r == Expire(x, h)
<1>1. x \in Kernel /\ Sound(x) /\ CurrentRuns(x) /\ x.stat[h] = "suspend"
  BY DEF Fit, Sound, SoundBut, Kernel, Timers
<1>2. ResumedBy(r, x, h)
  BY <1>1, ExpireResumes
<1>3. r.err = [x.err EXCEPT ![h] = "timeout"] /\ r.prio = x.prio /\ r.lock = x.lock
      /\ r.wait = WaitsWithout(x, h)
  BY <1>1, ExpireRest
<1> HIDE DEF r
<1>4. WokenIn(r, x, h, "timeout", b)
  BY <1>1, <1>2, <1>3, ResumedServes
<1> QED BY <1>4 DEF r

(* Who has been woken from a state that was left by others alone. *)
LEMMA WaitsLess ==
    ASSUME NEW x \in Kernel, NEW h \in Thread, \A o \in Obj : IsOnce(x.wait[o])
    PROVE  \A o \in Obj : Elems(WaitsWithout(x, h)[o]) = Elems(x.wait[o]) \ {h}
<1>1. ASSUME NEW o \in Obj PROVE Elems(Unlink(x.wait[o], h)) = Elems(x.wait[o]) \ {h}
  <2>1. x.wait[o] \in Seq(Thread) /\ IsOnce(x.wait[o])
    BY DEF Kernel
  <2> QED BY <2>1, UnlinkFacts
<1> QED BY <1>1 DEF WaitsWithout

-----------------------------------------------------------------------------
(* _ipc_list_resume_all, turn by turn: the fold that the model uses is a     *)
(* sequence of states.                                                       *)
LEMMA TopIsMax ==
    ASSUME NEW n \in Nat, NEW s \in SUBSET (1..n), n \in s
    PROVE  Max(s) = n
<1>1. \A e \in s : n >= e
  OBVIOUS
<1>2. \A e \in s : (\A y \in s : e >= y) => e = n
  OBVIOUS
<1> QED BY <1>1, <1>2 DEF Max

WakeInTurn(x, w) == FoldLeft(WakeWithError, x, w)

LEMMA WakeAllTurns ==
    ASSUME NEW x, NEW w \in Seq(Thread)
    PROVE  \E z : /\ z[0] = x /\ z[Len(w)] = WakeInTurn(x, w)
                  /\ \A i \in 1..Len(w) : z[i] = WakeWithError(z[i - 1], w[i])
<1> DEFINE P(n) == \E g : g = [s \in SUBSET (1..n) |->
                                 IF s = {} THEN x
                                 ELSE WakeWithError(g[s \ {Max(s)}], w[Max(s)])]
           n == Len(w)
           T == {m \in Nat : ~P(m)}
<1>1. P(0)
  <2> DEFINE g == [s \in SUBSET (1..0) |-> x]
  <2>1. 1..0 = {} /\ SUBSET (1..0) = {{}}
    OBVIOUS
  <2>2. g = [s \in SUBSET (1..0) |-> IF s = {} THEN x
                                     ELSE WakeWithError(g[s \ {Max(s)}], w[Max(s)])]
    BY <2>1
  <2> HIDE DEF g
  <2> QED BY <2>2
<1>2. ASSUME NEW m \in Nat, P(m) PROVE P(m + 1)
  <2>1. PICK g : g = [s \in SUBSET (1..m) |-> IF s = {} THEN x
                        ELSE WakeWithError(g[s \ {Max(s)}], w[Max(s)])]
    BY <1>2
  <2>2. \A s \in SUBSET (1..m) : g[s] = IF s = {} THEN x
                        ELSE WakeWithError(g[s \ {Max(s)}], w[Max(s)])
    BY <2>1
  <2> DEFINE h == [s \in SUBSET (1..(m + 1)) |->
                     IF m + 1 \in s THEN WakeWithError(g[s \ {m + 1}], w[m + 1]) ELSE g[s]]
  <2>3. ASSUME NEW s \in SUBSET (1..(m + 1))
        PROVE  h[s] = IF s = {} THEN x ELSE WakeWithError(h[s \ {Max(s)}], w[Max(s)])
    <3>1. CASE m + 1 \in s
      <4>1. Max(s) = m + 1 /\ s # {} /\ s \ {m + 1} \in SUBSET (1..(m + 1)) /\ m + 1 \notin s \ {m + 1}
        BY <3>1, TopIsMax
      <4>2. h[s] = WakeWithError(g[s \ {m + 1}], w[m + 1]) /\ h[s \ {m + 1}] = g[s \ {m + 1}]
        BY <3>1, <4>1
      <4> HIDE DEF h
      <4> QED BY <4>1, <4>2
    <3>2. CASE m + 1 \notin s
      <4>1. s \in SUBSET (1..m) /\ s \ {Max(s)} \in SUBSET (1..(m + 1)) /\ m + 1 \notin s \ {Max(s)}
        <5> HIDE DEF h, P, T
        <5>1. \A e \in 1..(m + 1) : e # m + 1 => e \in 1..m
          OBVIOUS
        <5>2. \A e \in s : e \in 1..m
          BY <5>1, <3>2
        <5> QED BY <5>2, <3>2
      <4>2. h[s] = g[s] /\ h[s \ {Max(s)}] = g[s \ {Max(s)}]
        BY <3>2, <4>1
      <4> HIDE DEF h
      <4> QED BY <4>1, <4>2, <2>2
    <3> QED BY <3>1, <3>2
  <2>4. h = [s \in SUBSET (1..(m + 1)) |-> h[s]]
    OBVIOUS
  <2> HIDE DEF h
  <2>5. h = [s \in SUBSET (1..(m + 1)) |->
               IF s = {} THEN x ELSE WakeWithError(h[s \ {Max(s)}], w[Max(s)])]
    BY <2>3, <2>4
  <2> QED BY <2>5
<1>3. n \in Nat /\ DOMAIN w = 1..n
  OBVIOUS
<1> HIDE DEF P, n
<1>4. T = {}
  <2> SUFFICES ASSUME T # {} PROVE FALSE
    OBVIOUS
  <2>1. PICK m \in T : \A l \in T : m <= l
    <3>1. T \subseteq Nat
      OBVIOUS
    <3> HIDE DEF T
    <3> QED BY <3>1, Least
  <2>2. m \in Nat /\ ~P(m)
    OBVIOUS
  <2>3. m # 0
    BY <2>2, <1>1
  <2>4. m - 1 \in Nat /\ m - 1 \notin T
    <3>1. m - 1 \in Nat /\ ~(m <= m - 1)
      BY <2>2, <2>3
    <3> HIDE DEF T
    <3> QED BY <2>1, <3>1
  <2>5. P(m - 1)
    BY <2>4
  <2>6. P((m - 1) + 1) /\ (m - 1) + 1 = m
    BY <2>4, <2>5, <1>2
  <2> QED BY <2>2, <2>6
<1>5. P(n)
  BY <1>3, <1>4
<1> DEFINE Rec(g) == g = [s \in SUBSET (1..n) |->
                            IF s = {} THEN x ELSE WakeWithError(g[s \ {Max(s)}], w[Max(s)])]
           g == CHOOSE f : Rec(f)
<1>6. Rec(g)
  BY <1>5 DEF P
<1>7. WakeInTurn(x, w) = g[1..n]
  <2>1. FoldLeft(WakeWithError, x, w) =
             LET iter[s \in SUBSET (DOMAIN w)] ==
                   IF s = {} THEN x ELSE WakeWithError(iter[s \ {Max(s)}], w[Max(s)])
             IN iter[DOMAIN w]
    <3> HIDE DEF WakeWithError
    <3> QED BY DEF FoldLeft, MapThenFoldSet
  <2> QED BY <2>1, <1>3 DEF WakeInTurn
<1>8. \A s \in SUBSET (1..n) : g[s] = IF s = {} THEN x
                                      ELSE WakeWithError(g[s \ {Max(s)}], w[Max(s)])
  <2> HIDE DEF g
  <2> QED BY <1>6
<1> HIDE DEF g
<1> DEFINE z == [i \in 0..n |-> g[1..i]]
<1>9. z[0] = x
  <2>1. 0 \in 0..n /\ 1..0 = {} /\ {} \in SUBSET (1..n)
    BY <1>3
  <2> QED BY <2>1, <1>8
<1>10. z[n] = WakeInTurn(x, w)
  BY <1>3, <1>7
<1>11. ASSUME NEW i \in 1..n PROVE z[i] = WakeWithError(z[i - 1], w[i])
  <2>1. i \in Nat /\ i \in 0..n /\ i - 1 \in 0..n
    BY <1>3
  <2>2. (1..i) \in SUBSET (1..n) /\ i \in 1..i /\ 1..i # {} /\ (1..i) \ {i} = 1..(i - 1)
    BY <1>3
  <2>3. Max(1..i) = i
    BY <2>1, <2>2, TopIsMax
  <2>4. g[1..i] = WakeWithError(g[1..(i - 1)], w[i])
    BY <2>2, <2>3, <1>8
  <2> QED BY <2>1, <2>4
<1> HIDE DEF z
<1> QED BY <1>9, <1>10, <1>11 DEF n

(* In r all threads of the list of o have been woken with an error.          *)
AllWokenIn(r, x, o, b) ==
    /\ Fit(r, b) /\ SameSwitch(r, x) /\ Attended(r, x, Elems(x.wait[o]))
    /\ r.wait[o] = <<>> /\ \A q \in Obj \ {o} : r.wait[q] = x.wait[q]
    /\ \A u \in Elems(x.wait[o]) : r.err[u] = "error" /\ r.stat[u] # "suspend" /\ ~r.act[u]

(* After some turns those woken are in no list. *)
Turned(y, x, o, b, U) ==
    /\ Fit(y, b) /\ SameSwitch(y, x) /\ Attended(y, x, U)
    /\ Elems(y.wait[o]) = Elems(x.wait[o]) \ U
    /\ \A q \in Obj \ {o} : y.wait[q] = x.wait[q]
    /\ \A u \in U : y.err[u] = "error" /\ y.stat[u] # "suspend" /\ ~y.act[u]

LEMMA OneTurn ==
    ASSUME NEW x, NEW b, Fit(x, b), NEW o \in Obj,
           \A q \in Obj \ {o}, u \in Elems(x.wait[o]) : u \notin Elems(x.wait[q]),
           NEW y, NEW U, U \subseteq Elems(x.wait[o]), Turned(y, x, o, b, U),
           NEW h \in Elems(x.wait[o]), h \notin U
    PROVE  Turned(WakeWithError(y, h), x, o, b, U \cup {h})
<1> DEFINE r == WakeWithError(y, h)
<1>1. /\ x \in Kernel /\ Waits(x, {}) /\ y \in Kernel /\ Waits(y, {}) /\ Fit(y, b)
      /\ Elems(x.wait[o]) \subseteq Thread /\ h \in Thread
  <2>1. x \in Kernel /\ Waits(x, {}) /\ y \in Kernel /\ Waits(y, {}) /\ Fit(y, b)
    BY DEF Fit, Sound, SoundBut, Turned
  <2>2. x.wait[o] \in Seq(Thread)
    BY <2>1 DEF Kernel
  <2> QED BY <2>1, <2>2, ElemsType
<1>2. y.stat[h] = "suspend"
  BY <1>1 DEF Waits, Turned, Attended, Handled, Undisturbed
<1>3. WokenIn(r, y, h, "error", b)
  BY <1>1, <1>2, ErrorServes
<1> HIDE DEF r
<1>4. /\ Fit(r, b) /\ SameSwitch(r, x) /\ Attended(r, y, {h}) /\ Attended(y, x, U)
      /\ r.wait = WaitsWithout(y, h) /\ r.err[h] = "error" /\ r.stat[h] # "suspend" /\ ~r.act[h]
      /\ r.cur \in Thread
  BY <1>3 DEF WokenIn, SameSwitch, Turned, Fit, Sound, SoundBut, Kernel
<1>5. Attended(r, x, U \cup {h})
  BY <1>4, AttendedTwice
<1>6. \A q \in Obj : Elems(r.wait[q]) = Elems(y.wait[q]) \ {h}
  BY <1>1, <1>4, WaitsLess DEF Waits
<1>7. Elems(r.wait[o]) = Elems(x.wait[o]) \ (U \cup {h})
  BY <1>6 DEF Turned
<1>8. ASSUME NEW q \in Obj \ {o} PROVE r.wait[q] = x.wait[q]
  <2>1. y.wait[q] = x.wait[q] /\ h \notin Elems(y.wait[q])
    BY DEF Turned
  <2>2. r.wait[q] = Unlink(y.wait[q], h)
    BY <1>4 DEF WaitsWithout
  <2> QED BY <2>1, <2>2, UnlinkAbsent
<1>9. ASSUME NEW u \in U \cup {h} PROVE r.err[u] = "error" /\ r.stat[u] # "suspend" /\ ~r.act[u]
  <2>1. CASE u = h
    BY <2>1, <1>4
  <2>2. CASE u # h
    <3>1. u \in U /\ u \in Thread \ {h}
      BY <2>2, <1>1
    <3> QED BY <3>1, <1>4 DEF Turned, Attended, Handled, Undisturbed
  <2> QED BY <2>1, <2>2
<1> QED BY <1>4, <1>5, <1>7, <1>8, <1>9 DEF Turned, r

LEMMA WakeAllServes ==
    ASSUME NEW x, NEW b, Fit(x, b), NEW o \in Obj,
           \A q \in Obj \ {o}, u \in Elems(x.wait[o]) : u \notin Elems(x.wait[q])
    PROVE  AllWokenIn(WakeAll(x, o), x, o, b)
<1> DEFINE w == x.wait[o]
           n == Len(w)
           Some(i) == {w[j] : j \in 1..i}
<1>1. /\ x \in Kernel /\ w \in Seq(Thread) /\ n \in Nat /\ DOMAIN w = 1..n /\ IsOnce(w)
      /\ Some(n) = Elems(w) /\ x.cur \in Thread
  <2>1. x \in Kernel /\ w \in Seq(Thread) /\ IsOnce(w) /\ x.cur \in Thread
    BY DEF Fit, Sound, SoundBut, Kernel, Waits
  <2> QED BY <2>1 DEF Elems
<1>2. PICK z : /\ z[0] = x /\ z[n] = WakeInTurn(x, w)
               /\ \A i \in 1..n : z[i] = WakeWithError(z[i - 1], w[i])
  <2>1. w \in Seq(Thread)
    BY <1>1
  <2> HIDE DEF w, Some
  <2> QED BY <2>1, WakeAllTurns
<1> DEFINE I(i) == Turned(z[i], x, o, b, Some(i))
<1>3. I(0)
  <2>1. Some(0) = {}
    OBVIOUS
  <2>2. Turned(x, x, o, b, {})
    BY DEF Turned, SameSwitch, Attended, Handled, Undisturbed
  <2> QED BY <2>1, <2>2, <1>2
<1>4. ASSUME NEW i \in 1..n, I(i - 1) PROVE I(i)
  <2>1. Some(i) = Some(i - 1) \cup {w[i]} /\ w[i] \in Elems(w) /\ w[i] \notin Some(i - 1)
        /\ Some(i - 1) \subseteq Elems(w)
    <3>1. 1..i = 1..(i - 1) \cup {i} /\ i \in DOMAIN w /\ i \notin 1..(i - 1) /\ 1..(i - 1) \subseteq DOMAIN w
      BY <1>1
    <3> HIDE DEF w
    <3> QED BY <3>1, <1>1 DEF IsOnce, Elems
  <2> HIDE DEF Some, w
  <2>2. Turned(WakeWithError(z[i - 1], w[i]), x, o, b, Some(i - 1) \cup {w[i]})
    <3>1. Elems(w) = Elems(x.wait[o])
      BY DEF w
    <3> QED BY <1>4, <2>1, <3>1, OneTurn
  <2> QED BY <2>1, <2>2, <1>2
<1> HIDE DEF I
<1>5. I(n)
  <2> DEFINE T == {i \in 0..n : ~I(i)}
  <2> SUFFICES ASSUME ~I(n) PROVE FALSE
    OBVIOUS
  <2>1. T \subseteq Nat /\ T # {}
    BY <1>1
  <2>2. PICK m \in T : \A l \in T : m <= l
    <3> HIDE DEF T
    <3> QED BY <2>1, Least
  <2>3. m \in 0..n /\ ~I(m) /\ m # 0
    BY <1>3
  <2>4. m \in 1..n /\ m - 1 \in 0..n /\ ~(m <= m - 1)
    BY <2>3, <1>1
  <2>5. m - 1 \notin T
    <3> HIDE DEF T
    <3> QED BY <2>2, <2>4
  <2>6. I(m - 1)
    BY <2>4, <2>5
  <2> QED BY <2>3, <2>4, <2>6, <1>4
<1>6. WakeAll(x, o) = z[n]
  BY <1>2 DEF WakeAll, WakeInTurn
<1>7. Turned(z[n], x, o, b, Elems(w))
  <2> HIDE DEF Some, w, n
  <2> QED BY <1>5, <1>1 DEF I
<1> DEFINE r == z[n]
<1> HIDE DEF r
<1>8. r.wait[o] = <<>>
  <2>1. r.wait[o] \in Seq(Thread) /\ Elems(r.wait[o]) = {}
    BY <1>7 DEF Turned, Fit, Sound, SoundBut, Kernel, r
  <2> QED BY <2>1, EmptyElems
<1> QED BY <1>6, <1>7, <1>8 DEF AllWokenIn, Turned, r

-----------------------------------------------------------------------------
(* _ipc_list_suspend finds a place in the list: behind all threads, or       *)
(* behind those of the same and of higher priorities.                        *)
LEMMA PlaceInList ==
    ASSUME NEW x \in Kernel, NEW t \in Thread, NEW o \in Obj
    PROVE  /\ Place(x, t, o) \in 0..Len(x.wait[o])
           /\ Flag[o] # "fifo" =>
                 /\ \A j \in 1..Place(x, t, o) : x.prio[x.wait[o][j]] <= x.prio[t]
                 /\ Place(x, t, o) < Len(x.wait[o]) =>
                       x.prio[t] < x.prio[x.wait[o][Place(x, t, o) + 1]]
<1> DEFINE w == x.wait[o]
           B == {i \in 1..Len(w) : x.prio[t] < x.prio[w[i]]}
           P(i) == /\ \A j \in 1..i : x.prio[w[j]] <= x.prio[t]
                   /\ i < Len(w) => x.prio[t] < x.prio[w[i + 1]]
<1>1. /\ Len(w) \in Nat /\ x.prio[t] \in Int
      /\ \A i \in 1..Len(w) : x.prio[w[i]] \in Int
  <2>1. w \in Seq(Thread) /\ x.prio \in [Thread -> Prio]
    BY DEF Kernel
  <2> QED BY <2>1, KernelAssumption DEF Prio
<1> HIDE DEF w
<1>2. \E i \in 0..Len(w) : P(i)
  <2>1. CASE B = {}
    <3>1. \A j \in 1..Len(w) : x.prio[w[j]] <= x.prio[t]
      BY <2>1, <1>1
    <3>2. P(Len(w))
      BY <3>1, <1>1
    <3> HIDE DEF P
    <3> QED BY <3>2, <1>1
  <2>2. CASE B # {}
    <3>1. PICK m \in B : \A n \in B : m <= n
      <4>1. B \subseteq Nat
        BY <1>1
      <4> HIDE DEF B
      <4> QED BY <2>2, <4>1, Least
    <3>2. m - 1 \in 0..Len(w) /\ m \in 1..Len(w) /\ x.prio[t] < x.prio[w[(m - 1) + 1]]
      BY <1>1
    <3>3. ASSUME NEW j \in 1..(m - 1) PROVE x.prio[w[j]] <= x.prio[t]
      <4>1. j \in 1..Len(w) /\ ~(m <= j)
        BY <1>1, <3>2
      <4>2. ~(x.prio[t] < x.prio[w[j]])
        BY <4>1, <3>1
      <4> QED BY <4>1, <4>2, <1>1
    <3>4. P(m - 1)
      BY <3>2, <3>3
    <3> HIDE DEF P
    <3> QED BY <3>2, <3>4
  <2> QED BY <2>1, <2>2
<1>3. Place(x, t, o) = IF Flag[o] = "fifo" THEN Len(w) ELSE CHOOSE i \in 0..Len(w) : P(i)
  BY DEF Place, w
<1>4. Place(x, t, o) \in 0..Len(w) /\ (Flag[o] # "fifo" => P(Place(x, t, o)))
  <2> HIDE DEF P
  <2> QED BY <1>1, <1>2, <1>3
<1> QED BY <1>4 DEF w

(* In r the current thread t of x waits in the list of o, for n ticks if n   *)
(* is positive.                                                              *)
Parked(r, x, t, o, n) ==
    /\ Fit(r, x.tick) /\ SameSwitch(r, x) /\ Attended(r, x, {t})
    /\ r.stat[t] = "suspend" /\ r.err[t] = "ok"
    /\ r.act[t] <=> n > 0
    /\ n > 0 => r.tout[t] = (x.tick + n) % TickMod
    /\ \A q \in Obj \ {o} : r.wait[q] = x.wait[q]
    /\ Elems(r.wait[o]) = Elems(x.wait[o]) \cup {t}

BlockedIn(r, x, t, o, n) ==
    /\ Parked(r, x, t, o, n)
    /\ \E i \in 0..Len(x.wait[o]) :
          /\ r.wait[o] = LinkAfter(x.wait[o], i, t)
          /\ Flag[o] # "fifo" =>
                /\ \A j \in 1..i : x.prio[x.wait[o][j]] <= x.prio[t]
                /\ i < Len(x.wait[o]) => x.prio[t] < x.prio[x.wait[o][i + 1]]

(* The current thread clears its error and is suspended. *)
Stopped(x, t) == Suspend([x EXCEPT !.err[t] = "ok"], t)

LEMMA StoppedFacts ==
    ASSUME NEW x, Fit(x, x.tick), NEW t \in Thread, t = x.cur, x.stat[t] = "running"
    PROVE  LET s == Stopped(x, t)
           IN  /\ Sound(s) /\ SameSwitch(s, x) /\ s.act = x.act
               /\ s.stat = [x.stat EXCEPT ![t] = "suspend"]
               /\ SameClock(s, x) /\ s.prio = x.prio /\ s.lock = x.lock /\ s.wait = x.wait
               /\ s.err = [x.err EXCEPT ![t] = "ok"]
<1> DEFINE e == [x EXCEPT !.err[t] = "ok"]
           s == Suspend(e, t)
<1>1. /\ x \in Kernel /\ Sound(x) /\ x.stat \in [Thread -> Stat] /\ x.act \in [Thread -> BOOLEAN]
      /\ x.err \in [Thread -> Err]
  BY DEF Fit, Sound, SoundBut, Kernel
<1>2. /\ e \in Kernel /\ SameSwitch(e, x) /\ SameClock(e, x) /\ e.lock = x.lock
      /\ e.rq = x.rq /\ e.grp = x.grp /\ e.wait = x.wait /\ e.dead = x.dead /\ e.stat = x.stat
      /\ e.prio = x.prio /\ e.act = x.act /\ e.tmr = x.tmr /\ e.bad = x.bad
      /\ e.err = [x.err EXCEPT ![t] = "ok"]
  BY <1>1 DEF Kernel, Err, SameSwitch, SameClock
<1> HIDE DEF e
<1>3. Sound(e)
  BY <1>1, <1>2, SameListsFacts DEF Sound
<1>4. /\ Sound(s) /\ SameSwitch(s, e) /\ s.act = e.act /\ s.stat = [e.stat EXCEPT ![t] = "suspend"]
  BY <1>2, <1>3, SuspendFacts
<1>5. SameClock(s, e) /\ SameOwn(s, e) /\ s.wait = e.wait
  BY <1>3, SuspendRest
<1> QED BY <1>2, <1>4, <1>5 DEF SameSwitch, SameClock, SameOwn, Stopped, e

(* It is linked into the list of o, which becomes w. *)
LinkedAs(r, s, t, o, w) == r = [s EXCEPT !.wait[o] = w, !.bad = s.bad \/ Linked(s, t)]

LEMMA ListParks ==
    ASSUME NEW x, Fit(x, x.tick), NEW t \in Thread, t = x.cur, x.stat[t] = "running", t # Idle,
           NEW o \in Obj, NEW w \in Seq(Thread), Elems(w) = Elems(x.wait[o]) \cup {t},
           IsOnce(x.wait[o]) /\ t \notin Elems(x.wait[o]) => IsOnce(w), NEW n, ~(n > 0),
           NEW s, s = Stopped(x, t), NEW r, LinkedAs(r, s, t, o, w)
    PROVE  Parked(r, x, t, o, n) /\ r.wait[o] = w
<1>1. /\ x \in Kernel /\ Sound(x) /\ CurrentRuns(x) /\ OnTime(x, x.tick, Times) /\ IdleAlive(x)
      /\ x.stat \in [Thread -> Stat] /\ x.act \in [Thread -> BOOLEAN] /\ ~x.act[t]
      /\ x.err \in [Thread -> Err]
  BY DEF Fit, Sound, SoundBut, Timers, Kernel
<1>4. /\ Sound(s) /\ SameSwitch(s, x) /\ s.act = x.act /\ s.stat = [x.stat EXCEPT ![t] = "suspend"]
      /\ SameClock(s, x) /\ s.prio = x.prio /\ s.lock = x.lock /\ s.wait = x.wait
      /\ s.err = [x.err EXCEPT ![t] = "ok"]
  BY StoppedFacts
<1>6. /\ s \in Kernel /\ ~s.bad /\ Queues(s, {}) /\ Waits(s, {}) /\ Defunct(s, {}) /\ Timers(s, {})
      /\ Group(s, {}) /\ s.wait[o] \in Seq(Thread) /\ IsOnce(s.wait[o]) /\ s.stat[t] = "suspend"
  <2>1. /\ s \in Kernel /\ ~s.bad /\ Queues(s, {}) /\ Waits(s, {}) /\ Defunct(s, {}) /\ Timers(s, {})
        /\ Group(s, {})
    BY <1>4 DEF Sound, SoundBut
  <2>2. s.wait[o] \in Seq(Thread)
    BY <2>1 DEF Kernel
  <2>3. IsOnce(s.wait[o])
    BY <2>1 DEF Waits
  <2>4. s.stat[t] = "suspend"
    BY <1>1, <1>4
  <2> QED BY <2>1, <2>2, <2>3, <2>4
<1>7. \A q \in Obj : t \notin Elems(s.wait[q])
  BY <1>1, <1>4 DEF Sound, SoundBut, Waits
<1>8. ~Linked(s, t)
  BY <1>6, <1>7 DEF Linked, Queues, Defunct
<1>10. IsOnce(w)
  BY <1>4, <1>6, <1>7
<1>11. r = [s EXCEPT !.wait = [s.wait EXCEPT ![o] = w], !.bad = FALSE]
  <2>1. s.bad \in BOOLEAN
    BY <1>6 DEF Kernel
  <2> QED BY <2>1, <1>4, <1>6, <1>8 DEF LinkedAs
<1>12. /\ r \in Kernel /\ r.wait = [s.wait EXCEPT ![o] = w] /\ ~r.bad
       /\ SameSwitch(r, s) /\ SameClock(r, s) /\ SameOwn(r, s)
       /\ r.rq = s.rq /\ r.grp = s.grp /\ r.dead = s.dead /\ r.stat = s.stat
       /\ r.act = s.act
  <2>1. [s.wait EXCEPT ![o] = w] \in [Obj -> Seq(Thread)]
    BY <1>6, <1>10 DEF Kernel
  <2> QED BY <2>1, <1>6, <1>11 DEF Kernel, SameSwitch, SameClock, SameOwn
<1>13. \A q \in Obj : r.wait[q] = IF q = o THEN w ELSE s.wait[q]
  BY <1>6, <1>12 DEF Kernel
<1>14. Sound(r)
  <2>1. Waits(r, {})
    BY <1>4, <1>6, <1>10, <1>12, <1>13 DEF Waits
  <2>2. Queues(r, {}) /\ Defunct(r, {}) /\ Timers(r, {}) /\ Group(r, {})
    BY <1>6, <1>12 DEF Queues, Defunct, Timers, Group, SameClock, SameOwn
  <2> QED BY <2>1, <2>2, <1>12 DEF Sound, SoundBut
<1>15. \A u \in Thread : /\ r.stat[u] = IF u = t THEN "suspend" ELSE x.stat[u]
                         /\ r.err[u] = IF u = t THEN "ok" ELSE x.err[u]
  BY <1>1, <1>4, <1>12 DEF SameOwn
<1>16. CurrentRuns(r) /\ IdleAlive(r)
  BY <1>1, <1>4, <1>12, <1>15, ThreadAssumption DEF CurrentRuns, IdleAlive, SameSwitch
<1>17. OnTime(r, x.tick, Times)
  BY <1>1, <1>4, <1>12, OnTimeSame, TimesAreDurations DEF SameClock
<1>18. Attended(r, x, {t})
  BY <1>1, <1>4, <1>12, <1>15 DEF Attended, Handled, Undisturbed, SameClock, SameOwn, SameSwitch
<1>19. SameSwitch(r, x) /\ r.act = x.act /\ r.wait[o] = w /\ \A q \in Obj \ {o} : r.wait[q] = x.wait[q]
  BY <1>4, <1>12, <1>13 DEF SameSwitch
<1>20. Parked(r, x, t, o, n)
  BY <1>1, <1>14, <1>15, <1>16, <1>17, <1>18, <1>19 DEF Parked, Fit
<1> QED BY <1>19, <1>20

(* _ipc_list_suspend. *)
LEMMA ListSuspends ==
    ASSUME NEW x, Fit(x, x.tick), NEW t \in Thread, t = x.cur, x.stat[t] = "running", t # Idle,
           NEW o \in Obj, NEW n, ~(n > 0)
    PROVE  BlockedIn(ListSuspend([x EXCEPT !.err[t] = "ok"], t, o), x, t, o, n)
<1> DEFINE s == Stopped(x, t)
           i == Place(s, t, o)
           w == LinkAfter(s.wait[o], i, t)
           r == [s EXCEPT !.wait[o] = w, !.bad = s.bad \/ Linked(s, t)]
<1>1. ListSuspend([x EXCEPT !.err[t] = "ok"], t, o) = r
  BY DEF ListSuspend, Stopped
<1>2. Sound(s) /\ s.wait = x.wait /\ s.prio = x.prio
  BY StoppedFacts
<1> HIDE DEF s
<1>3. s \in Kernel /\ s.wait[o] \in Seq(Thread)
  BY <1>2 DEF Sound, SoundBut, Kernel
<1>4. /\ i \in 0..Len(s.wait[o])
      /\ Flag[o] # "fifo" =>
            /\ \A j \in 1..i : s.prio[s.wait[o][j]] <= s.prio[t]
            /\ i < Len(s.wait[o]) => s.prio[t] < s.prio[s.wait[o][i + 1]]
  BY <1>3, PlaceInList
<1> HIDE DEF i
<1>5. /\ w \in Seq(Thread) /\ Elems(w) = Elems(s.wait[o]) \cup {t}
      /\ IsOnce(s.wait[o]) /\ t \notin Elems(s.wait[o]) => IsOnce(w)
  BY <1>3, <1>4, LinkAfterFacts
<1> DEFINE v == w
<1>6. v = LinkAfter(x.wait[o], i, t)
  BY <1>2
<1>7. /\ v \in Seq(Thread) /\ Elems(v) = Elems(x.wait[o]) \cup {t}
      /\ IsOnce(x.wait[o]) /\ t \notin Elems(x.wait[o]) => IsOnce(v)
      /\ LinkedAs(r, s, t, o, v) /\ s = Stopped(x, t)
  BY <1>2, <1>5 DEF s, LinkedAs
<1> HIDE DEF v, r
<1>8. Parked(r, x, t, o, n) /\ r.wait[o] = v
  BY <1>7, ListParks
<1>9. BlockedIn(r, x, t, o, n)
  BY <1>2, <1>4, <1>6, <1>8 DEF BlockedIn
<1> QED BY <1>1, <1>9 DEF r

(* Then the timer is started, if the call has a timeout. *)
LEMMA StartParks ==
    ASSUME NEW x, NEW t \in Thread, NEW o \in Obj, NEW n \in Times, n > 0, NEW s, Parked(s, x, t, o, 0)
    PROVE  Parked(TimerStart(s, t, n), x, t, o, n) /\ TimerStart(s, t, n).wait = s.wait
<1> DEFINE r == TimerStart(s, t, n)
<1>1. Parked(s, x, t, o, 0)
  OBVIOUS
<1>2. n \in Times /\ n \in 0..(Half - 1) /\ n \in Nat /\ Half \in Int
  BY HalfIs DEF Times, Forever
<1>3. /\ Fit(s, x.tick) /\ Sound(s) /\ CurrentRuns(s) /\ IdleAlive(s) /\ OnTime(s, x.tick, Times)
      /\ s.tick = x.tick /\ s.stat[t] = "suspend" /\ s.act \in [Thread -> BOOLEAN]
      /\ s.cur \in Thread
  BY <1>1 DEF Parked, Fit, Attended, Handled, Sound, SoundBut, Kernel
<1>4. Sound(r) /\ SameSwitch(r, s) /\ r.stat = s.stat /\ r.act = [s.act EXCEPT ![t] = TRUE]
  BY <1>2, <1>3, TimerStartFacts
<1>5. /\ r.tick = s.tick /\ SameOwn(r, s) /\ r.wait = s.wait
      /\ r.tout[t] = (s.tick + n) % TickMod
      /\ \A u \in Thread \ {t} : r.tout[u] = s.tout[u]
  <2>1. InOrder(s.tmr, Lead(s, s.tick))
    BY <1>3 DEF OnTime
  <2>2. ASSUME NEW u \in Thread, s.act[u] PROVE Lead(s, s.tick)[u] < Half
    <3>1. PICK m \in Times : Lead(s, s.tick)[u] <= m
      BY <1>3, <2>2 DEF OnTime
    <3>2. s.tick \in Tick /\ s \in Kernel
      BY <1>3 DEF Sound, SoundBut, Kernel
    <3>3. Lead(s, s.tick)[u] \in Int
      BY <3>2, LeadType
    <3> QED BY <3>1, <3>3, <1>2 DEF Times
  <2> QED BY <1>2, <1>3, <2>1, <2>2, TimerStartOrder
<1>6. OnTime(r, s.tick, Times)
  BY <1>2, <1>3, OnTimeStart, TimesAreDurations
<1> HIDE DEF r
<1>7. \A u \in Thread : r.act[u] = IF u = t THEN TRUE ELSE s.act[u]
  BY <1>3, <1>4
<1>8. Fit(r, x.tick)
  BY <1>3, <1>4, <1>6 DEF Fit, CurrentRuns, IdleAlive, SameSwitch
<1>9. Attended(r, x, {t})
  <2>1. Attended(s, x, {t})
    BY <1>1 DEF Parked
  <2>2. Attended(r, s, {t})
    BY <1>4, <1>5, <1>7 DEF Attended, Handled, Undisturbed, SameOwn, SameSwitch
  <2>3. r.cur \in Thread
    BY <1>3, <1>4 DEF SameSwitch
  <2> QED BY <2>1, <2>2, <2>3, AttendedTwice
<1>10. Parked(r, x, t, o, n)
  <2>1. /\ SameSwitch(r, x) /\ r.stat[t] = "suspend" /\ r.err[t] = "ok" /\ r.act[t]
        /\ r.tout[t] = (x.tick + n) % TickMod
    BY <1>1, <1>3, <1>4, <1>5, <1>7 DEF Parked, SameSwitch, SameOwn
  <2>2. r.wait = s.wait
    BY <1>5
  <2> QED BY <1>1, <1>8, <1>9, <2>1, <2>2 DEF Parked
<1> QED BY <1>5, <1>10 DEF r

LEMMA BlockServes ==
    ASSUME NEW x, Fit(x, x.tick), NEW t \in Thread, t = x.cur, x.stat[t] = "running", t # Idle,
           NEW o \in Obj, NEW n \in Times \cup {Forever}
    PROVE  BlockedIn(Block(x, t, o, n), x, t, o, n)
<1> DEFINE s == ListSuspend([x EXCEPT !.err[t] = "ok"], t, o)
<1>1. ASSUME NEW m, ~(m > 0) PROVE BlockedIn(s, x, t, o, m)
  BY <1>1, ListSuspends
<1>2. Block(x, t, o, n) = IF n > 0 THEN TimerStart(s, t, n) ELSE s
  BY DEF Block
<1> HIDE DEF s
<1>3. CASE ~(n > 0)
  BY <1>1, <1>2, <1>3
<1>4. CASE n > 0
  <2>1. BlockedIn(s, x, t, o, 0)
    BY <1>1
  <2>2. n \in Times
    BY <1>4 DEF Forever
  <2>3. Parked(TimerStart(s, t, n), x, t, o, n) /\ TimerStart(s, t, n).wait = s.wait
    BY <1>4, <2>1, <2>2, StartParks DEF BlockedIn
  <2> QED BY <1>2, <1>4, <2>1, <2>3 DEF BlockedIn
<1> QED BY <1>3, <1>4

-----------------------------------------------------------------------------
(* Applications in which a waiting thread is woken by ipc.c and its timer    *)
(* only: rt_thread_resume would make it return without what it waits for,    *)
(* and blocking with the scheduler locked is an error (ipc.c:523,           *)
(* rtdebug.h:123).  The idle thread makes no calls of ipc.c.                *)
Patient ==
    /\ \A g \in Programs : /\ g.resumed = {} /\ g.device = {} /\ g.deleted = {}
                           /\ \A u \in Thread : "lock" \notin g.calls[u]
    /\ \A a \in Apps : a.calls[Idle] = {}

LEMMA PatientIsDisciplined == Patient => Disciplined
BY DEF Patient, Disciplined

(* The places in calls of ipc.c and mempool.c. *)
InCall == {"wait_sched", "woken", "wake_test", "wake_take", "between"}

(* The frame of a thread says what it waits for and until when. *)
CallSound(x, p, f, t) ==
    /\ p[t] \in InCall <=> f[t].call # "none"
    /\ p[t] \in InCall => t # Idle
    /\ f[t].left \in Times \cup {Forever} /\ f[t].since \in Tick
    /\ \A o \in Obj : t \in Elems(x.wait[o]) =>
          /\ p[t] \in {"wait_sched", "woken"} /\ f[t].obj = o /\ x.err[t] = "ok"
          /\ x.act[t] <=> f[t].left > 0
          /\ x.act[t] => x.tout[t] = (f[t].since + f[t].left) % TickMod

CallsSound(x, p, f) == \A t \in Thread : CallSound(x, p, f, t)

(* A thread that is being started makes no call. *)
Starting(p, a) == \A s \in Thread : p[s] = "resume" => p[a[s]] = "user"

(* What holds of the threads between two steps, whatever objects they use. *)
WaitInv ==
    /\ IInv /\ Timely(Times, {}) /\ k.lock = 0
    /\ Starting(pc, arg)
    /\ Framed(frame) /\ CallsSound(k, pc, frame)
    /\ app \in Apps

LEMMA NowWaiting ==
    ASSUME WaitInv, Patient
    PROVE  /\ Disciplined /\ Fit(k, Base(k, isr)) /\ k \in Kernel /\ k.cur \in Thread
           /\ pc \in [Thread -> Pc] /\ arg \in [Thread -> Thread] /\ prog \in Programs
           /\ prog.resumed = {} /\ prog.device = {} /\ prog.deleted = {}
           /\ \A u \in Thread : "lock" \notin prog.calls[u]
           /\ prog.calls[Idle] = {} /\ app.calls[Idle] = {}
<1>1. IInv /\ Timely(Times, {})
  BY DEF WaitInv
<1>2. Fit(k, Base(k, isr)) /\ k \in Kernel /\ k.cur \in Thread
  BY <1>1 DEF IInv, Timely, Fit, Sound, SoundBut, Kernel
<1>3. /\ pc \in [Thread -> Pc] /\ arg \in [Thread -> Thread] /\ prog \in Programs
  BY <1>1 DEF IInv, Places
<1>4. Disciplined
  BY PatientIsDisciplined
<1> QED BY <1>2, <1>3, <1>4, ProgramsType DEF Patient, WaitInv

(* A thread at one of these places runs. *)
LEMMA CallerRuns ==
    ASSUME WaitInv, NEW t \in Thread, NEW w, At(t, w), w \notin About
    PROVE  /\ cpu = t /\ k.cur = t /\ pc[t] = w /\ k.stat[t] = "running" /\ ~k.act[t]
           /\ isr = "off" /\ ~k.flag
<1>1. cpu = t /\ k.cur = t /\ pc[t] = w /\ isr = "off" /\ ~k.flag
  BY RunningThread DEF WaitInv
<1>2. k.stat[t] = "running"
  BY <1>1 DEF WaitInv, Timely, Ruling
<1>3. ~k.act[t]
  BY <1>2 DEF WaitInv, IInv, Sound, SoundBut, Timers
<1> QED BY <1>1, <1>2, <1>3

-----------------------------------------------------------------------------
(* Steps of RtThread, seen by threads in calls: they stay where they are,    *)
(* and at most one of them is woken, because its time is over.               *)
TimedOut(r, x, p, h) ==
    /\ x.stat[h] = "suspend" /\ r.stat[h] # "suspend" /\ r.err[h] = "timeout"
    /\ r.wait = WaitsWithout(x, h)
    /\ \A u \in Thread \ {h} : p[u] \in InCall => Undisturbed(r, x, u)

Effect ==
    /\ k'.lock = 0
    /\ prog.prio = {} => k'.prio = k.prio
    /\ \A u \in Thread : IF pc[u] \in InCall THEN pc'[u] = pc[u] ELSE pc'[u] \notin InCall
    /\ \/ /\ k'.wait = k.wait
          /\ \A u \in Thread : pc[u] \in InCall => Undisturbed(k', k, u)
       \/ \E h \in Thread : TimedOut(k', k, pc, h)

(* A step of a thread that is in no call and changes no wait list. *)
LEMMA OwnEffect ==
    ASSUME WaitInv, Patient, NEW t \in Thread, pc[t] \notin InCall,
           NEW w, w \notin InCall, pc' = [pc EXCEPT ![t] = w],
           k'.wait = k.wait, k'.lock = k.lock, prog.prio = {} => k'.prio = k.prio,
           \A u \in Thread \ {t} : pc[u] \in InCall => Undisturbed(k', k, u)
    PROVE  Effect
<1>1. \A u \in Thread : pc'[u] = IF u = t THEN w ELSE pc[u]
  BY NowWaiting
<1>2. k.lock = 0
  BY DEF WaitInv
<1> QED BY <1>1, <1>2 DEF Effect

(* The same for steps of interrupts. *)
LEMMA QuietEffect ==
    ASSUME WaitInv, pc' = pc, k'.wait = k.wait, k'.lock = k.lock, k'.prio = k.prio,
           \A u \in Thread : Undisturbed(k', k, u)
    PROVE  Effect
BY DEF Effect, WaitInv

LEMMA SameUndisturbed ==
    ASSUME NEW x, NEW r, r.err = x.err, r.act = x.act, r.tout = x.tout, r.stat = x.stat
    PROVE  \A u \in Thread : Undisturbed(r, x, u)
BY DEF Undisturbed

LEMMA YieldEffect ==
    ASSUME WaitInv, Patient, NEW t \in Thread, Yield(t)
    PROVE  Effect
<1> DEFINE b == Base(k, isr)
           y == [k EXCEPT !.rem[t] = Slice[t], !.yld[t] = TRUE]
<1>1. Fit(k, b) /\ Sound(k) /\ k \in Kernel /\ pc[t] = "user"
  BY NowWaiting DEF Fit, Yield, Does, At
<1>2. /\ y \in Kernel /\ SameSwitch(y, k) /\ SameClock(y, k) /\ SameOwn(y, k)
      /\ y.rq = k.rq /\ y.grp = k.grp /\ y.wait = k.wait /\ y.dead = k.dead /\ y.stat = k.stat
      /\ y.prio = k.prio /\ y.act = k.act /\ y.tmr = k.tmr /\ y.bad = k.bad
  BY <1>1, KernelAssumption DEF Kernel, SameSwitch, SameClock, SameOwn
<1>3. k' = Schedule(y) /\ pc' = pc
  BY DEF Yield
<1> HIDE DEF y, b
<1>4. Fit(y, b)
  <2>1. Sound(y)
    BY <1>1, <1>2, SameListsFacts DEF Sound
  <2>2. OnTime(y, b, Times)
    BY <1>1, <1>2, OnTimeSame, TimesAreDurations DEF Fit, SameClock
  <2> QED BY <1>1, <1>2, <2>1, <2>2 DEF Fit, CurrentRuns, IdleAlive, SameSwitch
<1>5. Attended(k', y, {}) /\ k'.wait = y.wait
  BY <1>3, <1>4, ScheduleServes
<1> QED BY <1>2, <1>3, <1>5, QuietEffect DEF Attended, Handled, Undisturbed, SameClock, SameOwn

LEMMA SleepEffect ==
    ASSUME WaitInv, Patient, NEW t \in Thread, NEW n \in SleepArg, Sleep(t, n)
    PROVE  Effect
<1> DEFINE e == [k EXCEPT !.err[t] = "ok"]
           y == Suspend(e, t)
<1>1. /\ Sound(k) /\ k \in Kernel /\ n \in Nat /\ k.stat[t] = "running" /\ pc[t] = "user"
      /\ k.stat \in [Thread -> Stat] /\ k.act \in [Thread -> BOOLEAN] /\ k.err \in [Thread -> Err]
  <2> HIDE DEF e, y
  <2>1. k.stat[t] = "running" /\ pc[t] = "user"
    BY CallerRuns DEF Sleep, Does, About
  <2>2. Sound(k) /\ k \in Kernel
    BY NowWaiting DEF Fit
  <2>3. n \in Nat
    BY ThreadAssumption
  <2> QED BY <2>1, <2>2, <2>3 DEF Kernel
<1>2. /\ e \in Kernel /\ SameSwitch(e, k) /\ SameClock(e, k)
      /\ e.rq = k.rq /\ e.grp = k.grp /\ e.wait = k.wait /\ e.dead = k.dead /\ e.stat = k.stat
      /\ e.prio = k.prio /\ e.act = k.act /\ e.tmr = k.tmr /\ e.bad = k.bad /\ e.lock = k.lock
      /\ e.err = [k.err EXCEPT ![t] = "ok"]
  BY <1>1 DEF Kernel, Err, SameSwitch, SameClock
<1>3. k' = TimerStart(y, t, n) /\ pc' = [pc EXCEPT ![t] = "sleep_sched"]
  BY DEF Sleep, Goto
<1> HIDE DEF e
<1>4. Sound(e)
  BY <1>1, <1>2, SameListsFacts DEF Sound
<1>5. /\ Sound(y) /\ y \in Kernel /\ y.act = k.act /\ y.stat = [k.stat EXCEPT ![t] = "suspend"]
      /\ SameClock(y, k) /\ y.prio = k.prio /\ y.lock = k.lock /\ y.wait = k.wait
      /\ y.err = [k.err EXCEPT ![t] = "ok"]
  <2>1. Sound(y) /\ y.act = e.act /\ y.stat = [e.stat EXCEPT ![t] = "suspend"]
    BY <1>1, <1>2, <1>4, SuspendFacts
  <2>2. SameClock(y, e) /\ SameOwn(y, e) /\ y.wait = e.wait
    BY <1>4, SuspendRest
  <2> QED BY <1>2, <2>1, <2>2 DEF SameClock, SameOwn, Sound, SoundBut
<1> HIDE DEF y
<1> DEFINE r == TimerStart(y, t, n)
<1>6. r.stat = y.stat /\ r.act = [y.act EXCEPT ![t] = TRUE]
  <2>1. y.stat[t] = "suspend"
    BY <1>1, <1>5
  <2> QED BY <1>1, <1>5, <2>1, TimerStartFacts
<1>7. /\ r.err = y.err /\ r.prio = y.prio /\ r.lock = y.lock /\ r.wait = y.wait
      /\ \A u \in Thread \ {t} : r.tout[u] = y.tout[u]
  <2> DEFINE y1 == TimerRemove(y, t)
  <2>1. y1 \in Kernel /\ SameOwn(y1, y) /\ y1.wait = y.wait /\ y1.tout = [y.tout EXCEPT ![t] = 0]
    <3>1. SameOwn(y1, y) /\ y1.wait = y.wait /\ y1.tout = [y.tout EXCEPT ![t] = 0]
      BY <1>5, TimerRemoveRest
    <3>2. y1 \in Kernel
      BY <1>5, TimerRemoveFacts DEF Sound, SoundBut
    <3> QED BY <3>1, <3>2
  <2> HIDE DEF y1
  <2>2. r = [y1 EXCEPT !.tout[t] = (y.tick + n) % TickMod, !.act[t] = TRUE,
                       !.tmr = LinkAfter(y1.tmr, Position(y1, (y.tick + n) % TickMod), t)]
    BY DEF TimerStart, y1
  <2>3. /\ r.err = y1.err /\ r.prio = y1.prio /\ r.lock = y1.lock /\ r.wait = y1.wait
        /\ r.tout = [y1.tout EXCEPT ![t] = (y.tick + n) % TickMod]
    BY <2>1, <2>2 DEF Kernel
  <2> HIDE DEF r
  <2> QED BY <2>1, <2>3, <1>5 DEF SameOwn, Kernel
<1> HIDE DEF r
<1>8. k' = r
  BY <1>3 DEF r
<1>9. ASSUME NEW u \in Thread \ {t} PROVE Undisturbed(k', k, u)
  BY <1>1, <1>5, <1>6, <1>7, <1>8 DEF Undisturbed, SameClock
<1>10. "sleep_sched" \notin InCall /\ pc[t] \notin InCall
  BY <1>1 DEF InCall
<1>11. k'.wait = k.wait /\ k'.lock = k.lock /\ k'.prio = k.prio
  BY <1>5, <1>7, <1>8
<1> QED BY <1>3, <1>9, <1>10, <1>11, OwnEffect

LEMMA CallScheduleEffect ==
    ASSUME WaitInv, Patient, NEW t \in Thread, CallSchedule(t)
    PROVE  Effect
<1>1. PICK hop \in {<<"sched", "user">>, <<"sleep_sched", "sleep_ret">>, <<"exit_sched", "dead">>} :
         At(t, hop[1]) /\ Goto(t, hop[2])
  BY DEF CallSchedule
<1>2. pc[t] = hop[1] /\ pc[t] \notin InCall /\ hop[2] \notin InCall /\ pc' = [pc EXCEPT ![t] = hop[2]]
  BY <1>1 DEF At, Goto, InCall
<1>3. k' = Schedule(k) /\ Fit(k, Base(k, isr))
  BY NowWaiting DEF CallSchedule
<1>4. Attended(k', k, {}) /\ k'.wait = k.wait
  BY <1>3, ScheduleServes
<1> QED BY <1>2, <1>4, OwnEffect DEF Attended, Handled

LEMMA SleepReturnEffect ==
    ASSUME WaitInv, Patient, NEW t \in Thread, SleepReturn(t)
    PROVE  Effect
<1>1. k \in Kernel /\ pc[t] = "sleep_ret"
  BY NowWaiting DEF SleepReturn, At
<1>2. pc' = [pc EXCEPT ![t] = "user"] /\ "user" \notin InCall /\ pc[t] \notin InCall
  BY <1>1 DEF SleepReturn, Goto, InCall
<1>3. k' = [k EXCEPT !.err[t] = IF k.err[t] = "timeout" THEN "ok" ELSE k.err[t]]
  BY <1>1 DEF SleepReturn, Kernel
<1>4. /\ k'.wait = k.wait /\ k'.lock = k.lock /\ k'.prio = k.prio /\ k'.stat = k.stat
      /\ k'.act = k.act /\ k'.tout = k.tout
      /\ \A u \in Thread \ {t} : k'.err[u] = k.err[u]
  BY <1>1, <1>3 DEF Kernel
<1> QED BY <1>2, <1>4, OwnEffect DEF Undisturbed

LEMMA SuspendEffect ==
    ASSUME WaitInv, Patient, NEW t \in Thread, SuspendSelf(t)
    PROVE  Effect
<1> DEFINE r == Suspend(k, t)
<1>1. /\ Sound(k) /\ k \in Kernel /\ k.stat[t] = "running" /\ pc[t] = "user"
      /\ k.stat \in [Thread -> Stat]
  BY CallerRuns, NowWaiting DEF Fit, SuspendSelf, Does, About, Kernel
<1>2. /\ r.act = k.act /\ r.stat = [k.stat EXCEPT ![t] = "suspend"]
      /\ SameClock(r, k) /\ SameOwn(r, k) /\ r.wait = k.wait
  BY <1>1, SuspendFacts, SuspendRest
<1>3. k' = r /\ pc' = [pc EXCEPT ![t] = "sched"]
  BY DEF SuspendSelf, Goto
<1> HIDE DEF r
<1>4. \A u \in Thread \ {t} : Undisturbed(k', k, u)
  BY <1>1, <1>2, <1>3 DEF Undisturbed, SameClock, SameOwn
<1>5. "sched" \notin InCall /\ pc[t] \notin InCall
  BY <1>1 DEF InCall
<1> QED BY <1>2, <1>3, <1>4, <1>5, OwnEffect DEF SameOwn

(* The thread rt_thread_startup resumes is in no list.                       *)
LEMMA ResumeDoEffect ==
    ASSUME WaitInv, Patient, NEW t \in Thread, ResumeDo(t)
    PROVE  Effect
<1> DEFINE h == arg[t]
           r == Resume(k, h)
           b == Base(k, isr)
<1>1. Fit(k, b) /\ k \in Kernel /\ pc[t] = "resume" /\ h \in Thread /\ k.cur = t
  BY NowWaiting, RunningThread DEF ResumeDo, At, WaitInv
<1>2. k.stat[h] = "suspend" /\ h # t
  BY <1>1, NowWaiting DEF WaitInv, IInv, Places, PlacesSound, ResumePending
<1>3. pc[h] = "user" /\ \A o \in Obj : h \notin Elems(k.wait[o])
  <2>1. pc[h] = "user"
    BY <1>1 DEF WaitInv, Starting
  <2> QED BY <1>1, <2>1 DEF WaitInv, CallsSound, CallSound
<1>4. k' = r /\ pc' = [pc EXCEPT ![t] = "sched"]
  BY DEF ResumeDo, Goto
<1> HIDE DEF h, b
<1>5. WokenIn(r, k, h, k.err[h], b)
  BY <1>1, <1>2, ResumeServes
<1> HIDE DEF r
<1>6. Attended(k', k, {h}) /\ k'.wait = WaitsWithout(k, h)
  BY <1>4, <1>5 DEF WokenIn
<1>7. k'.wait = k.wait
  <2>1. WaitsWithout(k, h) = [o \in Obj |-> k.wait[o]]
    BY <1>3, UnlinkAbsent DEF WaitsWithout
  <2> QED BY <1>1, <1>6, <2>1 DEF Kernel
<1>8. ASSUME NEW u \in Thread \ {t}, pc[u] \in InCall PROVE Undisturbed(k', k, u)
  <2>1. u # h
    BY <1>3, <1>8 DEF InCall
  <2> QED BY <1>6, <2>1 DEF Attended, Handled
<1>9. "sched" \notin InCall /\ pc[t] \notin InCall
  BY <1>1 DEF InCall
<1> QED BY <1>4, <1>6, <1>7, <1>8, <1>9, OwnEffect DEF Attended, Handled

LEMMA StartupEffect ==
    ASSUME WaitInv, Patient, NEW t \in Thread, NEW u \in Thread, Startup(t, u)
    PROVE  Effect /\ pc[u] = "user"
<1>1. k \in Kernel /\ pc[t] = "user" /\ k.stat[u] = "init" /\ pc[u] = "user"
  BY NowWaiting DEF Startup, Does, At, WaitInv, Timely, Sleepers
<1>2. k' = [k EXCEPT !.stat[u] = "suspend"] /\ pc' = [pc EXCEPT ![t] = "resume"]
  BY DEF Startup, Goto
<1>3. /\ k'.wait = k.wait /\ k'.lock = k.lock /\ k'.prio = k.prio /\ k'.err = k.err
      /\ k'.act = k.act /\ k'.tout = k.tout
      /\ \A v \in Thread \ {u} : k'.stat[v] = k.stat[v]
  BY <1>1, <1>2 DEF Kernel
<1>4. "resume" \notin InCall /\ pc[t] \notin InCall /\ pc[u] \notin InCall
  BY <1>1 DEF InCall
<1>5. ASSUME NEW v \in Thread \ {t}, pc[v] \in InCall PROVE Undisturbed(k', k, v)
  BY <1>3, <1>4, <1>5 DEF Undisturbed
<1> QED BY <1>1, <1>2, <1>3, <1>4, <1>5, OwnEffect

LEMMA ExitEffect ==
    ASSUME WaitInv, Patient, NEW t \in Thread, Exit(t)
    PROVE  Effect
<1> DEFINE r == Close(RemoveThread(k, t), t)
<1>1. /\ Sound(k) /\ k \in Kernel /\ k.stat[t] = "running" /\ pc[t] = "user"
      /\ k.stat \in [Thread -> Stat] /\ k.act \in [Thread -> BOOLEAN] /\ Waits(k, {})
  BY CallerRuns, NowWaiting DEF Fit, Exit, Does, About, Kernel, Sound, SoundBut
<1>2. /\ r.act = [k.act EXCEPT ![t] = FALSE] /\ r.stat = [k.stat EXCEPT ![t] = "close"]
      /\ \A u \in Thread \ {t} : r.tout[u] = k.tout[u]
      /\ SameOwn(r, k) /\ r.wait = WaitsWithout(k, t)
  BY <1>1, ExitFacts, ExitRest
<1>3. k' = r /\ pc' = [pc EXCEPT ![t] = "exit_sched"]
  BY DEF Exit, Goto
<1> HIDE DEF r
<1>4. k'.wait = k.wait
  BY <1>1, <1>2, <1>3, NotWaiting
<1>5. \A u \in Thread \ {t} : Undisturbed(k', k, u)
  BY <1>1, <1>2, <1>3 DEF Undisturbed, SameOwn
<1>6. "exit_sched" \notin InCall /\ pc[t] \notin InCall
  BY <1>1 DEF InCall
<1> QED BY <1>2, <1>3, <1>4, <1>5, <1>6, OwnEffect DEF SameOwn

LEMMA SetPriorityEffect ==
    ASSUME WaitInv, Patient, NEW t \in Thread, NEW u \in prog.prio, NEW p \in NewPrio,
           SetPriority(t, u, p)
    PROVE  Effect
<1> DEFINE r == ChangePriority(k, u, p)
<1>1. Sound(k) /\ CurrentRuns(k) /\ k \in Kernel /\ pc[t] = "user" /\ pc \in [Thread -> Pc]
  BY NowWaiting DEF Fit, SetPriority, Does, At
<1>2. u \in Thread /\ p \in Prio
  <2>1. InitPrio[Idle] \in Prio /\ p \in 0..(InitPrio[Idle] - 1)
    BY ThreadAssumption
  <2> QED BY <2>1, NowWaiting, ProgramsType, KernelAssumption DEF Prio
<1>3. /\ r.act = k.act /\ r.stat = k.stat
      /\ SameClock(r, k) /\ r.wait = k.wait /\ r.err = k.err /\ r.lock = k.lock
  BY <1>1, <1>2, ChangePriorityFacts, ChangePriorityRest
<1>4. k' = r /\ pc' = pc
  BY DEF SetPriority
<1> HIDE DEF r
<1>5. \A v \in Thread : Undisturbed(k', k, v)
  BY <1>3, <1>4 DEF Undisturbed, SameClock
<1>6. pc' = [pc EXCEPT ![t] = "user"] /\ "user" \notin InCall /\ pc[t] \notin InCall
  BY <1>1, <1>4 DEF InCall
<1>7. prog.prio # {}
  OBVIOUS
<1> QED BY <1>3, <1>4, <1>5, <1>6, <1>7, OwnEffect

LEMMA IdleEffect ==
    ASSUME WaitInv, Patient, IdleLook \/ IdleTake
    PROVE  Effect
<1>1. Sound(k) /\ k \in Kernel /\ Waits(k, {}) /\ Idle \in Thread /\ arg[Idle] \in Thread
  BY NowWaiting, ThreadAssumption DEF Fit, Sound, SoundBut
<1>2. CASE IdleLook
  <2>1. /\ k' = k /\ pc' = [pc EXCEPT ![Idle] = "idle_take"] /\ pc[Idle] = "user"
    BY <1>2 DEF IdleLook, At, Goto
  <2>2. \A u \in Thread : Undisturbed(k', k, u)
    BY <2>1 DEF Undisturbed
  <2>3. "idle_take" \notin InCall /\ pc[Idle] \notin InCall
    BY <2>1 DEF InCall
  <2> QED BY <1>1, <2>1, <2>2, <2>3, OwnEffect
<1>3. CASE IdleTake
  <2> DEFINE u == arg[Idle]
             r == ListRemove(k, u)
  <2>1. k.stat[u] = "close" /\ pc[Idle] = "idle_take"
    BY <1>1, <1>3 DEF WaitInv, IInv, Places, PlacesSound, IdleTake, At
  <2>2. k' = r /\ pc' = [pc EXCEPT ![Idle] = "user"]
    BY <1>3 DEF IdleTake, Goto
  <2> HIDE DEF u
  <2>3. /\ r.wait = WaitsWithout(k, u) /\ r.stat = k.stat /\ r.act = k.act
        /\ r.err = k.err /\ r.tout = k.tout /\ r.lock = k.lock /\ r.prio = k.prio
    BY <1>1 DEF ListRemove, WaitsWithout, Kernel
  <2> HIDE DEF r
  <2>4. k'.wait = k.wait
    <3>1. u \in Thread
      BY <1>1 DEF u
    <3> QED BY <1>1, <2>1, <2>2, <2>3, <3>1, NotWaiting
  <2>5. \A v \in Thread : Undisturbed(k', k, v)
    BY <2>2, <2>3 DEF Undisturbed
  <2>6. "user" \notin InCall /\ pc[Idle] \notin InCall
    BY <2>1 DEF InCall
  <2> QED BY <1>1, <2>2, <2>3, <2>4, <2>5, <2>6, OwnEffect
<1> QED BY <1>2, <1>3

LEMMA PendSVEffect ==
    ASSUME WaitInv, Patient, PendSV
    PROVE  Effect
<1>1. k \in Kernel
  BY NowWaiting
<1>2. k' = [k EXCEPT !.flag = FALSE, !.from = k.to] /\ pc' = pc
  BY DEF PendSV
<1>3. /\ k'.wait = k.wait /\ k'.lock = k.lock /\ k'.prio = k.prio /\ k'.err = k.err
      /\ k'.act = k.act /\ k'.tout = k.tout /\ k'.stat = k.stat
  BY <1>1, <1>2 DEF Kernel
<1> QED BY <1>2, <1>3, QuietEffect, SameUndisturbed

LEMMA TickEffect ==
    ASSUME WaitInv, Patient, TickInterrupt \/ TickSchedule \/ TickReturn
    PROVE  Effect
<1>1. Fit(k, Base(k, isr)) /\ Sound(k) /\ k \in Kernel
  BY NowWaiting DEF Fit
<1>2. CASE TickInterrupt
  <2> DEFINE r == CountTick(k)
  <2>1. k' = r /\ pc' = pc
    BY <1>2 DEF TickInterrupt
  <2>2. r.stat = k.stat /\ r.act = k.act /\ r.tout = k.tout /\ SameOwn(r, k) /\ r.wait = k.wait
    BY <1>1, CountTickFacts, CountTickRest
  <2> HIDE DEF r
  <2> QED BY <2>1, <2>2, QuietEffect, SameUndisturbed DEF SameOwn
<1>3. CASE TickSchedule
  <2>1. k' = Schedule(k) /\ pc' = pc
    BY <1>3 DEF TickSchedule
  <2>2. Attended(k', k, {}) /\ k'.wait = k.wait
    BY <1>1, <2>1, ScheduleServes
  <2> QED BY <2>1, <2>2, QuietEffect DEF Attended, Handled
<1>4. CASE TickReturn
  BY <1>4, QuietEffect, SameUndisturbed DEF TickReturn
<1> QED BY <1>2, <1>3, <1>4

(* A thread whose time is over is woken.                                     *)
LEMMA TimerFiresEffect ==
    ASSUME WaitInv, Patient, TimerFires
    PROVE  Effect
<1> DEFINE h == Head(k.tmr)
           y == Expire(k, h)
           b == Base(k, isr)
<1>1. Fit(k, b) /\ k.tmr \in Seq(Thread) /\ k.tmr # <<>> /\ Timers(k, {})
  BY NowWaiting DEF Fit, Sound, SoundBut, Kernel, TimerFires, Fired
<1>2. h \in Thread /\ k.act[h] /\ k.stat[h] = "suspend"
  BY <1>1, HeadElem DEF Timers
<1>3. k' = Schedule(y) /\ pc' = pc
  BY DEF TimerFires
<1> HIDE DEF h, b
<1>4. WokenIn(y, k, h, "timeout", b)
  BY <1>1, <1>2, ExpireServes
<1> HIDE DEF y
<1>5. Fit(y, b) /\ Attended(y, k, {h}) /\ y.wait = WaitsWithout(k, h) /\ y.err[h] = "timeout"
      /\ y.stat[h] # "suspend"
  BY <1>4 DEF WokenIn
<1>6. Attended(k', y, {}) /\ k'.wait = y.wait
  BY <1>3, <1>5, ScheduleServes
<1>7. TimedOut(k', k, pc, h)
  BY <1>2, <1>5, <1>6 DEF TimedOut, Attended, Handled, Undisturbed
<1>8. k'.lock = 0 /\ k'.prio = k.prio
  BY <1>5, <1>6 DEF Attended, Handled, WaitInv
<1> QED BY <1>2, <1>3, <1>7, <1>8 DEF Effect

LEMMA NextEffect ==
    ASSUME WaitInv, Patient, [Next]_vars
    PROVE  Effect
<1>1. CASE UNCHANGED vars
  BY <1>1, QuietEffect, SameUndisturbed DEF vars
<1>2. ASSUME NEW t \in Thread, ThreadStep(t) PROVE Effect
  <2>1. prog.deleted = {} /\ prog.resumed = {} /\ "lock" \notin prog.calls[t]
    BY NowWaiting
  <2>2. pc[t] \notin {"delete_remove", "delete_close"}
    BY DEF WaitInv, IInv, Places, PlacesSound
  <2>3. CASE Yield(t)
    BY <2>3, YieldEffect
  <2>4. CASE \E n \in SleepArg : Sleep(t, n)
    BY <2>4, SleepEffect
  <2>5. CASE CallSchedule(t) \/ SleepReturn(t) \/ SuspendSelf(t)
    BY <2>5, CallScheduleEffect, SleepReturnEffect, SuspendEffect
  <2>6. CASE ResumeDo(t) \/ Exit(t)
    BY <2>6, ResumeDoEffect, ExitEffect
  <2>7. CASE Start(t)
    BY <2>7, StartupEffect DEF Start
  <2>8. CASE \E u \in prog.prio, p \in NewPrio : SetPriority(t, u, p)
    BY <2>8, SetPriorityEffect
  <2>9. /\ ~(\E u \in prog.deleted : DeleteCheck(t, u)) /\ ~DeleteRemove(t) /\ ~DeleteClose(t)
        /\ ~(\E u \in prog.resumed : ResumeCheck(t, u)) /\ ~EnterCritical(t) /\ ~ExitCritical(t)
    BY <2>1, <2>2 DEF DeleteRemove, DeleteClose, At, EnterCritical, ExitCritical, Does
  <2> QED BY <1>2, <2>3, <2>4, <2>5, <2>6, <2>7, <2>8, <2>9 DEF ThreadStep
<1>3. CASE IdleLook \/ IdleTake
  BY <1>3, IdleEffect
<1>4. CASE PendSV
  BY <1>4, PendSVEffect
<1>5. CASE Interrupt
  <2>1. ~(\E u \in prog.device : DeviceResumes(u))
    BY NowWaiting
  <2> QED BY <1>5, <2>1, TickEffect, TimerFiresEffect DEF Interrupt
<1> QED BY <1>1, <1>2, <1>3, <1>4, <1>5 DEF Next

-----------------------------------------------------------------------------
(* The thread being started is not the current one: a step of the current    *)
(* thread leaves it where it is.                                             *)
LEMMA StartingKept ==
    ASSUME WaitInv, Patient, NEW t \in Thread, t = k.cur, NEW w, w # "resume",
           pc' = [pc EXCEPT ![t] = w], \A s \in Thread \ {t} : arg'[s] = arg[s]
    PROVE  Starting(pc', arg')
<1> SUFFICES ASSUME NEW s \in Thread, pc'[s] = "resume" PROVE pc'[arg'[s]] = "user"
  BY DEF Starting
<1>1. \A u \in Thread : pc'[u] = IF u = t THEN w ELSE pc[u]
  BY NowWaiting
<1>2. s # t /\ pc[s] = "resume" /\ arg'[s] = arg[s] /\ arg[s] \in Thread
  BY <1>1, NowWaiting
<1>3. arg[s] # t
  BY <1>2, NowWaiting DEF WaitInv, IInv, Places, PlacesSound, ResumePending
<1>4. pc[arg[s]] = "user"
  BY <1>2 DEF WaitInv, Starting
<1> QED BY <1>1, <1>2, <1>3, <1>4

LEMMA NextStarting ==
    ASSUME WaitInv, Patient, [Next]_vars
    PROVE  Starting(pc', arg')
<1>0. /\ prog.deleted = {} /\ prog.resumed = {} /\ \A u \in Thread : "lock" \notin prog.calls[u]
      /\ pc \in [Thread -> Pc] /\ arg \in [Thread -> Thread] /\ Idle \in Thread
  BY NowWaiting, ThreadAssumption
<1>1. CASE UNCHANGED <<pc, arg>>
  BY <1>1 DEF WaitInv, Starting
<1>2. ASSUME NEW t \in Thread, NEW c, NEW w, At(t, c), w # "resume", Goto(t, w),
             arg' = arg \/ \E v : arg' = [arg EXCEPT ![t] = v]
      PROVE  Starting(pc', arg')
  <2>1. t = k.cur /\ pc' = [pc EXCEPT ![t] = w]
    BY <1>2, RunningThread DEF WaitInv, Goto
  <2>2. \A s \in Thread \ {t} : arg'[s] = arg[s]
    BY <1>0, <1>2
  <2> QED BY <1>2, <2>1, <2>2, StartingKept
<1>3. ASSUME NEW t \in Thread, ThreadStep(t) PROVE Starting(pc', arg')
  <2>1. pc[t] \notin {"delete_remove", "delete_close"}
    BY DEF WaitInv, IInv, Places, PlacesSound
  <2>2. CASE Yield(t) \/ \E u \in prog.prio, p \in NewPrio : SetPriority(t, u, p)
    BY <1>1, <2>2 DEF Yield, SetPriority
  <2>3. CASE \E n \in SleepArg : Sleep(t, n)
    BY <1>2, <2>3 DEF Sleep, Does
  <2>4. CASE CallSchedule(t)
    <3>1. PICK hop \in {<<"sched", "user">>, <<"sleep_sched", "sleep_ret">>, <<"exit_sched", "dead">>} :
             At(t, hop[1]) /\ Goto(t, hop[2])
      BY <2>4 DEF CallSchedule
    <3>2. hop[2] # "resume" /\ arg' = arg
      BY <2>4 DEF CallSchedule
    <3> QED BY <1>2, <3>1, <3>2
  <2>5. CASE SleepReturn(t)
    BY <1>2, <2>5 DEF SleepReturn
  <2>6. CASE SuspendSelf(t) \/ Exit(t)
    BY <1>2, <2>6 DEF SuspendSelf, Exit, Does
  <2>7. CASE ResumeDo(t)
    BY <1>2, <2>7 DEF ResumeDo, Done
  <2>8. ASSUME NEW u \in Thread, Startup(t, u) PROVE Starting(pc', arg')
    <3>1. /\ At(t, "user") /\ k.stat[u] = "init" /\ pc' = [pc EXCEPT ![t] = "resume"]
          /\ arg' = [arg EXCEPT ![t] = u]
      BY <2>8 DEF Startup, Does, Goto
    <3>2. k.cur = t /\ k.stat[t] # "init" /\ pc[u] = "user"
      BY <2>8, <3>1, RunningThread, StartupEffect DEF WaitInv
    <3>3. u # t
      BY <3>1, <3>2
    <3>4. ASSUME NEW s \in Thread \ {t}, pc[s] = "resume" PROVE arg[s] # t /\ pc[arg[s]] = "user"
      <4>1. arg[s] # t
        BY <3>2, <3>4, NowWaiting DEF WaitInv, IInv, Places, PlacesSound, ResumePending
      <4>2. pc[arg[s]] = "user"
        BY <3>4 DEF WaitInv, Starting
      <4> QED BY <4>1, <4>2
    <3> QED BY <1>0, <3>1, <3>2, <3>3, <3>4 DEF Starting
  <2>9. /\ ~(\E u \in prog.deleted : DeleteCheck(t, u)) /\ ~DeleteRemove(t) /\ ~DeleteClose(t)
        /\ ~(\E u \in prog.resumed : ResumeCheck(t, u)) /\ ~EnterCritical(t) /\ ~ExitCritical(t)
    BY <1>0, <2>1 DEF DeleteRemove, DeleteClose, At, EnterCritical, ExitCritical, Does
  <2> QED BY <1>3, <2>2, <2>3, <2>4, <2>5, <2>6, <2>7, <2>8, <2>9 DEF ThreadStep, Start
<1>4. CASE IdleLook
  BY <1>0, <1>2, <1>4 DEF IdleLook
<1>5. CASE IdleTake
  BY <1>0, <1>2, <1>5 DEF IdleTake, Done
<1>6. CASE PendSV
  BY <1>1, <1>6 DEF PendSV
<1>7. CASE Interrupt
  BY <1>1, <1>7 DEF Interrupt, TickInterrupt, TickSchedule, TimerFires, TickReturn, DeviceResumes
<1>8. CASE UNCHANGED vars
  BY <1>1, <1>8 DEF vars
<1> QED BY <1>3, <1>4, <1>5, <1>6, <1>7, <1>8 DEF Next

(* The frame of a thread stays true of it, as long as the thread and its     *)
(* timer stay where they are or it leaves the lists.                         *)
LEMMA CallKept ==
    ASSUME NEW x, NEW p, NEW f, NEW r, NEW q, NEW g, NEW t, CallSound(x, p, f, t), g[t] = f[t],
           IF p[t] \in InCall THEN q[t] = p[t] ELSE q[t] \notin InCall,
           \A o \in Obj : t \in Elems(r.wait[o]) =>
               t \in Elems(x.wait[o]) /\ Undisturbed(r, x, t)
    PROVE  CallSound(r, q, g, t)
<1>1. CASE p[t] \in InCall
  BY <1>1 DEF CallSound, Undisturbed
<1>2. CASE p[t] \notin InCall
  BY <1>2 DEF CallSound, InCall
<1> QED BY <1>1, <1>2

LEMMA EffectKeepsCalls ==
    ASSUME WaitInv, Patient, Effect, frame' = frame
    PROVE  CallsSound(k', pc', frame')
<1> SUFFICES ASSUME NEW t \in Thread PROVE CallSound(k', pc', frame', t)
  BY DEF CallsSound
<1>1. CallSound(k, pc, frame, t) /\ (IF pc[t] \in InCall THEN pc'[t] = pc[t] ELSE pc'[t] \notin InCall)
  BY DEF WaitInv, CallsSound, Effect
<1>2. ASSUME NEW o \in Obj, t \in Elems(k'.wait[o])
      PROVE  t \in Elems(k.wait[o]) /\ Undisturbed(k', k, t)
  <2>1. CASE k'.wait = k.wait /\ \A u \in Thread : pc[u] \in InCall => Undisturbed(k', k, u)
    BY <1>1, <1>2, <2>1 DEF CallSound, InCall
  <2>2. ASSUME NEW h \in Thread, TimedOut(k', k, pc, h)
        PROVE  t \in Elems(k.wait[o]) /\ Undisturbed(k', k, t)
    <3>1. Elems(k'.wait[o]) = Elems(k.wait[o]) \ {h}
      <4>1. \A q \in Obj : IsOnce(k.wait[q])
        BY DEF WaitInv, IInv, Sound, SoundBut, Waits
      <4>2. k'.wait = WaitsWithout(k, h)
        BY <2>2 DEF TimedOut
      <4> QED BY <4>1, <4>2, WaitsLess, NowWaiting
    <3>2. t # h /\ t \in Elems(k.wait[o])
      BY <1>2, <3>1
    <3>3. pc[t] \in InCall
      BY <1>1, <3>2 DEF CallSound, InCall
    <3> QED BY <2>2, <3>2, <3>3 DEF TimedOut
  <2> QED BY <2>1, <2>2 DEF Effect
<1> QED BY <1>1, <1>2, CallKept

(* The kernel's own steps keep the invariant. *)
LEMMA NextKeepsWaiting ==
    ASSUME WaitInv, Patient, [Next]_vars, UNCHANGED waitVars
    PROVE  WaitInv' /\ Effect
<1>1. Disciplined /\ IInv /\ Timely(Times, {}) /\ frame' = frame /\ app' = app
  BY NowWaiting DEF WaitInv, waitVars
<1>2. IInv'
  BY <1>1, NextKeeps
<1>3. Timely(Times, {})'
  BY <1>1, <1>2, NextTimely, TimesAreDurations
<1>4. Effect /\ CallsSound(k', pc', frame') /\ Starting(pc', arg')
  BY <1>1, NextEffect, EffectKeepsCalls, NextStarting
<1>5. k'.lock = 0
  BY <1>4 DEF Effect
<1> QED BY <1>1, <1>2, <1>3, <1>4, <1>5 DEF WaitInv, Framed

-----------------------------------------------------------------------------
(* Steps inside calls.  Between two steps the kernel and its threads are as  *)
(* they should be, and nobody is served but callers.                         *)
Going == IInv /\ Timely(Times, {}) /\ k.lock = 0 /\ Starting(pc, arg)

(* The current thread goes to a place in its call, or out of it.             *)
Onward == InCall \cup {"user", "sched"}

CallMove(M) ==
    /\ Fit(k', Base(k, isr)) /\ Handled(k', k, M) /\ SwitchRecord'
    /\ Ruling(k', pc', prog', {})
    /\ UNCHANGED <<cpu, arg, isr, prog>>
    /\ pc' = [u \in Thread |-> pc'[u]]
    /\ \A u \in Thread : \/ pc'[u] = pc[u]
                         \/ u = k.cur /\ pc[u] \in InCall \cup {"user"} /\ pc'[u] \in Onward
    /\ \A u \in M : u \in Thread /\ (pc[u] \in InCall \/ (u = k.cur /\ pc[u] = "user"))

LEMMA CallMoveGoes ==
    ASSUME WaitInv, Patient, NEW M, CallMove(M)
    PROVE  Going'
<1>1. /\ k' \in Kernel /\ Sound(k') /\ CurrentRuns(k') /\ IdleAlive(k')
      /\ OnTime(k', Base(k, isr), Times) /\ Handled(k', k, M) /\ k'.tick = k.tick
  BY DEF CallMove, Fit, Sound, SoundBut, Handled
<1>2. /\ pc \in [Thread -> Pc] /\ arg \in [Thread -> Thread] /\ prog.resumed = {} /\ prog.device = {}
      /\ k.cur \in Thread
  BY NowWaiting
<1>3. arg' = arg /\ prog' = prog /\ isr' = isr /\ cpu' = cpu
  BY DEF CallMove
<1>4. pc' \in [Thread -> Pc]
  <2>1. \A u \in Thread : pc'[u] \in Pc
    BY <1>2 DEF CallMove, Onward, InCall, Pc
  <2> QED BY <2>1 DEF CallMove
<1>5. ASSUME NEW u \in Thread, pc[u] \notin InCall \cup {"user"}
      PROVE  pc'[u] = pc[u] /\ u \notin M /\ Undisturbed(k', k, u)
  BY <1>1, <1>5 DEF CallMove, Handled
<1>6. ASSUME NEW u \in Thread, pc'[u] \notin Onward
      PROVE  pc'[u] = pc[u] /\ pc[u] \notin InCall \cup {"user"}
  BY <1>6 DEF CallMove, Onward
<1>7. ASSUME NEW s \in Thread, pc'[s] = "resume"
      PROVE  /\ pc[s] = "resume" /\ pc[arg[s]] = "user" /\ arg[s] \in Thread
             /\ k.stat[arg[s]] = "suspend" /\ ~k.act[arg[s]] /\ arg[s] # k.cur /\ arg[s] \notin M
             /\ \A r \in Thread : pc[r] = "resume" /\ arg[r] = arg[s] => r = s
  <2>1. pc[s] = "resume"
    BY <1>6, <1>7 DEF Onward, InCall
  <2>2. /\ k.stat[arg[s]] = "suspend" /\ ~k.act[arg[s]] /\ arg[s] # k.cur
        /\ \A r \in Thread : pc[r] = "resume" /\ arg[r] = arg[s] => r = s
    BY <1>2, <2>1 DEF WaitInv, IInv, Places, PlacesSound, ResumePending
  <2>3. pc[arg[s]] = "user" /\ arg[s] \in Thread
    BY <1>2, <2>1 DEF WaitInv, Starting
  <2> QED BY <2>1, <2>2, <2>3 DEF CallMove, InCall
<1>8. Starting(pc', arg')
  <2> SUFFICES ASSUME NEW s \in Thread, pc'[s] = "resume" PROVE pc'[arg'[s]] = "user"
    BY DEF Starting
  <2>1. pc[arg[s]] = "user" /\ arg[s] # k.cur /\ arg[s] \in Thread
    BY <1>7
  <2> QED BY <2>1, <1>3 DEF CallMove
<1>9. PlacesSound(k', pc', arg', prog')
  <2> SUFFICES ASSUME NEW s \in Thread
               PROVE  /\ k'.stat[s] = "close" => pc'[s] \in {"exit_sched", "dead"}
                      /\ pc'[s] \notin {"delete_remove", "delete_close"}
                      /\ pc'[s] = "idle_take" => s = Idle /\ k'.stat[arg[s]] = "close"
                      /\ pc'[s] = "resume" => ResumePending(k', pc', arg', prog', s)
    BY <1>3 DEF PlacesSound
  <2>1. /\ k.stat[s] = "close" => pc[s] \in {"exit_sched", "dead"}
        /\ pc[s] \notin {"delete_remove", "delete_close"}
        /\ pc[s] = "idle_take" => s = Idle /\ k.stat[arg[s]] = "close"
    BY DEF WaitInv, IInv, Places, PlacesSound
  <2>2. k'.stat[s] = "close" => pc'[s] \in {"exit_sched", "dead"}
    <3>1. k'.stat[s] = "close" => k.stat[s] = "close"
      BY <1>1 DEF Handled
    <3> QED BY <2>1, <3>1, <1>5 DEF InCall
  <2>3. pc'[s] \notin {"delete_remove", "delete_close"}
    BY <2>1, <1>6 DEF Onward, InCall
  <2>4. pc'[s] = "idle_take" => s = Idle /\ k'.stat[arg[s]] = "close"
    <3>1. pc'[s] = "idle_take" => pc[s] = "idle_take"
      BY <1>6 DEF Onward, InCall
    <3>2. arg[s] \in Thread
      BY <1>2
    <3> QED BY <2>1, <3>1, <3>2, <1>1 DEF Handled
  <2>5. ASSUME pc'[s] = "resume" PROVE ResumePending(k', pc', arg', prog', s)
    <3>1. /\ arg[s] \in Thread \ M /\ k.stat[arg[s]] = "suspend" /\ ~k.act[arg[s]] /\ arg[s] # k.cur
          /\ \A r \in Thread : pc[r] = "resume" /\ arg[r] = arg[s] => r = s
      BY <2>5, <1>7
    <3>2. k'.stat[arg[s]] = "suspend" /\ ~k'.act[arg[s]] /\ arg[s] # k'.cur
      BY <3>1, <1>1 DEF Handled, Undisturbed
    <3>3. \A r \in Thread : pc'[r] = "resume" => pc[r] = "resume"
      BY <1>7
    <3> QED BY <1>2, <1>3, <3>1, <3>2, <3>3 DEF ResumePending
  <2> QED BY <2>2, <2>3, <2>4, <2>5
<1>10. Sleepers(k', pc')
  <2> SUFFICES ASSUME NEW u \in Thread
               PROVE  /\ k'.stat[u] = "init" => pc'[u] = "user"
                      /\ pc'[u] \in Sleeping /\ k'.stat[u] = "suspend" => k'.act[u]
    BY DEF Sleepers
  <2>1. /\ k.stat[u] = "init" => pc[u] = "user" /\ u # k.cur
        /\ pc[u] \in Sleeping /\ k.stat[u] = "suspend" => k.act[u]
    BY DEF WaitInv, Timely, Sleepers, IInv, CurrentRuns
  <2>2. k'.stat[u] = "init" => pc'[u] = "user"
    BY <2>1, <1>1 DEF Handled, CallMove
  <2>3. pc'[u] \in Sleeping => pc[u] \in Sleeping /\ Undisturbed(k', k, u)
    BY <1>5, <1>6 DEF Sleeping, Onward, InCall
  <2> QED BY <2>1, <2>2, <2>3 DEF Undisturbed
<1>11. k'.lock = 0
  BY <1>1 DEF Handled, WaitInv
<1>12. Base(k', isr') = Base(k, isr)
  BY <1>1, <1>3 DEF Base
<1>13. cpu' \in Thread /\ isr' \in {"off", "sched", "timer", "loop"} /\ prog' \in Programs
  BY <1>3 DEF WaitInv, IInv
<1>14. IInv'
  BY <1>1, <1>2, <1>3, <1>4, <1>9, <1>13 DEF IInv, Places, CallMove
<1>15. Timely(Times, {})'
  BY <1>1, <1>10, <1>12 DEF Timely, CallMove
<1> QED BY <1>8, <1>11, <1>14, <1>15 DEF Going

(* The threads of a list with RT_IPC_FLAG_PRIO wait in the order of their    *)
(* priorities.                                                               *)
InTurn(x) == \A o \in Obj : Flag[o] = "prio" => InOrder(x.wait[o], x.prio)

(* Whatever order the lists of x are in, those of r are in it too.           *)
Thins(r, x) == \A o \in Obj : \A f : InOrder(x.wait[o], f) => InOrder(r.wait[o], f)

LEMMA ThinsInTurn ==
    ASSUME NEW r, NEW x, Thins(r, x), r.prio = x.prio, InTurn(x)
    PROVE  InTurn(r)
BY DEF Thins, InTurn

(* From x to r the threads in M are served, and none of them waits in r.     *)
Wakes(r, x, M, b) ==
    /\ Fit(r, b) /\ SameSwitch(r, x) /\ Attended(r, x, M)
    /\ \A o \in Obj : Elems(r.wait[o]) \subseteq Elems(x.wait[o]) \ M
    /\ Thins(r, x)

(* The same, though priorities may have changed. *)
Quits(r, x, M, b) ==
    /\ Fit(r, b) /\ SameSwitch(r, x) /\ Handled(r, x, M)
    /\ \A o \in Obj : Elems(r.wait[o]) \subseteq Elems(x.wait[o]) \ M
    /\ Thins(r, x)

LEMMA NoneWakes ==
    ASSUME NEW x, NEW b, Fit(x, b)
    PROVE  Wakes(x, x, {}, b)
BY DEF Wakes, SameSwitch, Attended, Handled, Undisturbed, Thins

LEMMA WakesTwice ==
    ASSUME NEW x, NEW y, NEW r, NEW M, NEW N, NEW b, Wakes(y, x, M, b), Wakes(r, y, N, b)
    PROVE  Wakes(r, x, M \cup N, b)
<1>1. r.cur \in Thread
  BY DEF Wakes, Fit, Sound, SoundBut, Kernel
<1>2. Attended(r, x, M \cup N)
  BY <1>1, AttendedTwice DEF Wakes
<1>3. Thins(r, x)
  BY DEF Wakes, Thins
<1> QED BY <1>2, <1>3 DEF Wakes, SameSwitch

LEMMA LessThins ==
    ASSUME NEW x \in Kernel, NEW r, NEW h, r.wait = WaitsWithout(x, h)
    PROVE  Thins(r, x)
<1> SUFFICES ASSUME NEW o \in Obj, NEW f, InOrder(x.wait[o], f) PROVE InOrder(r.wait[o], f)
  BY DEF Thins
<1>1. r.wait[o] = Unlink(x.wait[o], h) /\ x.wait[o] \in Seq(Thread)
  BY DEF WaitsWithout, Kernel
<1> QED BY <1>1, UnlinkInOrder

LEMMA OneWakes ==
    ASSUME NEW x, NEW r, NEW h \in Thread, NEW e, NEW b, Fit(x, b), WokenIn(r, x, h, e, b)
    PROVE  Wakes(r, x, {h}, b)
<1>1. x \in Kernel /\ \A o \in Obj : IsOnce(x.wait[o])
  BY DEF Fit, Sound, SoundBut, Waits
<1>2. r.wait = WaitsWithout(x, h) /\ r.prio = x.prio
  BY DEF WokenIn, Attended, Handled
<1>3. \A o \in Obj : Elems(r.wait[o]) = Elems(x.wait[o]) \ {h}
  BY <1>1, <1>2, WaitsLess
<1>4. Thins(r, x)
  BY <1>1, <1>2, LessThins
<1> QED BY <1>3, <1>4 DEF Wakes, WokenIn

LEMMA ManyWakes ==
    ASSUME NEW x, NEW r, NEW o \in Obj, NEW b, AllWokenIn(r, x, o, b),
           \A q \in Obj \ {o}, u \in Elems(x.wait[o]) : u \notin Elems(x.wait[q])
    PROVE  Wakes(r, x, Elems(x.wait[o]), b)
<1>1. ASSUME NEW q \in Obj PROVE Elems(r.wait[q]) \subseteq Elems(x.wait[q]) \ Elems(x.wait[o])
  <2>1. CASE q = o
    BY <2>1 DEF AllWokenIn, Elems
  <2>2. CASE q # o
    BY <2>2 DEF AllWokenIn
  <2> QED BY <2>1, <2>2
<1>2. ASSUME NEW q \in Obj, NEW f, InOrder(x.wait[q], f) PROVE InOrder(r.wait[q], f)
  <2>1. CASE q = o
    BY <2>1 DEF AllWokenIn, InOrder
  <2>2. CASE q # o
    BY <1>2, <2>2 DEF AllWokenIn
  <2> QED BY <2>1, <2>2
<1> QED BY <1>1, <1>2 DEF AllWokenIn, Wakes, Thins

(* The error field of a thread that waits nowhere is written. *)
ErrorSet(x, t, e) == [x EXCEPT !.err[t] = e]

LEMMA ErrorWakes ==
    ASSUME NEW x, NEW b, Fit(x, b), NEW t \in Thread, NEW e \in Err, x.stat[t] # "suspend"
    PROVE  LET r == ErrorSet(x, t, e)
           IN  Wakes(r, x, {t}, b) /\ r.stat = x.stat /\ r.err[t] = e /\ r.wait = x.wait
<1> DEFINE r == ErrorSet(x, t, e)
<1>1. Sound(x) /\ x \in Kernel /\ CurrentRuns(x) /\ OnTime(x, b, Times) /\ IdleAlive(x)
      /\ Waits(x, {}) /\ x.err \in [Thread -> Err]
  BY DEF Fit, Sound, SoundBut, Kernel
<1>2. /\ r \in Kernel /\ SameSwitch(r, x) /\ SameClock(r, x)
      /\ r.rq = x.rq /\ r.grp = x.grp /\ r.wait = x.wait /\ r.dead = x.dead /\ r.stat = x.stat
      /\ r.prio = x.prio /\ r.act = x.act /\ r.tmr = x.tmr /\ r.bad = x.bad /\ r.lock = x.lock
      /\ r.err = [x.err EXCEPT ![t] = e]
  BY <1>1 DEF Kernel, SameSwitch, SameClock, ErrorSet
<1> HIDE DEF r
<1>3. Sound(r) /\ CurrentRuns(r) /\ IdleAlive(r)
  BY <1>1, <1>2, SameListsFacts DEF Sound, CurrentRuns, SameSwitch, IdleAlive
<1>4. OnTime(r, b, Times)
  BY <1>1, <1>2, OnTimeSame, TimesAreDurations DEF SameClock
<1>5. /\ r.err[t] = e /\ \A u \in Thread \ {t} : r.err[u] = x.err[u]
  BY <1>1, <1>2
<1>6. Attended(r, x, {t})
  BY <1>2, <1>5 DEF Attended, Handled, Undisturbed, SameClock, SameSwitch
<1>7. \A o \in Obj : t \notin Elems(x.wait[o])
  BY <1>1 DEF Waits
<1>8. Thins(r, x)
  BY <1>2 DEF Thins
<1>9. Wakes(r, x, {t}, b)
  BY <1>2, <1>3, <1>4, <1>6, <1>7, <1>8 DEF Wakes, Fit
<1> QED BY <1>2, <1>5, <1>9 DEF r

(* A thread of a higher place in the list has no lower priority.             *)
LEMMA BlockedInTurn ==
    ASSUME NEW x, NEW r, NEW t \in Thread, NEW o \in Obj, NEW n, x \in Kernel,
           BlockedIn(r, x, t, o, n), InTurn(x)
    PROVE  InTurn(r)
<1> SUFFICES ASSUME NEW q \in Obj, Flag[q] = "prio" PROVE InOrder(r.wait[q], r.prio)
  BY DEF InTurn
<1>1. r.prio = x.prio /\ x.prio \in [Thread -> Int] /\ x.wait[q] \in Seq(Thread)
  <2>1. x.prio \in [Thread -> Prio] /\ Prio \subseteq Int
    BY KernelAssumption DEF Kernel, Prio
  <2> QED BY <2>1 DEF BlockedIn, Parked, Attended, Handled, Kernel
<1>2. CASE q # o
  BY <1>1, <1>2 DEF BlockedIn, Parked, InTurn
<1>3. CASE q = o
  <2> DEFINE w == x.wait[o]
  <2>1. PICK i \in 0..Len(w) :
          /\ r.wait[o] = LinkAfter(w, i, t)
          /\ \A j \in 1..i : x.prio[w[j]] <= x.prio[t]
          /\ i < Len(w) => x.prio[t] <= x.prio[w[i + 1]]
    <3>1. PICK i \in 0..Len(w) :
            /\ r.wait[o] = LinkAfter(w, i, t)
            /\ \A j \in 1..i : x.prio[w[j]] <= x.prio[t]
            /\ i < Len(w) => x.prio[t] < x.prio[w[i + 1]]
      BY <1>3 DEF BlockedIn, Parked
    <3>2. i < Len(w) => x.prio[t] <= x.prio[w[i + 1]]
      <4>1. i < Len(w) => w[i + 1] \in Thread
        BY <1>1, <1>3
      <4> HIDE DEF w
      <4> QED BY <3>1, <4>1, <1>1
    <3> QED BY <3>1, <3>2
  <2>2. InOrder(w, x.prio) /\ w \in Seq(Thread)
    BY <1>1, <1>3 DEF InTurn
  <2> HIDE DEF w
  <2>3. InOrder(LinkAfter(w, i, t), x.prio)
    BY <1>1, <2>1, <2>2, LinkAfterInOrder
  <2> QED BY <1>1, <1>3, <2>1, <2>3
<1> QED BY <1>2, <1>3

-----------------------------------------------------------------------------
(* The current thread t goes from a place in its call, or from its own code, *)
(* to another; those in M are served.                                        *)
FrameFits(p, f, t) ==
    /\ p[t] \in InCall <=> f[t].call # "none"
    /\ p[t] \in InCall => t # Idle
    /\ f[t].left \in Times \cup {Forever} /\ f[t].since \in Tick

(* What the caller does to itself. *)
CallerMove(t, w) ==
    /\ pc' = [pc EXCEPT ![t] = w] /\ w \in Onward
    /\ UNCHANGED <<cpu, arg, isr, prog, app>>
    /\ \A u \in Thread \ {t} : frame'[u] = frame[u]
    /\ FrameFits(pc', frame', t) /\ Framed(frame')

LEMMA WaitersCall ==
    ASSUME WaitInv, Patient, NEW o \in Obj, NEW u \in Elems(k.wait[o])
    PROVE  /\ u \in Thread /\ k.stat[u] = "suspend" /\ pc[u] \in {"wait_sched", "woken"}
           /\ frame[u].obj = o /\ frame[u].call # "none" /\ k.err[u] = "ok"
           /\ \A q \in Obj \ {o} : u \notin Elems(k.wait[q])
<1>1. k.wait[o] \in Seq(Thread) /\ Waits(k, {})
  BY NowWaiting DEF Kernel, Fit, Sound, SoundBut
<1>2. u \in Thread /\ k.stat[u] = "suspend"
  BY <1>1, ElemsType DEF Waits
<1>3. CallSound(k, pc, frame, u)
  BY <1>2 DEF WaitInv, CallsSound
<1> QED BY <1>2, <1>3 DEF CallSound, InCall

LEMMA CallerGoes ==
    ASSUME WaitInv, Patient, NEW t \in Thread, NEW c, c \in InCall \cup {"user"}, c # "wait_sched",
           At(t, c), NEW w, CallerMove(t, w), NEW M, Quits(k', k, M, Base(k, isr)),
           (M = {t} /\ k'.stat = k.stat) \/ \A u \in M : \E o \in Obj : u \in Elems(k.wait[o])
    PROVE  WaitInv'
<1>1. /\ cpu = t /\ k.cur = t /\ pc[t] = c /\ k.stat[t] = "running" /\ ~k.flag
  BY CallerRuns DEF About, InCall
<1>2. /\ Fit(k', Base(k, isr)) /\ Handled(k', k, M) /\ k'.cur = t /\ k'.flag = k.flag /\ CurrentRuns(k')
      /\ k'.stat \in [Thread -> Stat]
  BY <1>1 DEF Quits, SameSwitch, Fit, Sound, SoundBut, Kernel
<1>3. SwitchRecord'
  BY <1>1, <1>2 DEF SwitchRecord, CallerMove
<1>4. k'.stat[t] = "running"
  <2>1. CASE t \in M /\ \A u \in M : \E o \in Obj : u \in Elems(k.wait[o])
    <3>1. FALSE
      BY <2>1, <1>1, WaitersCall
    <3> QED BY <3>1
  <2>2. CASE t \notin M
    <3>1. k'.stat[t] # "suspend" /\ k'.stat[t] # "close"
      BY <2>2, <1>1, <1>2 DEF Handled, Undisturbed
    <3> QED BY <3>1, <1>2 DEF CurrentRuns, Stat
  <2>3. CASE k'.stat = k.stat
    BY <2>3, <1>1
  <2> QED BY <2>1, <2>2, <2>3
<1>5. Ruling(k', pc', prog', {})
  BY <1>2, <1>4 DEF Ruling
<1>6. ASSUME NEW u \in M PROVE u \in Thread /\ (pc[u] \in InCall \/ (u = k.cur /\ pc[u] = "user"))
  <2>1. CASE u = t
    BY <2>1, <1>1
  <2>2. CASE u # t
    <3>1. PICK o \in Obj : u \in Elems(k.wait[o])
      BY <2>2
    <3> QED BY <3>1, WaitersCall DEF InCall
  <2> QED BY <2>1, <2>2
<1>7. pc \in [Thread -> Pc] /\ \A u \in Thread : pc'[u] = IF u = t THEN w ELSE pc[u]
  BY NowWaiting DEF CallerMove
<1>8. CallMove(M)
  <2>1. pc' = [u \in Thread |-> pc'[u]]
    BY <1>7 DEF CallerMove
  <2>2. \A u \in Thread : \/ pc'[u] = pc[u]
                          \/ u = k.cur /\ pc[u] \in InCall \cup {"user"} /\ pc'[u] \in Onward
    BY <1>1, <1>7 DEF CallerMove
  <2> QED BY <1>2, <1>3, <1>5, <1>6, <2>1, <2>2 DEF CallMove, CallerMove
<1>9. Going'
  BY <1>8, CallMoveGoes
<1>10. ASSUME NEW u \in Thread PROVE CallSound(k', pc', frame', u)
  <2>1. ASSUME NEW o \in Obj, u \in Elems(k'.wait[o])
        PROVE  u \in Elems(k.wait[o]) /\ u # t /\ Undisturbed(k', k, u)
    <3>1. u \in Elems(k.wait[o]) /\ u \notin M
      BY <2>1 DEF Quits
    <3>2. k.stat[u] = "suspend"
      BY <3>1, WaitersCall
    <3> QED BY <3>1, <3>2, <1>1, <1>2 DEF Handled
  <2>2. CASE u = t
    BY <2>1, <2>2 DEF CallSound, CallerMove, FrameFits
  <2>3. CASE u # t
    <3>1. CallSound(k, pc, frame, u) /\ frame'[u] = frame[u] /\ pc'[u] = pc[u]
      BY <2>3, <1>7 DEF WaitInv, CallsSound, CallerMove
    <3> QED BY <2>1, <3>1, CallKept
  <2> QED BY <2>2, <2>3
<1>11. app' \in Apps /\ Framed(frame')
  BY DEF CallerMove, WaitInv
<1> QED BY <1>9, <1>10, <1>11 DEF WaitInv, Going, CallsSound

LEMMA CallerKeeps ==
    ASSUME WaitInv, Patient, NEW t \in Thread, NEW c, c \in InCall \cup {"user"}, c # "wait_sched",
           At(t, c), NEW w, CallerMove(t, w), NEW M, Wakes(k', k, M, Base(k, isr)),
           (M = {t} /\ k'.stat = k.stat) \/ \A u \in M : \E o \in Obj : u \in Elems(k.wait[o])
    PROVE  WaitInv'
<1>1. Quits(k', k, M, Base(k, isr))
  BY DEF Wakes, Quits, Attended
<1> QED BY <1>1, CallerGoes

(* The caller suspends itself, after it has changed at most priorities and   *)
(* its own error.                                                            *)
SameButPrio(x, y) ==
    /\ Fit(x, y.tick) /\ SameSwitch(x, y) /\ Handled(x, y, {y.cur}) /\ x.wait = y.wait
    /\ x.stat[y.cur] = y.stat[y.cur]

LEMMA ParkGoes ==
    ASSUME WaitInv, Patient, NEW t \in Thread, NEW c \in {"user", "woken", "between"}, At(t, c), t # Idle,
           NEW o \in Obj, NEW n \in Times \cup {Forever}, NEW call, call # "none", NEW v \in Msg,
           NEW x, SameButPrio(x, k), Parked(k', x, t, o, n), Enter(t, call, o, n, v),
           Goto(t, "wait_sched"), UNCHANGED <<cpu, arg, isr, prog, app>>
    PROVE  WaitInv' /\ Handled(k', k, {t})
<1>1. /\ cpu = t /\ k.cur = t /\ pc[t] = c /\ k.stat[t] = "running" /\ ~k.flag /\ isr = "off"
      /\ Base(k, isr) = k.tick /\ Fit(k, k.tick) /\ k \in Kernel
  BY CallerRuns, NowWaiting DEF About, Base
<1>2. /\ \A q \in Obj \ {o} : k'.wait[q] = k.wait[q]
      /\ Elems(k'.wait[o]) = Elems(k.wait[o]) \cup {t}
      /\ k'.stat[t] = "suspend" /\ k'.err[t] = "ok" /\ (k'.act[t] <=> n > 0)
      /\ (n > 0 => k'.tout[t] = (k.tick + n) % TickMod)
  BY DEF Parked, SameButPrio, Handled
<1>3. Handled(k', k, {t}) /\ k'.cur = t /\ k'.flag = k.flag /\ Fit(k', Base(k, isr)) /\ k'.lock = 0
  BY <1>1 DEF Parked, SameButPrio, SameSwitch, Attended, Handled, Undisturbed, WaitInv
<1>4. pc \in [Thread -> Pc] /\ \A u \in Thread : pc'[u] = IF u = t THEN "wait_sched" ELSE pc[u]
  BY NowWaiting DEF Goto
<1>5. CallMove({t})
  <2>1. SwitchRecord' /\ Ruling(k', pc', prog', {})
    BY <1>1, <1>3, <1>4 DEF SwitchRecord, Ruling, About
  <2>2. pc' = [u \in Thread |-> pc'[u]]
    BY <1>4 DEF Goto
  <2>3. c \in InCall \cup {"user"} /\ "wait_sched" \in Onward
    BY DEF InCall, Onward
  <2> QED BY <1>1, <1>3, <1>4, <2>1, <2>2, <2>3 DEF CallMove
<1>6. Going'
  BY <1>5, CallMoveGoes
<1>7. Framed(frame')
  BY EnterFramed DEF WaitInv
<1>8. /\ \A u \in Thread \ {t} : frame'[u] = frame[u]
      /\ frame'[t].call = call /\ frame'[t].obj = o /\ frame'[t].left = n
      /\ frame'[t].since = IF n > 0 THEN k.tick ELSE 0
  BY DEF Enter, WaitInv, Framed
<1>9. ASSUME NEW u \in Thread PROVE CallSound(k', pc', frame', u)
  <2>1. \A q \in Obj : Elems(k'.wait[q]) = IF q = o THEN Elems(k.wait[o]) \cup {t} ELSE Elems(k.wait[q])
    BY <1>2
  <2>2. CASE u = t
    <3>1. \A q \in Obj : t \notin Elems(k.wait[q])
      BY <1>1, WaitersCall
    <3>2. k.tick \in Tick /\ 0 \in Tick
      BY <1>1, KernelAssumption DEF Kernel, Tick
    <3>3. frame'[t].since \in Tick /\ (n > 0 => frame'[t].since = k.tick)
      BY <1>8, <3>2
    <3> QED BY <1>2, <1>4, <1>8, <2>1, <2>2, <3>1, <3>3 DEF CallSound, InCall
  <2>3. CASE u # t
    <3>1. CallSound(k, pc, frame, u) /\ frame'[u] = frame[u] /\ pc'[u] = pc[u]
          /\ Undisturbed(k', k, u)
      BY <2>3, <1>3, <1>4, <1>8 DEF WaitInv, CallsSound, Handled
    <3> QED BY <2>1, <2>3, <3>1, CallKept
  <2> QED BY <2>2, <2>3
<1> QED BY <1>3, <1>6, <1>7, <1>9 DEF WaitInv, Going, CallsSound

LEMMA SameIsButPrio == ASSUME NEW x, Fit(x, x.tick) PROVE SameButPrio(x, x)
BY DEF SameButPrio, SameSwitch, Handled, Undisturbed

LEMMA BlockKeeps ==
    ASSUME WaitInv, Patient, NEW t \in Thread, NEW c \in {"user", "woken", "between"}, At(t, c), t # Idle,
           NEW o \in Obj, NEW n \in Times \cup {Forever}, NEW call, call # "none", NEW v \in Msg,
           k' = Block(k, t, o, n), Enter(t, call, o, n, v), Goto(t, "wait_sched"),
           UNCHANGED <<cpu, arg, isr, prog, app>>
    PROVE  WaitInv' /\ BlockedIn(k', k, t, o, n) /\ (InTurn(k) => InTurn(k'))
<1>1. k.cur = t /\ k.stat[t] = "running" /\ isr = "off" /\ Fit(k, k.tick) /\ k \in Kernel
  BY CallerRuns, NowWaiting DEF About, Base
<1>2. BlockedIn(k', k, t, o, n)
  BY <1>1, BlockServes
<1>3. WaitInv'
  BY <1>1, <1>2, SameIsButPrio, ParkGoes DEF BlockedIn
<1> QED BY <1>1, <1>2, <1>3, BlockedInTurn

(* Having suspended itself, it calls rt_schedule. *)
LEMMA WaitScheduleKeeps ==
    ASSUME WaitInv, Patient, NEW t \in Thread, WaitSchedule(t)
    PROVE  WaitInv' /\ Attended(k', k, {}) /\ k'.wait = k.wait
<1>1. cpu = t /\ k.cur = t /\ pc[t] = "wait_sched" /\ ~k.flag
  BY RunningThread DEF WaitSchedule, WaitInv
<1>2. /\ Fit(k', Base(k, isr)) /\ Attended(k', k, {}) /\ k'.wait = k.wait
      /\ Ruling(k', pc', prog', {})
      /\ IF k'.flag THEN k'.from = t /\ k'.to = k'.cur ELSE t = k'.cur
  <2>1. Fit(k, Base(k, isr)) /\ k' = Schedule(k)
    BY NowWaiting DEF WaitSchedule
  <2> QED BY <1>1, <2>1, ScheduleServes
<1>3. /\ pc \in [Thread -> Pc] /\ \A u \in Thread : pc'[u] = IF u = t THEN "woken" ELSE pc[u]
      /\ UNCHANGED <<cpu, arg, isr, prog, frame, app>>
  BY NowWaiting DEF WaitSchedule, Goto, waitVars
<1>4. CallMove({})
  <2>1. SwitchRecord'
    BY <1>1, <1>2, <1>3 DEF SwitchRecord
  <2>2. pc' = [u \in Thread |-> pc'[u]]
    BY <1>3 DEF WaitSchedule, Goto
  <2> QED BY <1>1, <1>2, <1>3, <2>1, <2>2 DEF CallMove, Attended, InCall, Onward
<1>5. Going'
  BY <1>4, CallMoveGoes
<1>6. ASSUME NEW u \in Thread PROVE CallSound(k', pc', frame', u)
  <2>1. CallSound(k, pc, frame, u) /\ frame' = frame /\ Undisturbed(k', k, u)
    BY <1>2, <1>3 DEF WaitInv, CallsSound, Attended, Handled
  <2>2. pc[u] \in InCall <=> pc'[u] \in InCall
    BY <1>1, <1>3 DEF InCall
  <2>3. pc[u] \in {"wait_sched", "woken"} <=> pc'[u] \in {"wait_sched", "woken"}
    BY <1>1, <1>3
  <2> QED BY <1>2, <2>1, <2>2, <2>3 DEF CallSound, Undisturbed
<1> QED BY <1>2, <1>3, <1>5, <1>6 DEF WaitInv, Going, CallsSound

(* A handler wakes the threads in M and calls rt_schedule. *)
LEMMA HandlerKeeps ==
    ASSUME WaitInv, Patient, NEW x, NEW M, Wakes(x, k, M, Base(k, isr)), k' = Schedule(x),
           \A u \in M : \E o \in Obj : u \in Elems(k.wait[o]),
           UNCHANGED <<cpu, pc, arg, isr, prog, waitVars>>
    PROVE  WaitInv' /\ k'.wait = x.wait /\ Attended(k', x, {})
           /\ Attended(k', k, M)
<1>1. Fit(x, Base(k, isr)) /\ SameSwitch(x, k) /\ Attended(x, k, M)
  BY DEF Wakes
<1>2. /\ Fit(k', Base(k, isr)) /\ Attended(k', x, {}) /\ k'.wait = x.wait
      /\ Ruling(k', pc', prog', {})
      /\ (IF x.flag THEN x.from = cpu /\ x.to = x.cur ELSE cpu = x.cur)
            => (IF k'.flag THEN k'.from = cpu /\ k'.to = k'.cur ELSE cpu = k'.cur)
  BY <1>1, ScheduleServes
<1>3. Attended(k', k, M)
  <2>1. k'.cur \in Thread
    BY <1>2 DEF Fit, Sound, SoundBut, Kernel
  <2>2. Attended(k', k, M \cup {})
    BY <1>1, <1>2, <2>1, AttendedTwice
  <2> QED BY <2>2
<1>4. SwitchRecord'
  BY <1>1, <1>2 DEF WaitInv, IInv, SwitchRecord, SameSwitch
<1>5. CallMove(M)
  <2>1. pc' = [u \in Thread |-> pc'[u]] /\ pc' = pc
    BY NowWaiting
  <2>2. ASSUME NEW u \in M PROVE u \in Thread /\ pc[u] \in InCall
    BY WaitersCall DEF InCall
  <2> QED BY <1>2, <1>3, <1>4, <2>1, <2>2 DEF CallMove, Attended
<1>6. Going'
  BY <1>5, CallMoveGoes
<1>7. ASSUME NEW u \in Thread PROVE CallSound(k', pc', frame', u)
  <2>1. CallSound(k, pc, frame, u) /\ frame' = frame /\ pc' = pc
    BY DEF WaitInv, CallsSound, waitVars
  <2>2. ASSUME NEW o \in Obj, u \in Elems(k'.wait[o])
        PROVE  u \in Elems(k.wait[o]) /\ Undisturbed(k', k, u)
    BY <1>2, <1>3, <2>2 DEF Wakes, Attended, Handled
  <2> QED BY <2>1, <2>2, CallKept
<1> QED BY <1>2, <1>3, <1>6, <1>7 DEF WaitInv, Going, CallsSound, waitVars

-----------------------------------------------------------------------------
(* Threads that come back from waiting.  They have been woken by a call on   *)
(* the object they waited for, and have not run since.                       *)
Ready(x, u) == x.err[u] = "ok" /\ x.stat[u] # "suspend"

Waiters == {"take", "send", "recv", "mutex_take", "event_recv", "mq_recv", "mq_send", "mp_alloc"}
Comes(x, f, u) == f[u].call \in Waiters /\ Ready(x, u)

(* A thread stays what it is, on its way or not. *)
Steady(u) == IF Comes(k, frame, u) THEN Comes(k', frame', u) /\ frame'[u] = frame[u]
                                   ELSE ~Comes(k', frame', u)

(* Those in J are woken, those in L arrive. *)
Traffic(J, L) ==
    /\ J \subseteq Thread /\ J \cap L = {}
    /\ \A u \in Thread \ (J \cup L) : Steady(u)
    /\ \A u \in J : ~Comes(k, frame, u) /\ Comes(k', frame', u) /\ frame'[u] = frame[u]
    /\ \A u \in L : Comes(k, frame, u) /\ ~Comes(k', frame', u)

(* Those on their way back from a call in C on the list o.                   *)
Comers(x, f, C, o) == {u \in Thread : f[u].call \in C /\ f[u].obj = o /\ Ready(x, u)}

LEMMA TrafficMoves ==
    ASSUME NEW J, NEW L, Traffic(J, L), NEW C \in SUBSET Waiters, NEW o
    PROVE  Comers(k', frame', C, o)
              = (Comers(k, frame, C, o) \ L) \cup {u \in J : frame[u].call \in C /\ frame[u].obj = o}
<1> DEFINE A == Comers(k, frame, C, o)
           B == Comers(k', frame', C, o)
           N == {u \in J : frame[u].call \in C /\ frame[u].obj = o}
<1>1. \A u \in A : u \in Thread /\ Comes(k, frame, u)
  BY DEF Comers, Comes
<1>2. \A u \in B : u \in Thread /\ Comes(k', frame', u)
  BY DEF Comers, Comes
<1>3. ASSUME NEW u \in Thread \ (J \cup L) PROVE u \in A <=> u \in B
  BY <1>3 DEF Traffic, Steady, Comers, Comes
<1>4. ASSUME NEW u \in J PROVE u \notin A /\ (u \in B <=> u \in N) /\ u \notin L
  BY <1>1 DEF Traffic, Comers, Comes
<1>5. ASSUME NEW u \in L PROVE u \notin B
  BY <1>2 DEF Traffic
<1>6. B \subseteq (A \ L) \cup N
  BY <1>2, <1>3, <1>4, <1>5
<1>7. (A \ L) \cup N \subseteq B
  BY <1>1, <1>3, <1>4
<1> HIDE DEF A, B, N
<1>8. B = (A \ L) \cup N
  BY <1>6, <1>7
<1> QED BY <1>8 DEF A, B, N

(* Counting them. *)
LEMMA ComersCount ==
    ASSUME NEW x, NEW f, NEW C, NEW o
    PROVE  /\ IsFiniteSet(Comers(x, f, C, o)) /\ Cardinality(Comers(x, f, C, o)) \in Nat
           /\ \A u \in Comers(x, f, C, o) :
                 Cardinality(Comers(x, f, C, o) \ {u}) = Cardinality(Comers(x, f, C, o)) - 1
           /\ \A u : u \notin Comers(x, f, C, o) =>
                 Cardinality(Comers(x, f, C, o) \cup {u}) = Cardinality(Comers(x, f, C, o)) + 1
<1> DEFINE A == Comers(x, f, C, o)
<1>1. A \subseteq Thread
  BY DEF Comers
<1> HIDE DEF A
<1>2. IsFiniteSet(A)
  BY <1>1, WaitAssumption, FS_Subset
<1>3. Cardinality(A) \in Nat
  BY <1>2, FS_CardinalityType
<1>4. ASSUME NEW u \in A PROVE Cardinality(A \ {u}) = Cardinality(A) - 1
  BY <1>2, FS_RemoveElement
<1>5. ASSUME NEW u, u \notin A PROVE Cardinality(A \cup {u}) = Cardinality(A) + 1
  BY <1>2, <1>5, FS_AddElement
<1> QED BY <1>2, <1>3, <1>4, <1>5 DEF A

(* Steps that wake nobody with what it waits for. *)
LEMMA AttendedSteady ==
    ASSUME NEW M, Attended(k', k, M), NEW u \in Thread \ M, frame'[u] = frame[u]
    PROVE  Steady(u)
BY DEF Attended, Handled, Undisturbed, Steady, Comes, Ready

LEMMA EffectSteady ==
    ASSUME WaitInv, Patient, Effect, frame' = frame
    PROVE  /\ Traffic({}, {})
           /\ \A o \in Obj : k'.wait[o] # <<>> => k.wait[o] # <<>>
           /\ Thins(k', k)
<1>1. k \in Kernel /\ \A o \in Obj : IsOnce(k.wait[o]) /\ k.wait[o] \in Seq(Thread)
  BY NowWaiting DEF Fit, Sound, SoundBut, Waits, Kernel
<1>2. ASSUME NEW u \in Thread, pc[u] \in InCall => Undisturbed(k', k, u) PROVE Steady(u)
  <2>1. CASE pc[u] \in InCall
    BY <1>2, <2>1 DEF Undisturbed, Steady, Comes, Ready
  <2>2. CASE pc[u] \notin InCall
    <3>1. frame[u].call = "none"
      BY <2>2 DEF WaitInv, CallsSound, CallSound
    <3> QED BY <3>1 DEF Steady, Comes, Waiters
  <2> QED BY <2>1, <2>2
<1>3. CASE k'.wait = k.wait /\ \A u \in Thread : pc[u] \in InCall => Undisturbed(k', k, u)
  <2>1. Traffic({}, {})
    BY <1>2, <1>3 DEF Traffic
  <2>2. Thins(k', k)
    BY <1>3 DEF Thins
  <2> QED BY <1>3, <2>1, <2>2
<1>4. ASSUME NEW h \in Thread, TimedOut(k', k, pc, h)
      PROVE  /\ Traffic({}, {})
             /\ \A o \in Obj : k'.wait[o] # <<>> => k.wait[o] # <<>>
             /\ Thins(k', k)
  <2>1. Steady(h)
    BY <1>4 DEF TimedOut, Steady, Comes, Ready
  <2>2. \A u \in Thread : Steady(u)
    BY <1>2, <1>4, <2>1 DEF TimedOut
  <2>3. k'.wait = WaitsWithout(k, h)
    BY <1>4 DEF TimedOut
  <2>4. ASSUME NEW o \in Obj, k'.wait[o] # <<>> PROVE k.wait[o] # <<>>
    <3>1. k'.wait[o] = Unlink(k.wait[o], h)
      BY <2>3 DEF WaitsWithout
    <3>2. h \notin Elems(<<>>)
      BY DEF Elems
    <3> QED BY <2>4, <3>1, <3>2, UnlinkAbsent
  <2>5. Thins(k', k)
    BY <1>1, <2>3, LessThins
  <2> QED BY <2>2, <2>4, <2>5 DEF Traffic
<1> QED BY <1>3, <1>4 DEF Effect

(* The head of a list, if there is one. *)
First(x, o) == IF x.wait[o] = <<>> THEN {} ELSE {Head(x.wait[o])}

(* _ipc_list_resume of the threads that wait in o. *)
LEMMA FirstWakes ==
    ASSUME WaitInv, Patient, NEW o \in Obj
    PROVE  LET x == WakeFirst(k, o)
           IN  /\ Wakes(x, k, First(k, o), Base(k, isr))
               /\ \A u \in First(k, o) : u \in Elems(k.wait[o]) /\ Ready(x, u)
               /\ k.wait[o] = <<>> => x = k
<1> DEFINE x == WakeFirst(k, o)
           b == Base(k, isr)
           h == Head(k.wait[o])
<1>1. Fit(k, b) /\ k.wait[o] \in Seq(Thread)
  BY NowWaiting DEF Kernel
<1>2. CASE k.wait[o] = <<>>
  BY <1>1, <1>2, NoneWakes DEF WakeFirst, First
<1>3. CASE k.wait[o] # <<>>
  <2>1. h \in Elems(k.wait[o]) /\ h \in Thread
    BY <1>1, <1>3, HeadElem
  <2>2. k.stat[h] = "suspend" /\ k.err[h] = "ok"
    BY <2>1, WaitersCall
  <2>3. x = Resume(k, h) /\ First(k, o) = {h}
    BY <1>3 DEF WakeFirst, First
  <2> HIDE DEF x, h, b
  <2>4. WokenIn(x, k, h, "ok", b)
    BY <1>1, <2>1, <2>2, <2>3, ResumeServes
  <2>5. Wakes(x, k, {h}, b)
    BY <1>1, <2>1, <2>4, OneWakes
  <2> QED BY <1>3, <2>1, <2>3, <2>4, <2>5 DEF WokenIn, Ready, x, b
<1> QED BY <1>2, <1>3

(* _ipc_list_resume_all, with interrupts disabled. *)
LEMMA AllWakes ==
    ASSUME WaitInv, Patient, NEW o \in Obj, NEW x, NEW M, NEW b, Wakes(x, k, M, b),
           \A u \in Elems(x.wait[o]) : u \in Elems(k.wait[o]) /\ u \notin M
    PROVE  LET r == WakeAll(x, o)
               A == Elems(x.wait[o])
           IN  /\ Wakes(r, k, M \cup A, b) /\ Wakes(r, x, A, b)
               /\ r.wait[o] = <<>>
               /\ \A u \in A : ~Ready(r, u)
<1> DEFINE r == WakeAll(x, o)
           A == Elems(x.wait[o])
<1>1. \A q \in Obj \ {o}, u \in A : u \notin Elems(x.wait[q])
  <2> SUFFICES ASSUME NEW q \in Obj \ {o}, NEW u \in A, u \in Elems(x.wait[q]) PROVE FALSE
    OBVIOUS
  <2>1. u \in Elems(k.wait[o]) /\ u \in Elems(k.wait[q])
    BY DEF Wakes
  <2> QED BY <2>1, WaitersCall
<1>2. AllWokenIn(r, x, o, b)
  BY <1>1, WakeAllServes DEF Wakes
<1> HIDE DEF r
<1>3. Wakes(r, x, A, b)
  BY <1>1, <1>2, ManyWakes
<1>4. Wakes(r, k, M \cup A, b)
  BY <1>3, WakesTwice
<1> QED BY <1>2, <1>3, <1>4 DEF AllWokenIn, Ready, r

(* _ipc_list_resume_all, with interrupts enabled, one turn. *)
LEMMA TurnWakes ==
    ASSUME WaitInv, Patient, NEW o \in Obj, k.wait[o] # <<>>
    PROVE  LET h == Head(k.wait[o])
               r == WakeWithError(k, h)
           IN  Wakes(r, k, {h}, Base(k, isr)) /\ h \in Elems(k.wait[o]) /\ ~Ready(r, h)
<1> DEFINE h == Head(k.wait[o])
           r == WakeWithError(k, h)
           b == Base(k, isr)
<1>1. Fit(k, b) /\ k.wait[o] \in Seq(Thread)
  BY NowWaiting DEF Kernel
<1>2. h \in Elems(k.wait[o]) /\ h \in Thread
  BY <1>1, HeadElem
<1>3. k.stat[h] = "suspend"
  BY <1>2, WaitersCall
<1> HIDE DEF h, b
<1>4. WokenIn(r, k, h, "error", b)
  BY <1>1, <1>2, <1>3, ErrorServes
<1> HIDE DEF r
<1>5. Wakes(r, k, {h}, b)
  BY <1>1, <1>2, <1>4, OneWakes
<1> QED BY <1>2, <1>4, <1>5 DEF WokenIn, Ready, r, b, h

LEMMA WakesLess ==
    ASSUME NEW x, NEW r, NEW M, NEW b, Wakes(r, x, M, b)
    PROVE  \A o \in Obj : r.wait[o] # <<>> => x.wait[o] # <<>>
<1> SUFFICES ASSUME NEW o \in Obj, r.wait[o] # <<>> PROVE x.wait[o] # <<>>
  OBVIOUS
<1>1. r.wait[o] \in Seq(Thread)
  BY DEF Wakes, Fit, Sound, SoundBut, Kernel
<1>2. Elems(r.wait[o]) # {} /\ Elems(r.wait[o]) \subseteq Elems(x.wait[o])
  BY <1>1, EmptyElems DEF Wakes
<1>3. Elems(<<>>) = {}
  BY DEF Elems
<1> QED BY <1>2, <1>3

(* What is left of its time is a time. *)
LEMMA LeftIs ==
    ASSUME WaitInv, Patient, NEW t \in Thread
    PROVE  Left(t) \in Times \cup {Forever}
<1> DEFINE d == Minus(k.tick, frame[t].since)
           l == frame[t].left
<1>1. l \in Times \cup {Forever} /\ frame[t].since \in Tick
  BY DEF WaitInv, CallsSound, CallSound
<1>2. d \in Nat
  <2>1. k.tick \in Tick
    BY NowWaiting DEF Kernel
  <2>2. k.tick \in Int /\ frame[t].since \in Int /\ TickMod \in Nat /\ TickMod > 0
    BY <1>1, <2>1, KernelAssumption DEF Tick
  <2> QED BY <2>2 DEF Minus
<1>3. Half \in Int
  BY KernelAssumption DEF Half
<1>4. Left(t) = IF l <= 0 THEN l ELSE IF d >= l THEN 0 ELSE l - d
  BY DEF Left, LeftOf
<1> HIDE DEF d
<1> QED BY <1>1, <1>2, <1>3, <1>4 DEF Times, Forever

(* What a caller does to its frame. *)
LEMMA LeaveMove ==
    ASSUME WaitInv, NEW t \in Thread, NEW w \in {"user", "sched"}, Leave(t), Goto(t, w),
           UNCHANGED <<cpu, arg, isr, prog, app>>
    PROVE  CallerMove(t, w) /\ pc'[t] = w /\ frame'[t].call = "none"
<1>1. frame' = [frame EXCEPT ![t] = NoCall] /\ pc' = [pc EXCEPT ![t] = w]
      /\ frame = [u \in Thread |-> frame[u]] /\ pc \in [Thread -> Pc]
  BY DEF WaitInv, IInv, Places, Framed, Leave, Goto
<1>2. 0 \in Times /\ 0 \in Tick
  BY HalfIs, KernelAssumption DEF Times, Tick
<1>3. FrameFits(pc', frame', t)
  BY <1>1, <1>2 DEF FrameFits, NoCall, InCall
<1>4. Framed(frame')
  BY LeaveFramed DEF WaitInv
<1> QED BY <1>1, <1>3, <1>4 DEF CallerMove, Onward, NoCall

LEMMA StayMove ==
    ASSUME WaitInv, NEW t \in Thread, NEW w \in Onward, pc[t] \in InCall <=> w \in InCall,
           Goto(t, w), UNCHANGED <<cpu, arg, isr, prog, app, frame>>
    PROVE  CallerMove(t, w) /\ pc'[t] = w
<1>1. pc' = [pc EXCEPT ![t] = w] /\ pc \in [Thread -> Pc]
  BY DEF WaitInv, IInv, Places, Goto
<1>2. FrameFits(pc', frame', t)
  BY <1>1 DEF FrameFits, WaitInv, CallsSound, CallSound
<1> QED BY <1>1, <1>2 DEF CallerMove, WaitInv

LEMMA EnterMove ==
    ASSUME WaitInv, Patient, NEW t \in Thread, NEW w \in InCall, NEW c, Asks(t, c), NEW call, call # "none",
           NEW o, NEW v \in Msg, Enter(t, call, o, NoTime, v), Goto(t, w),
           UNCHANGED <<cpu, arg, isr, prog, app>>
    PROVE  CallerMove(t, w) /\ pc'[t] = w /\ frame'[t].call = call /\ frame'[t].obj = o
<1>1. /\ frame' = [frame EXCEPT ![t] = [call |-> call, obj |-> o, left |-> 0, since |-> 0, msg |-> v]]
      /\ frame = [u \in Thread |-> frame[u]] /\ pc \in [Thread -> Pc] /\ pc' = [pc EXCEPT ![t] = w]
  BY DEF WaitInv, IInv, Places, Framed, Enter, Goto, NoTime
<1>2. 0 \in Times /\ 0 \in Tick
  BY HalfIs, KernelAssumption DEF Times, Tick
<1>3. t # Idle
  BY NowWaiting DEF Asks
<1>4. FrameFits(pc', frame', t)
  BY <1>1, <1>2, <1>3 DEF FrameFits
<1>5. Framed(frame')
  BY EnterFramed DEF WaitInv
<1> QED BY <1>1, <1>4, <1>5 DEF CallerMove, Onward

LEMMA InitWaiting ==
    ASSUME Patient, Init, WaitInit
    PROVE  WaitInv /\ InTurn(k)
<1>1. IInv /\ Timely(Times, {}) /\ k.lock = 0
  BY PatientIsDisciplined, InitInv, InitTimely, TimesAreDurations DEF Init
<1>2. pc = [t \in Thread |-> "user"] /\ frame = [t \in Thread |-> NoCall] /\ app \in Apps
      /\ \A o \in Obj : k.wait[o] = <<>>
  BY DEF Init, WaitInit
<1>3. 0 \in Times /\ 0 \in Tick
  BY HalfIs, KernelAssumption DEF Times, Tick
<1>4. Framed(frame)
  BY <1>2, NoCallFramed DEF Framed, NoCall
<1>5. CallsSound(k, pc, frame) /\ Starting(pc, arg) /\ InTurn(k)
  BY <1>2, <1>3 DEF CallsSound, CallSound, Starting, InTurn, InOrder, NoCall, InCall, Elems
<1> QED BY <1>1, <1>2, <1>4, <1>5 DEF WaitInv

(* The program has stopped when the kernel has lost a list. *)
LEMMA Halted ==
    ASSUME k.bad
    PROVE  /\ \A t, c : ~At(t, c)
           /\ ~Next
           /\ \A t \in Thread : ~WaitStep(t)
<1>1. ASSUME NEW t, NEW c PROVE ~At(t, c)
  BY DEF At, Runs
<1>2. ~Next
  <2>1. ASSUME NEW t \in Thread PROVE ~ThreadStep(t)
    BY <1>1 DEF ThreadStep, Does, Yield, Sleep, CallSchedule, SleepReturn, EnterCritical,
         ExitCritical, SuspendSelf, ResumeCheck, DeleteCheck, ResumeDo, Start, Startup, Exit,
         DeleteRemove, DeleteClose, SetPriority
  <2>2. ~IdleLook /\ ~IdleTake /\ ~PendSV /\ ~Interrupt
    BY <1>1 DEF IdleLook, IdleTake, PendSV, Interrupt, TickInterrupt, TickSchedule, TimerFires,
         TickReturn, DeviceResumes
  <2> QED BY <2>1, <2>2 DEF Next
<1>3. ASSUME NEW t \in Thread PROVE ~WaitStep(t)
  BY <1>1 DEF WaitStep, WaitSchedule, WaitFails, WakeMore, WakeTake
<1> QED BY <1>1, <1>2, <1>3

-----------------------------------------------------------------------------
(* The ring of a mailbox. *)

(* The mails in a ring, oldest first, and where the next one goes. *)
Ring(b) == [i \in 1..b.entry |-> b.pool[(b.out + i - 1) % BoxSize]]
Rounded(b) == b.in = (b.out + b.entry) % BoxSize

(* Offsets wrap around at most once. *)
LEMMA Around ==
    ASSUME NEW o \in Slot, NEW n \in 0..BoxSize
    PROVE  /\ (o + n) % BoxSize \in Slot
           /\ (o + n) % BoxSize = IF o + n < BoxSize THEN o + n ELSE o + n - BoxSize
<1>1. BoxSize \in Nat /\ BoxSize > 0
  BY MailboxAssumption
<1> QED BY <1>1 DEF Slot

LEMMA Before ==
    ASSUME NEW o \in Slot
    PROVE  /\ (o - 1) % BoxSize \in Slot
           /\ (o - 1) % BoxSize = IF o = 0 THEN BoxSize - 1 ELSE o - 1
<1>1. BoxSize \in Nat /\ BoxSize > 0
  BY MailboxAssumption
<1> QED BY <1>1 DEF Slot

LEMMA RingType ==
    ASSUME NEW b \in Mailbox
    PROVE  Ring(b) \in Seq(Msg) /\ Len(Ring(b)) = b.entry
<1>1. b.out \in Slot /\ b.entry \in 0..BoxSize /\ b.pool \in [Slot -> Msg] /\ BoxSize \in Nat
  BY MailboxAssumption DEF Mailbox
<1>2. \A i \in 1..b.entry : b.pool[(b.out + i - 1) % BoxSize] \in Msg
  <2> SUFFICES ASSUME NEW i \in 1..b.entry PROVE (b.out + i - 1) % BoxSize \in Slot
    BY <1>1
  <2>1. i - 1 \in 0..BoxSize /\ b.out + i - 1 = b.out + (i - 1)
    BY <1>1 DEF Slot
  <2> QED BY <2>1, <1>1, Around
<1>3. Ring(b) \in [1..b.entry -> Msg] /\ b.entry \in Nat
  BY <1>1, <1>2 DEF Ring
<1> QED BY <1>3

(* rt_mb_send: the mail is behind the others. *)
LEMMA PutAppends ==
    ASSUME NEW b \in Mailbox, Rounded(b), b.entry < BoxSize, NEW v \in Msg
    PROVE  /\ Put(b, v) \in Mailbox /\ Rounded(Put(b, v))
           /\ Ring(Put(b, v)) = Append(Ring(b), v)
<1> DEFINE r == Put(b, v)
           n == b.entry
           o == b.out
           e == (b.in + 1) % BoxSize
<1>1. o \in Slot /\ b.in \in Slot /\ n \in 0..BoxSize /\ b.pool \in [Slot -> Msg]
      /\ BoxSize \in Nat /\ BoxSize > 0 /\ n < BoxSize /\ b.in = (o + n) % BoxSize
  BY MailboxAssumption DEF Mailbox, Rounded
<1>0. r = [b EXCEPT !.pool = [b.pool EXCEPT ![b.in] = v], !.in = e, !.entry = n + 1]
  BY DEF Put
<1> HIDE DEF r, e
<1>2. r.pool = [b.pool EXCEPT ![b.in] = v] /\ r.in = e /\ r.out = o /\ r.entry = n + 1
  BY <1>0 DEF Mailbox
<1> HIDE DEF n, o
<1>3. n + 1 \in 0..BoxSize /\ 1 \in 0..BoxSize /\ n \in 0..BoxSize
  BY <1>1
<1>4. e \in Slot /\ e = IF b.in + 1 < BoxSize THEN b.in + 1 ELSE b.in + 1 - BoxSize
  BY <1>1, <1>3, Around DEF e
<1>5. b.in = IF o + n < BoxSize THEN o + n ELSE o + n - BoxSize
  BY <1>1, <1>3, Around
<1>6. (o + (n + 1)) % BoxSize = IF o + (n + 1) < BoxSize THEN o + (n + 1) ELSE o + (n + 1) - BoxSize
  BY <1>1, <1>3, Around
<1>7. r \in Mailbox
  BY <1>0, <1>1, <1>3, <1>4 DEF Mailbox
<1>8. Rounded(r)
  <2> DEFINE w == (o + (n + 1)) % BoxSize
  <2>1. w = IF o + (n + 1) < BoxSize THEN o + (n + 1) ELSE o + (n + 1) - BoxSize
    BY <1>6
  <2> HIDE DEF w
  <2>2. e = w
    BY <2>1, <1>1, <1>4, <1>5 DEF Slot
  <2> QED BY <2>2, <1>2 DEF Rounded, w
<1>9. Ring(r) = Append(Ring(b), v)
  <2>1. Ring(r) \in Seq(Msg) /\ Len(Ring(r)) = n + 1 /\ Ring(b) \in Seq(Msg) /\ Len(Ring(b)) = n
    BY <1>2, <1>7, RingType DEF n
  <2>2. ASSUME NEW i \in 1..(n + 1) PROVE Ring(r)[i] = IF i = n + 1 THEN v ELSE Ring(b)[i]
    <3>1. i - 1 \in 0..BoxSize /\ o + i - 1 = o + (i - 1)
      BY <1>1 DEF Slot
    <3>2. (o + i - 1) % BoxSize \in Slot
          /\ (o + i - 1) % BoxSize = IF o + (i - 1) < BoxSize THEN o + (i - 1) ELSE o + (i - 1) - BoxSize
      BY <3>1, <1>1, Around
    <3>3. (o + i - 1) % BoxSize = b.in <=> i = n + 1
      BY <3>2, <1>5, <1>1 DEF Slot
    <3>4. Ring(r)[i] = r.pool[(o + i - 1) % BoxSize]
      BY <1>2 DEF Ring
    <3>5. i # n + 1 => Ring(b)[i] = b.pool[(o + i - 1) % BoxSize]
      BY <1>1 DEF Ring, n, o
    <3> QED BY <3>2, <3>3, <3>4, <3>5, <1>1, <1>2
  <2>3. Append(Ring(b), v) \in Seq(Msg) /\ Len(Append(Ring(b), v)) = n + 1
        /\ \A i \in 1..(n + 1) : Append(Ring(b), v)[i] = IF i = n + 1 THEN v ELSE Ring(b)[i]
    BY <2>1, AppendProperties
  <2> QED BY <2>1, <2>2, <2>3, SeqEqual
<1> QED BY <1>7, <1>8, <1>9 DEF r

(* rt_mb_urgent: the mail is in front of the others. *)
LEMMA PutFirstPrepends ==
    ASSUME NEW b \in Mailbox, Rounded(b), b.entry < BoxSize, NEW v \in Msg
    PROVE  /\ PutFirst(b, v) \in Mailbox /\ Rounded(PutFirst(b, v))
           /\ Ring(PutFirst(b, v)) = <<v>> \o Ring(b)
<1> DEFINE r == PutFirst(b, v)
           n == b.entry
           o == b.out
           f == (o - 1) % BoxSize
<1>1. o \in Slot /\ b.in \in Slot /\ n \in 0..BoxSize /\ b.pool \in [Slot -> Msg]
      /\ BoxSize \in Nat /\ BoxSize > 0 /\ n < BoxSize /\ b.in = (o + n) % BoxSize
  BY MailboxAssumption DEF Mailbox, Rounded
<1>0. r = [b EXCEPT !.pool = [b.pool EXCEPT ![f] = v], !.out = f, !.entry = n + 1]
  BY DEF PutFirst, Mailbox
<1>3. f \in Slot /\ f = IF o = 0 THEN BoxSize - 1 ELSE o - 1
  BY <1>1, Before
<1> HIDE DEF r, f
<1>2. r.pool = [b.pool EXCEPT ![f] = v] /\ r.in = b.in /\ r.out = f /\ r.entry = n + 1
  BY <1>0 DEF Mailbox
<1> HIDE DEF n, o
<1>4. n + 1 \in 0..BoxSize
  BY <1>1
<1>5. r \in Mailbox
  BY <1>0, <1>1, <1>3, <1>4 DEF Mailbox
<1>6. Rounded(r)
  <2> DEFINE w == (f + (n + 1)) % BoxSize
             e == (o + n) % BoxSize
  <2>1. w = IF f + (n + 1) < BoxSize THEN f + (n + 1) ELSE f + (n + 1) - BoxSize
    BY <1>3, <1>4, Around
  <2>2. e = IF o + n < BoxSize THEN o + n ELSE o + n - BoxSize
    BY <1>1, Around
  <2> HIDE DEF w, e
  <2>3. w = e
    BY <2>1, <2>2, <1>1, <1>3 DEF Slot
  <2> QED BY <2>3, <1>1, <1>2 DEF Rounded, w, e
<1>7. Ring(r) = <<v>> \o Ring(b)
  <2>1. Ring(r) \in Seq(Msg) /\ Len(Ring(r)) = n + 1 /\ Ring(b) \in Seq(Msg) /\ Len(Ring(b)) = n
    BY <1>2, <1>5, RingType DEF n
  <2>2. ASSUME NEW i \in 1..(n + 1) PROVE Ring(r)[i] = IF i = 1 THEN v ELSE Ring(b)[i - 1]
    <3>1. i - 1 \in 0..BoxSize /\ f + i - 1 = f + (i - 1) /\ n \in Nat
      BY <1>1, <1>3 DEF Slot
    <3>2. (f + i - 1) % BoxSize \in Slot
          /\ (f + i - 1) % BoxSize = IF f + (i - 1) < BoxSize THEN f + (i - 1) ELSE f + (i - 1) - BoxSize
      BY <3>1, <1>3, Around
    <3>3. (f + i - 1) % BoxSize = f <=> i = 1
      BY <3>1, <3>2, <1>3, <1>1 DEF Slot
    <3>4. Ring(r)[i] = r.pool[(f + i - 1) % BoxSize]
      BY <1>2 DEF Ring
    <3>5. i # 1 => Ring(b)[i - 1] = b.pool[(f + i - 1) % BoxSize]
      <4> SUFFICES ASSUME i # 1 PROVE Ring(b)[i - 1] = b.pool[(f + i - 1) % BoxSize]
        OBVIOUS
      <4>1. i - 1 \in 1..n /\ i - 2 \in 0..BoxSize /\ o + (i - 1) - 1 = o + (i - 2)
        BY <1>1, <3>1 DEF Slot
      <4>2. Ring(b)[i - 1] = b.pool[(o + (i - 1) - 1) % BoxSize]
        BY <4>1 DEF Ring, n, o
      <4>3. (o + (i - 2)) % BoxSize = IF o + (i - 2) < BoxSize THEN o + (i - 2) ELSE o + (i - 2) - BoxSize
        BY <4>1, <1>1, Around
      <4>4. (o + (i - 2)) % BoxSize = (f + i - 1) % BoxSize
        BY <4>3, <3>2, <1>3, <1>1, <4>1 DEF Slot
      <4> QED BY <4>1, <4>2, <4>4
    <3> QED BY <3>2, <3>3, <3>4, <3>5, <1>1, <1>2, <1>3
  <2>3. <<v>> \o Ring(b) \in Seq(Msg) /\ Len(<<v>> \o Ring(b)) = n + 1
        /\ \A i \in 1..(n + 1) : (<<v>> \o Ring(b))[i] = IF i = 1 THEN v ELSE Ring(b)[i - 1]
    BY <2>1, ConcatProperties, <<v>> \in Seq(Msg), Len(<<v>>) = 1
  <2> QED BY <2>1, <2>2, <2>3, SeqEqual
<1> QED BY <1>5, <1>6, <1>7 DEF r

(* rt_mb_recv: the oldest mail is gone. *)
LEMMA GetRemoves ==
    ASSUME NEW b \in Mailbox, Rounded(b), b.entry # 0
    PROVE  /\ Get(b) \in Mailbox /\ Rounded(Get(b))
           /\ Ring(b) # <<>> /\ b.pool[b.out] = Head(Ring(b)) /\ b.pool[b.out] \in Msg
           /\ Ring(Get(b)) = Tail(Ring(b))
<1> DEFINE r == Get(b)
           n == b.entry
           o == b.out
           f == (o + 1) % BoxSize
<1>1. o \in Slot /\ b.in \in Slot /\ n \in 0..BoxSize /\ b.pool \in [Slot -> Msg]
      /\ BoxSize \in Nat /\ BoxSize > 0 /\ n > 0 /\ b.in = (o + n) % BoxSize
  BY MailboxAssumption DEF Mailbox, Rounded
<1>0. r = [b EXCEPT !.out = f, !.entry = n - 1]
  BY DEF Get
<1>3. f \in Slot /\ f = IF o + 1 < BoxSize THEN o + 1 ELSE o + 1 - BoxSize
  BY <1>1, Around
<1> HIDE DEF r, f
<1>2. r.pool = b.pool /\ r.in = b.in /\ r.out = f /\ r.entry = n - 1
  BY <1>0 DEF Mailbox
<1> HIDE DEF n, o
<1>4. n - 1 \in 0..BoxSize
  BY <1>1
<1>5. r \in Mailbox
  BY <1>0, <1>1, <1>3, <1>4 DEF Mailbox
<1>6. Rounded(r)
  <2> DEFINE w == (f + (n - 1)) % BoxSize
             e == (o + n) % BoxSize
  <2>1. w = IF f + (n - 1) < BoxSize THEN f + (n - 1) ELSE f + (n - 1) - BoxSize
    BY <1>3, <1>4, Around
  <2>2. e = IF o + n < BoxSize THEN o + n ELSE o + n - BoxSize
    BY <1>1, Around
  <2> HIDE DEF w, e
  <2>3. w = e
    BY <2>1, <2>2, <1>1, <1>3 DEF Slot
  <2> QED BY <2>3, <1>1, <1>2 DEF Rounded, w, e
<1>7. Ring(r) \in Seq(Msg) /\ Len(Ring(r)) = n - 1 /\ Ring(b) \in Seq(Msg) /\ Len(Ring(b)) = n
  BY <1>2, <1>5, RingType DEF n
<1>8. ASSUME NEW i \in 1..(n - 1) PROVE Ring(r)[i] = Ring(b)[i + 1]
  <2>1. i - 1 \in 0..BoxSize /\ f + i - 1 = f + (i - 1) /\ i \in 0..BoxSize /\ o + (i + 1) - 1 = o + i
        /\ i + 1 \in 1..n
    BY <1>1, <1>3 DEF Slot
  <2>2. (f + (i - 1)) % BoxSize = IF f + (i - 1) < BoxSize THEN f + (i - 1) ELSE f + (i - 1) - BoxSize
    BY <2>1, <1>3, Around
  <2>3. (o + i) % BoxSize = IF o + i < BoxSize THEN o + i ELSE o + i - BoxSize
    BY <2>1, <1>1, Around
  <2>4. (f + (i - 1)) % BoxSize = (o + i) % BoxSize
    BY <2>2, <2>3, <1>1, <1>3 DEF Slot
  <2>5. Ring(r)[i] = b.pool[(f + i - 1) % BoxSize]
    BY <1>2 DEF Ring
  <2>6. Ring(b)[i + 1] = b.pool[(o + (i + 1) - 1) % BoxSize]
    BY <2>1 DEF Ring, n, o
  <2> QED BY <2>1, <2>4, <2>5, <2>6
<1>9. Ring(r) = Tail(Ring(b))
  <2>1. Ring(b) # <<>>
    BY <1>1, <1>7
  <2>2. Tail(Ring(b)) \in Seq(Msg) /\ Len(Tail(Ring(b))) = n - 1
        /\ \A i \in 1..(n - 1) : Tail(Ring(b))[i] = Ring(b)[i + 1]
    BY <2>1, <1>7, HeadTailProperties
  <2> QED BY <1>7, <1>8, <2>2, SeqEqual
<1>10. Ring(b) # <<>> /\ Head(Ring(b)) = b.pool[o] /\ b.pool[o] \in Msg
  <2>1. 1 \in 1..n /\ (o + 1 - 1) = o + 0 /\ 0 \in 0..BoxSize
    BY <1>1 DEF Slot
  <2>2. (o + 0) % BoxSize = o
    BY <2>1, <1>1, Around DEF Slot
  <2>3. Ring(b)[1] = b.pool[(o + 1 - 1) % BoxSize]
    BY <2>1 DEF Ring, n, o
  <2> QED BY <2>1, <2>2, <2>3, <1>1, <1>7
<1> QED BY <1>5, <1>6, <1>9, <1>10 DEF r, o

-----------------------------------------------------------------------------
(* A mailbox is a queue. *)

Accepted == [sent : Msg, urgent : BOOLEAN, got : Msg]

BoxInv ==
    /\ Framed(frame)
    /\ app \in Apps
    /\ mb \in [Box -> Mailbox]
    /\ \A m \in Box : Rounded(mb[m])
    /\ last \in [Box -> Accepted]

(* What a step does to the mailboxes: nothing, or one of four things to one. *)
Posted(m, v)      == /\ mb[m].entry < BoxSize /\ mb' = [mb EXCEPT ![m] = Put(mb[m], v)]
                     /\ last' = [last EXCEPT ![m].sent = v, ![m].urgent = FALSE]
PostedFirst(m, v) == /\ mb[m].entry < BoxSize /\ mb' = [mb EXCEPT ![m] = PutFirst(mb[m], v)]
                     /\ last' = [last EXCEPT ![m].sent = v, ![m].urgent = TRUE]
Fetched(m)        == /\ mb[m].entry # 0 /\ mb' = [mb EXCEPT ![m] = Get(mb[m])]
                     /\ last' = [last EXCEPT ![m].got = mb[m].pool[mb[m].out]]
BoxEmptied(m)        == /\ mb' = [mb EXCEPT ![m].entry = 0, ![m].in = 0, ![m].out = 0]
                     /\ last' = last

BoxMoves == \/ mb' = mb /\ last' = last
            \/ \E m \in Box : \/ \E v \in Msg : Posted(m, v) \/ PostedFirst(m, v)
                              \/ Fetched(m)
                              \/ BoxEmptied(m)

LEMMA InitBoxInv == IpcInit => BoxInv
<1> SUFFICES ASSUME IpcInit PROVE BoxInv
  OBVIOUS
<1>1. Framed(frame) /\ app \in Apps
  BY NoCallFramed DEF IpcInit, WaitInit, Framed, NoCall
<1>2. EmptyBox \in Mailbox /\ Rounded(EmptyBox)
  <2>1. BoxSize \in Nat /\ BoxSize > 0 /\ (0 + 0) % BoxSize = 0
    BY MailboxAssumption
  <2> QED BY <2>1, NoCallFramed DEF EmptyBox, Mailbox, Slot, Rounded
<1>3. mb \in [Box -> Mailbox] /\ \A m \in Box : Rounded(mb[m])
  BY <1>2 DEF IpcInit, BoxInitState
<1>4. last \in [Box -> Accepted]
  BY NoCallFramed DEF IpcInit, BoxInitState, Accepted
<1> QED BY <1>1, <1>3, <1>4 DEF BoxInv

(* Every step leaves frames framed and makes one of the moves. *)
LEMMA StepMoves ==
    ASSUME BoxInv, [IpcNext]_ipcVars
    PROVE  Framed(frame') /\ app' = app /\ BoxMoves
<1> DEFINE Goal == Framed(frame') /\ app' = app /\ BoxMoves
<1>0. Framed(frame) /\ NoCall.msg \in Msg /\ \A t \in Thread : frame[t].msg \in Msg
  BY NoCallFramed DEF BoxInv, Framed
<1>1. app.mails \subseteq Msg
  BY WaitAssumption DEF BoxInv, App
<1>2. ASSUME waitVars' = waitVars, boxVars' = boxVars
      PROVE  Goal
  BY <1>2, <1>0 DEF waitVars, boxVars, BoxMoves
<1>3. ASSUME NEW t \in Thread, WaitStep(t), boxVars' = boxVars
      PROVE  Goal
  <2>1. app' = app /\ mb' = mb /\ last' = last
    BY <1>3 DEF boxVars, WaitStep, WaitSchedule, WaitFails, WakeMore, WakeTake, waitVars
  <2>2. frame' = frame \/ Leave(t)
    BY <1>3 DEF WaitStep, WaitSchedule, WaitFails, WakeMore, WakeTake, waitVars
  <2> QED BY <2>1, <2>2, <1>0, LeaveFramed DEF BoxMoves
<1>4. ASSUME NEW t \in Thread, SemStep(t), boxVars' = boxVars
      PROVE  Goal
  <2>1. mb' = mb /\ last' = last
    BY <1>4 DEF boxVars
  <2>2. ASSUME NEW s \in Sem, TakeUnit(t, s) PROVE Goal
    BY <2>2, <2>1, <1>0 DEF TakeUnit, waitVars, BoxMoves
  <2>3. ASSUME NEW s \in Sem, NEW n \in app.timeouts[t], TakeWait(t, s, n) PROVE Goal
    BY <2>3, <2>1, <1>0, EnterFramed DEF TakeWait, BoxMoves
  <2>4. ASSUME Taken(t) PROVE Goal
    BY <2>4, <2>1, <1>0, LeaveFramed DEF Taken, BoxMoves
  <2>5. ASSUME NEW s \in Sem, Release(t, s) PROVE Goal
    BY <2>5, <2>1, <1>0 DEF Release, waitVars, BoxMoves
  <2>6. ASSUME NEW s \in Sem, NEW n \in SemInit, SemReset(t, s, n) PROVE Goal
    BY <2>6, <2>1, <1>0 DEF SemReset, waitVars, BoxMoves
  <2>7. ASSUME NEW s \in Sem, SemDetach(t, s) PROVE Goal
    BY <2>7, <2>1, <1>0, EnterFramed DEF SemDetach, BoxMoves
  <2>8. ASSUME SemDetached(t) PROVE Goal
    BY <2>8, <2>1, <1>0, LeaveFramed DEF SemDetached, BoxMoves
  <2> QED BY <1>4, <2>2, <2>3, <2>4, <2>5, <2>6, <2>7, <2>8 DEF SemStep
<1>5. ASSUME NEW t \in Thread, NEW m \in Box, NEW v \in Msg, Send(t, m, v) \/ Urgent(t, m, v)
      PROVE  Goal
  <2>1. frame' = frame /\ app' = app
    BY <1>5 DEF Send, Urgent, waitVars
  <2>2. Posted(m, v) \/ PostedFirst(m, v)
    <3>1. mb[m].entry \in 0..BoxSize /\ BoxSize \in Nat
      BY MailboxAssumption DEF BoxInv, Mailbox
    <3> QED BY <3>1, <1>5 DEF Send, Urgent, Post, Full, Posted, PostedFirst
  <2> QED BY <2>1, <2>2, <1>0 DEF BoxMoves
<1>6. ASSUME NEW t \in Thread, NEW m \in Box, NEW v \in Msg, NEW n, SendWait(t, m, v, n)
      PROVE  Goal
  BY <1>6, <1>0, EnterFramed DEF SendWait, boxVars, BoxMoves
<1>7. ASSUME NEW t \in Thread, NEW m \in Box, SendAgain(t, m)
      PROVE  Goal
  <2>1. app' = app
    BY <1>7 DEF SendAgain
  <2>2. CASE ~Full(m)
    <3>1. mb[m].entry \in 0..BoxSize /\ BoxSize \in Nat
      BY MailboxAssumption DEF BoxInv, Mailbox
    <3>2. Posted(m, frame[t].msg) /\ Leave(t)
      BY <3>1, <2>2, <1>7 DEF SendAgain, Post, Full, Posted
    <3> QED BY <3>2, <2>1, <1>0, LeaveFramed DEF BoxMoves
  <2>3. CASE Full(m)
    <3>1. mb' = mb /\ last' = last
      BY <2>3, <1>7 DEF SendAgain
    <3>2. Leave(t) \/ Enter(t, "send", Senders[m], Left(t), frame[t].msg)
      BY <2>3, <1>7 DEF SendAgain
    <3> QED BY <3>1, <3>2, <2>1, <1>0, LeaveFramed, EnterFramed DEF BoxMoves
  <2> QED BY <2>2, <2>3
<1>8. ASSUME NEW t \in Thread, NEW m \in Box, Recv(t, m)
      PROVE  Goal
  BY <1>8, <1>0 DEF Recv, Fetch, Empty, Fetched, waitVars, BoxMoves
<1>9. ASSUME NEW t \in Thread, NEW m \in Box, NEW n, RecvWait(t, m, n)
      PROVE  Goal
  BY <1>9, <1>0, EnterFramed DEF RecvWait, boxVars, BoxMoves
<1>10. ASSUME NEW t \in Thread, NEW m \in Box, RecvAgain(t, m)
      PROVE  Goal
  <2>1. app' = app
    BY <1>10 DEF RecvAgain
  <2>2. CASE ~Empty(m)
    <3>1. Fetched(m) /\ Leave(t)
      BY <2>2, <1>10 DEF RecvAgain, Fetch, Empty, Fetched
    <3> QED BY <3>1, <2>1, <1>0, LeaveFramed DEF BoxMoves
  <2>3. CASE Empty(m)
    <3>1. mb' = mb /\ last' = last
      BY <2>3, <1>10 DEF RecvAgain
    <3>2. Leave(t) \/ Enter(t, "recv", m, Left(t), NoCall.msg)
      BY <2>3, <1>10 DEF RecvAgain
    <3> QED BY <3>1, <3>2, <2>1, <1>0, LeaveFramed, EnterFramed DEF BoxMoves
  <2> QED BY <2>2, <2>3
<1>11. ASSUME NEW t \in Thread, NEW m \in Box, BoxReset(t, m)
      PROVE  Goal
  BY <1>11, <1>0 DEF BoxReset, BoxEmptied, waitVars, BoxMoves
<1>12. ASSUME NEW t \in Thread, NEW m \in Box, BoxDetach(t, m)
      PROVE  Goal
  BY <1>12, <1>0, EnterFramed DEF BoxDetach, BoxMoves
<1>13. ASSUME NEW t \in Thread, NEW m \in Box, BoxDetached(t, m)
      PROVE  Goal
  <2>1. app' = app /\ mb' = mb /\ last' = last
    BY <1>13 DEF BoxDetached, boxVars
  <2>2. Leave(t) \/ frame' = [frame EXCEPT ![t].obj = Senders[m]]
    BY <1>13 DEF BoxDetached
  <2> QED BY <2>1, <2>2, <1>0, LeaveFramed, TurnFramed DEF BoxMoves
<1>14. ASSUME NEW s \in Sem, DeviceRelease(s), boxVars' = boxVars
      PROVE  Goal
  BY <1>14, <1>0 DEF DeviceRelease, boxVars, waitVars, BoxMoves
<1>15. ASSUME NEW m \in Box, NEW v \in Msg, DeviceSend(m, v)
      PROVE  Goal
  <2>1. mb[m].entry \in 0..BoxSize /\ BoxSize \in Nat
    BY MailboxAssumption DEF BoxInv, Mailbox
  <2>2. Posted(m, v) /\ frame' = frame /\ app' = app
    BY <2>1, <1>15 DEF DeviceSend, Full, Posted, waitVars
  <2> QED BY <2>2, <1>0 DEF BoxMoves
<1>16. ASSUME NEW t \in Thread, BoxStep(t) PROVE Goal
  BY <1>16, <1>1, <1>5, <1>6, <1>7, <1>8, <1>9, <1>10, <1>11, <1>12, <1>13 DEF BoxStep
<1>17. CASE UNCHANGED ipcVars
  BY <1>17, <1>2 DEF ipcVars
<1>18. CASE DeviceStep
  BY <1>18, <1>1, <1>14, <1>15 DEF DeviceStep
<1> QED BY <1>2, <1>3, <1>4, <1>16, <1>17, <1>18 DEF IpcNext

(* Each move keeps the ring a ring and is a step of the queue. *)
LEMMA MovesRefine ==
    ASSUME BoxInv, BoxMoves
    PROVE  /\ mb' \in [Box -> Mailbox] /\ \A m \in Box : Rounded(mb'[m])
           /\ last' \in [Box -> Accepted]
           /\ [Queue!Next]_<<[m \in Box |-> Mails(m)], last>>
<1> DEFINE Goal == /\ mb' \in [Box -> Mailbox] /\ \A m \in Box : Rounded(mb'[m])
                   /\ last' \in [Box -> Accepted]
                   /\ [Queue!Next]_<<[m \in Box |-> Mails(m)], last>>
           Q == [m \in Box |-> Ring(mb[m])]
<1>1. /\ mb \in [Box -> Mailbox] /\ last \in [Box -> Accepted]
      /\ \A m \in Box : Rounded(mb[m])
  BY DEF BoxInv
<1>2. /\ [m \in Box |-> Mails(m)] = Q
      /\ [m \in Box |-> Mails(m)]' = [m \in Box |-> Ring(mb'[m])]
  BY DEF Mails, Ring
<1>3. \A m \in Box : Q[m] \in Seq(Msg) /\ Len(Q[m]) = mb[m].entry
  BY <1>1, RingType
<1>4. ASSUME mb' = mb, last' = last PROVE Goal
  BY <1>4, <1>1, <1>2
<1>5. ASSUME NEW m \in Box, NEW b \in Mailbox, Rounded(b), mb' = [mb EXCEPT ![m] = b]
      PROVE  /\ mb' \in [Box -> Mailbox] /\ \A l \in Box : Rounded(mb'[l])
             /\ [l \in Box |-> Ring(mb'[l])] = [Q EXCEPT ![m] = Ring(b)]
  BY <1>5, <1>1
<1>6. ASSUME NEW m \in Box, NEW v \in Msg, Posted(m, v) PROVE Goal
  <2>1. Put(mb[m], v) \in Mailbox /\ Rounded(Put(mb[m], v))
        /\ Ring(Put(mb[m], v)) = Append(Q[m], v)
    BY <1>1, <1>6, PutAppends DEF Posted
  <2>2. /\ mb' \in [Box -> Mailbox] /\ \A l \in Box : Rounded(mb'[l])
        /\ [l \in Box |-> Ring(mb'[l])] = [Q EXCEPT ![m] = Append(Q[m], v)]
    BY <2>1, <1>5, <1>6 DEF Posted
  <2>3. last' \in [Box -> Accepted]
    BY <1>1, <1>6 DEF Posted, Accepted
  <2>4. Queue!Accept(m, v)
    BY <2>2, <1>2, <1>3, <1>6 DEF Queue!Accept, Posted
  <2> QED BY <2>2, <2>3, <2>4 DEF Queue!Next
<1>7. ASSUME NEW m \in Box, NEW v \in Msg, PostedFirst(m, v) PROVE Goal
  <2>1. PutFirst(mb[m], v) \in Mailbox /\ Rounded(PutFirst(mb[m], v))
        /\ Ring(PutFirst(mb[m], v)) = <<v>> \o Q[m]
    BY <1>1, <1>7, PutFirstPrepends DEF PostedFirst
  <2>2. /\ mb' \in [Box -> Mailbox] /\ \A l \in Box : Rounded(mb'[l])
        /\ [l \in Box |-> Ring(mb'[l])] = [Q EXCEPT ![m] = <<v>> \o Q[m]]
    BY <2>1, <1>5, <1>7 DEF PostedFirst
  <2>3. last' \in [Box -> Accepted]
    BY <1>1, <1>7 DEF PostedFirst, Accepted
  <2>4. Queue!AcceptUrgent(m, v)
    BY <2>2, <1>2, <1>3, <1>7 DEF Queue!AcceptUrgent, PostedFirst
  <2> QED BY <2>2, <2>3, <2>4 DEF Queue!Next
<1>8. ASSUME NEW m \in Box, Fetched(m) PROVE Goal
  <2>1. /\ Get(mb[m]) \in Mailbox /\ Rounded(Get(mb[m]))
        /\ Q[m] # <<>> /\ mb[m].pool[mb[m].out] = Head(Q[m]) /\ mb[m].pool[mb[m].out] \in Msg
        /\ Ring(Get(mb[m])) = Tail(Q[m])
    BY <1>1, <1>8, GetRemoves DEF Fetched
  <2>2. /\ mb' \in [Box -> Mailbox] /\ \A l \in Box : Rounded(mb'[l])
        /\ [l \in Box |-> Ring(mb'[l])] = [Q EXCEPT ![m] = Tail(Q[m])]
    BY <2>1, <1>5, <1>8 DEF Fetched
  <2>3. last' \in [Box -> Accepted]
    BY <2>1, <1>1, <1>8 DEF Fetched, Accepted
  <2>4. Queue!Deliver(m)
    BY <2>1, <2>2, <1>2, <1>8 DEF Queue!Deliver, Fetched
  <2> QED BY <2>2, <2>3, <2>4 DEF Queue!Next
<1>9. ASSUME NEW m \in Box, BoxEmptied(m) PROVE Goal
  <2> DEFINE b == [mb[m] EXCEPT !.entry = 0, !.in = 0, !.out = 0]
  <2>1. BoxSize \in Nat /\ BoxSize > 0 /\ (0 + 0) % BoxSize = 0
    BY MailboxAssumption
  <2>2. b \in Mailbox /\ b.entry = 0 /\ b.in = 0 /\ b.out = 0
    <3>1. 0 \in Slot /\ 0 \in 0..BoxSize
      BY <2>1 DEF Slot
    <3>2. mb[m] \in Mailbox
      BY <1>1
    <3> QED BY <3>1, <3>2 DEF Mailbox
  <2>3. mb' = [mb EXCEPT ![m] = b]
    BY <1>9, <1>1 DEF BoxEmptied
  <2> HIDE DEF b
  <2>4. Rounded(b) /\ Ring(b) = <<>>
    <3>1. Ring(b) \in Seq(Msg) /\ Len(Ring(b)) = 0
      BY <2>2, RingType
    <3> QED BY <3>1, <2>1, <2>2 DEF Rounded
  <2>5. /\ mb' \in [Box -> Mailbox] /\ \A l \in Box : Rounded(mb'[l])
        /\ [l \in Box |-> Ring(mb'[l])] = [Q EXCEPT ![m] = <<>>]
    BY <2>2, <2>3, <2>4, <1>5
  <2>6. last' = last
    BY <1>9 DEF BoxEmptied
  <2>7. Queue!Clear(m)
    BY <2>5, <2>6, <1>2 DEF Queue!Clear
  <2> QED BY <2>5, <2>6, <2>7, <1>1 DEF Queue!Next
<1> QED BY <1>4, <1>6, <1>7, <1>8, <1>9 DEF BoxMoves

LEMMA BoxStays ==
    ASSUME BoxInv, [IpcNext]_ipcVars
    PROVE  BoxInv'
<1>1. Framed(frame') /\ app' = app /\ BoxMoves
  BY StepMoves
<1> QED BY <1>1, MovesRefine DEF BoxInv

(* The mailboxes of the detailed model, whose threads are woken, overtaken,  *)
(* timed out and interrupted, are queues: mails are handed out in the order  *)
(* in which they were accepted, urgent ones first, none lost and none twice. *)
THEOREM MailboxesAreQueues == IpcSpec => MailboxIsQueue
<1>1. IpcInit => Queue!Init
  <2> SUFFICES ASSUME IpcInit PROVE Queue!Init
    OBVIOUS
  <2>1. BoxInv /\ \A m \in Box : mb[m] = EmptyBox
    BY InitBoxInv DEF IpcInit, BoxInitState
  <2>2. \A m \in Box : Mails(m) = <<>>
    <3> SUFFICES ASSUME NEW m \in Box PROVE Mails(m) = <<>>
      OBVIOUS
    <3>1. Ring(mb[m]) \in Seq(Msg) /\ Len(Ring(mb[m])) = 0
      BY <2>1, RingType DEF BoxInv, EmptyBox
    <3>2. Mails(m) = Ring(mb[m])
      BY DEF Ring, Mails
    <3> QED BY <3>1, <3>2
  <2> QED BY <2>1, <2>2 DEF Queue!Init, BoxInv, Accepted
<1>2. BoxInv /\ [IpcNext]_ipcVars => BoxInv'
  BY BoxStays
<1>3. BoxInv /\ [IpcNext]_ipcVars => [Queue!Next]_<<[m \in Box |-> Mails(m)], last>>
  BY StepMoves, MovesRefine
<1> QED BY <1>1, <1>2, <1>3, InitBoxInv, PTL DEF IpcSpec, MailboxIsQueue, Queue!Spec

-----------------------------------------------------------------------------
(* Threads in calls of this module. *)
SenderLists == {Senders[m] : m \in Box}

(* The call of a thread and its object go together. *)
FitsAt(p, f, t) ==
    /\ p[t] \in {"wait_sched", "woken"} =>
          \/ f[t].call = "take" /\ f[t].obj \in Sem
          \/ f[t].call = "recv" /\ f[t].obj \in Box
          \/ f[t].call = "send" /\ f[t].obj \in SenderLists
    /\ p[t] \in {"wake_test", "wake_take"} =>
          \/ f[t].call = "sem_detach" /\ f[t].obj \in Sem
          \/ f[t].call = "mb_detach" /\ f[t].obj \in Box \cup SenderLists
    /\ p[t] # "between"

Fits == \A t \in Thread : FitsAt(pc, frame, t)

CallInv == WaitInv /\ Fits /\ (prog.prio = {} => InTurn(k))

(* A thread that wakes all those in a list finds, after its test, that it has *)
(* been emptied: it takes the head of the list for a thread.                 *)
Breaks == \E t \in Thread : /\ pc[t] = "wake_take" /\ pc' = [pc EXCEPT ![t] = "wake_test"]
                             /\ k' = [k EXCEPT !.bad = TRUE] /\ frame' = frame

(* A step after which those in J are on their way and those in L have        *)
(* arrived, and no list but those in X holds its first thread.               *)
Turns(J, L, X) ==
    /\ Breaks \/ CallInv'
    /\ Traffic(J, L)
    /\ \A o \in Obj \ X : k'.wait[o] # <<>> => k.wait[o] # <<>>

LEMMA ListsApart ==
    /\ Sem \subseteq Obj /\ Box \subseteq Obj /\ SenderLists \subseteq Obj
    /\ Sem \cap Box = {} /\ Sem \cap SenderLists = {} /\ Box \cap SenderLists = {}
    /\ \A m \in Box : Senders[m] \in SenderLists
BY SemAssumption, MailboxAssumption, IpcAssumption DEF SenderLists

LEMMA WaiterCalls ==
    ASSUME CallInv, Patient, NEW o \in Obj, NEW u \in Elems(k.wait[o])
    PROVE  /\ u \in Thread /\ frame[u].call \in Waiters /\ frame[u].obj = o /\ ~Ready(k, u)
           /\ o \in Sem => frame[u].call = "take"
           /\ o \in Box => frame[u].call = "recv"
           /\ o \in SenderLists => frame[u].call = "send"
<1>1. u \in Thread /\ k.stat[u] = "suspend" /\ pc[u] \in {"wait_sched", "woken"} /\ frame[u].obj = o
  BY WaitersCall DEF CallInv
<1>2. FitsAt(pc, frame, u)
  BY <1>1 DEF CallInv, Fits
<1> QED BY <1>1, <1>2, ListsApart DEF FitsAt, Waiters, Ready

(* A step of the running thread that wakes those in M. *)
LEMMA CallerStep ==
    ASSUME CallInv, Patient, NEW t \in Thread, NEW c, c \in InCall \cup {"user"}, c # "wait_sched",
           At(t, c), NEW w, CallerMove(t, w), FitsAt(pc', frame', t),
           NEW M, Wakes(k', k, M, Base(k, isr)),
           (M = {t} /\ k'.stat = k.stat) \/ \A u \in M : \E o \in Obj : u \in Elems(k.wait[o]),
           NEW J \in SUBSET (M \ {t}),
           \A u \in J : Ready(k', u), \A u \in M \ (J \cup {t}) : ~Ready(k', u),
           NEW L, L \in {{}, {t}},
           IF L = {} THEN Steady(t) ELSE Comes(k, frame, t) /\ ~Comes(k', frame', t)
    PROVE  Turns(J, L, {})
<1>1. WaitInv'
  BY CallerKeeps DEF CallInv
<1>2. Fits'
  <2> SUFFICES ASSUME NEW u \in Thread, u # t PROVE FitsAt(pc', frame', u)
    BY DEF Fits
  <2>1. FitsAt(pc, frame, u) /\ frame'[u] = frame[u] /\ pc'[u] = pc[u]
    BY NowWaiting DEF CallInv, Fits, CallerMove
  <2> QED BY <2>1 DEF FitsAt
<1>3. (prog.prio = {} => InTurn(k))'
  BY ThinsInTurn DEF CallInv, CallerMove, Wakes, Attended
<1>4. ASSUME NEW u \in M, u # t
      PROVE  u \in Thread /\ frame[u].call \in Waiters /\ ~Ready(k, u) /\ frame'[u] = frame[u]
  <2>1. PICK o \in Obj : u \in Elems(k.wait[o])
    BY <1>4
  <2> QED BY <2>1, <1>4, WaiterCalls DEF CallerMove
<1>5. ASSUME NEW u \in Thread, u # t, u \notin J PROVE Steady(u)
  <2>1. CASE u \in M
    BY <1>4, <1>5, <2>1 DEF Steady, Comes
  <2>2. CASE u \notin M
    <3>1. frame'[u] = frame[u] /\ Attended(k', k, M)
      BY <1>5 DEF CallerMove, Wakes
    <3> QED BY <3>1, <2>2, AttendedSteady
  <2> QED BY <2>1, <2>2
<1>6. ASSUME NEW u \in J
      PROVE  u \in Thread /\ ~Comes(k, frame, u) /\ Comes(k', frame', u) /\ frame'[u] = frame[u]
  BY <1>4 DEF Comes
<1>7. t \in L \/ Steady(t)
  OBVIOUS
<1>8. Traffic(J, L)
  BY <1>5, <1>6, <1>7 DEF Traffic
<1>9. \A o \in Obj : k'.wait[o] # <<>> => k.wait[o] # <<>>
  BY WakesLess
<1> QED BY <1>1, <1>2, <1>3, <1>8, <1>9 DEF Turns, CallInv

(* A step of it that wakes nobody and changes nothing in the kernel. *)
LEMMA QuietStep ==
    ASSUME CallInv, Patient, NEW t \in Thread, NEW c, c \in InCall \cup {"user"}, c # "wait_sched",
           At(t, c), NEW w, CallerMove(t, w), FitsAt(pc', frame', t), k' = k,
           NEW L, L \in {{}, {t}},
           IF L = {} THEN Steady(t) ELSE Comes(k, frame, t) /\ ~Comes(k', frame', t)
    PROVE  Turns({}, L, {})
<1>1. Wakes(k', k, {}, Base(k, isr))
  BY NowWaiting, NoneWakes DEF CallInv
<1> QED BY <1>1, CallerStep

(* A step of it that wakes the first thread of a list. *)
LEMMA WakingStep ==
    ASSUME CallInv, Patient, NEW t \in Thread, NEW c, c \in InCall \cup {"user"}, c # "wait_sched",
           At(t, c), NEW w, CallerMove(t, w), FitsAt(pc', frame', t),
           NEW o \in Obj, k' = WakeFirst(k, o),
           NEW L, L \in {{}, {t}},
           IF L = {} THEN Steady(t) ELSE Comes(k, frame, t) /\ ~Comes(k', frame', t)
    PROVE  Turns(First(k, o), L, {})
<1>1. /\ Wakes(k', k, First(k, o), Base(k, isr))
      /\ \A u \in First(k, o) : u \in Elems(k.wait[o]) /\ Ready(k', u)
  BY FirstWakes DEF CallInv
<1>2. t \notin First(k, o)
  <2>1. k.stat[t] = "running"
    BY CallerRuns DEF CallInv, About, InCall
  <2> QED BY <1>1, <2>1, WaitersCall DEF CallInv
<1>3. First(k, o) \in SUBSET (First(k, o) \ {t})
  BY <1>2
<1>4. \A u \in First(k, o) \ (First(k, o) \cup {t}) : ~Ready(k', u)
  OBVIOUS
<1> QED BY <1>1, <1>3, <1>4, CallerStep

(* The caller suspends itself in the list o. *)
LEMMA BlockStep ==
    ASSUME CallInv, Patient, NEW t \in Thread, NEW c \in {"user", "woken"}, At(t, c), t # Idle,
           NEW o \in Obj, NEW n \in Times \cup {Forever}, NEW call, NEW v \in Msg,
           k' = Block(k, t, o, n), Enter(t, call, o, n, v), Goto(t, "wait_sched"),
           UNCHANGED <<cpu, arg, isr, prog, app>>,
           \/ call = "take" /\ o \in Sem
           \/ call = "recv" /\ o \in Box
           \/ call = "send" /\ o \in SenderLists
    PROVE  Turns({}, {u \in {t} : Comes(k, frame, u)}, {o})
<1>1. WaitInv' /\ BlockedIn(k', k, t, o, n) /\ (InTurn(k) => InTurn(k'))
  BY BlockKeeps DEF CallInv
<1>2. /\ pc \in [Thread -> Pc] /\ \A u \in Thread : pc'[u] = IF u = t THEN "wait_sched" ELSE pc[u]
      /\ \A u \in Thread \ {t} : frame'[u] = frame[u]
      /\ frame'[t].call = call /\ frame'[t].obj = o
  BY NowWaiting DEF Goto, Enter, CallInv, WaitInv, Framed
<1>3. Fits'
  <2> SUFFICES ASSUME NEW u \in Thread PROVE FitsAt(pc', frame', u)
    BY DEF Fits
  <2>1. CASE u = t
    BY <1>2, <2>1 DEF FitsAt
  <2>2. CASE u # t
    BY <1>2, <2>2 DEF FitsAt, CallInv, Fits
  <2> QED BY <2>1, <2>2
<1>4. ~Ready(k', t) /\ Attended(k', k, {t}) /\ \A q \in Obj \ {o} : k'.wait[q] = k.wait[q]
  BY <1>1 DEF BlockedIn, Parked, Ready
<1>5. \A u \in Thread \ {t} : Steady(u)
  BY <1>2, <1>4, AttendedSteady
<1>6. ~Comes(k', frame', t)
  BY <1>4 DEF Comes
<1>7. Traffic({}, {u \in {t} : Comes(k, frame, u)})
  BY <1>5, <1>6 DEF Traffic, Steady
<1> QED BY <1>1, <1>3, <1>4, <1>7 DEF Turns, CallInv

LEMMA WaitTurns ==
    ASSUME CallInv, Patient, NEW t \in Thread, WaitStep(t)
    PROVE  Turns({}, {}, {})
<1>0. WaitInv /\ pc \in [Thread -> Pc] /\ k \in Kernel /\ FitsAt(pc, frame, t)
  BY NowWaiting DEF CallInv, Fits
<1>1. CASE WaitSchedule(t)
  <2>1. WaitInv' /\ Attended(k', k, {}) /\ k'.wait = k.wait
    BY <1>0, <1>1, WaitScheduleKeeps
  <2>2. /\ \A u \in Thread : pc'[u] = IF u = t THEN "woken" ELSE pc[u]
        /\ pc[t] = "wait_sched" /\ frame' = frame /\ prog' = prog
    BY <1>0, <1>1 DEF WaitSchedule, At, Goto, waitVars
  <2>3. Fits'
    <3> SUFFICES ASSUME NEW u \in Thread PROVE FitsAt(pc', frame', u)
      BY DEF Fits
    <3>1. FitsAt(pc, frame, u)
      BY DEF CallInv, Fits
    <3> QED BY <2>2, <3>1 DEF FitsAt
  <2>4. Traffic({}, {})
    BY <2>1, <2>2, AttendedSteady DEF Traffic
  <2>5. (prog.prio = {} => InTurn(k))'
    BY <2>1, <2>2 DEF CallInv, InTurn, Attended, Handled
  <2> QED BY <2>1, <2>3, <2>4, <2>5 DEF Turns, CallInv
<1>2. CASE WaitFails(t)
  <2>1. CallerMove(t, "user") /\ pc'[t] = "user" /\ frame'[t].call = "none"
    BY <1>0, <1>2, LeaveMove DEF WaitFails
  <2>2. Steady(t) /\ FitsAt(pc', frame', t) /\ At(t, "woken") /\ k' = k
    BY <1>2, <2>1 DEF WaitFails, Steady, Comes, Ready, Waiters, FitsAt
  <2>3. Turns({}, {}, {})
    <3>1. "woken" \in InCall \cup {"user"} /\ "woken" # "wait_sched"
      BY DEF InCall
    <3> QED BY <2>1, <2>2, <3>1, QuietStep
  <2> QED BY <2>3
<1>3. CASE WakeMore(t)
  <2>1. At(t, "wake_test") /\ Goto(t, "wake_take") /\ k' = k /\ frame' = frame /\ pc[t] = "wake_test"
        /\ UNCHANGED <<cpu, arg, isr, prog, app, frame>>
    BY <1>3 DEF WakeMore, At, waitVars
  <2>2. "wake_take" \in Onward /\ "wake_take" \in InCall /\ "wake_test" \in InCall
    BY DEF InCall, Onward
  <2>3. CallerMove(t, "wake_take") /\ pc'[t] = "wake_take"
    BY <1>0, <2>1, <2>2, StayMove
  <2>4. Steady(t) /\ FitsAt(pc', frame', t)
    BY <1>0, <2>1, <2>3 DEF Steady, FitsAt
  <2> QED BY <2>1, <2>2, <2>3, <2>4, QuietStep
<1>4. CASE WakeTake(t)
  <2> DEFINE o == frame[t].obj
  <2>1. /\ At(t, "wake_take") /\ Goto(t, "wake_test") /\ frame' = frame /\ pc[t] = "wake_take"
        /\ UNCHANGED <<cpu, arg, isr, prog, app, frame>>
    BY <1>4 DEF WakeTake, At, waitVars
  <2>2. "wake_test" \in Onward /\ "wake_take" \in InCall /\ "wake_test" \in InCall
    BY DEF InCall, Onward
  <2>3. CallerMove(t, "wake_test") /\ pc'[t] = "wake_test"
    BY <1>0, <2>1, <2>2, StayMove
  <2>4. FitsAt(pc', frame', t) /\ o \in Obj /\ frame[t].call \notin Waiters
    BY <1>0, <2>1, <2>3, ListsApart DEF FitsAt, Waiters
  <2>5. Steady(t)
    BY <2>1, <2>4 DEF Steady, Comes
  <2>6. CASE k.wait[o] # <<>>
    <3> DEFINE h == Head(k.wait[o])
    <3>1. k' = WakeWithError(k, h)
      BY <1>4, <2>6 DEF WakeTake
    <3>2. Wakes(k', k, {h}, Base(k, isr)) /\ h \in Elems(k.wait[o]) /\ ~Ready(k', h)
      BY <1>0, <2>4, <2>6, <3>1, TurnWakes
    <3> HIDE DEF h, o
    <3> DEFINE M == {h}
               J == {}
    <3>3. /\ Wakes(k', k, M, Base(k, isr)) /\ \A u \in M : \E q \in Obj : u \in Elems(k.wait[q])
          /\ J \in SUBSET (M \ {t}) /\ \A u \in J : Ready(k', u)
          /\ \A u \in M \ (J \cup {t}) : ~Ready(k', u)
      BY <2>4, <3>2
    <3> HIDE DEF M, J
    <3>4. Turns(J, {}, {})
      BY <2>1, <2>2, <2>3, <2>4, <2>5, <3>3, CallerStep
    <3> QED BY <3>4 DEF J
  <2>7. CASE k.wait[o] = <<>>
    <3>1. k' = [k EXCEPT !.bad = TRUE]
      BY <1>4, <2>7 DEF WakeTake
    <3>2. k'.err = k.err /\ k'.stat = k.stat /\ k'.wait = k.wait
      BY <1>0, <3>1 DEF Kernel
    <3>3. Traffic({}, {})
      BY <2>1, <3>2 DEF Traffic, Steady, Comes, Ready
    <3>4. Breaks
      BY <2>1, <3>1 DEF Goto, Breaks
    <3> QED BY <3>2, <3>3, <3>4 DEF Turns
  <2> QED BY <2>6, <2>7
<1> QED BY <1>1, <1>2, <1>3, <1>4 DEF WaitStep

(* The kernel's own steps. *)
LEMMA NextTurns ==
    ASSUME CallInv, Patient, [Next]_vars, UNCHANGED waitVars
    PROVE  Turns({}, {}, {})
<1>1. WaitInv' /\ Effect /\ frame' = frame
  BY NextKeepsWaiting DEF CallInv, waitVars
<1>2. /\ Traffic({}, {}) /\ \A o \in Obj : k'.wait[o] # <<>> => k.wait[o] # <<>>
      /\ prog.prio = {} /\ InTurn(k) => InTurn(k')
  BY <1>1, EffectSteady, ThinsInTurn DEF CallInv, Effect
<1>3. Fits'
  <2> SUFFICES ASSUME NEW u \in Thread PROVE FitsAt(pc', frame', u)
    BY DEF Fits
  <2>1. FitsAt(pc, frame, u) /\ IF pc[u] \in InCall THEN pc'[u] = pc[u] ELSE pc'[u] \notin InCall
    BY <1>1 DEF CallInv, Fits, Effect
  <2> QED BY <1>1, <2>1 DEF FitsAt, InCall
<1>4. prog' = prog
  BY DEF Next, vars, ThreadStep, Yield, Sleep, CallSchedule, SleepReturn, EnterCritical, ExitCritical,
         SuspendSelf, ResumeCheck, DeleteCheck, ResumeDo, Start, Startup, Exit, DeleteRemove,
         DeleteClose, SetPriority, IdleLook, IdleTake, PendSV, Interrupt, TickInterrupt,
         TickSchedule, TimerFires, TickReturn, DeviceResumes
<1> QED BY <1>1, <1>2, <1>3, <1>4 DEF Turns, CallInv

-----------------------------------------------------------------------------
(* What traffic means for the threads that come back with a unit, and for    *)
(* those that come back to look at a mailbox.                                *)
LEMMA GivenAre == \A s : Given(s) = Comers(k, frame, {"take"}, s)
BY DEF Given, Comers, Ready

LEMMA ComingAre == \A o : Coming(o) = Comers(k, frame, {"send", "recv"}, o)
BY DEF Coming, Comers, Ready

LEMMA GivenAfter == \A s : Given(s)' = Comers(k', frame', {"take"}, s)
BY DEF Given, Comers, Ready

LEMMA ComingAfter == \A o : Coming(o)' = Comers(k', frame', {"send", "recv"}, o)
BY DEF Coming, Comers, Ready

LEMMA GivenMoves ==
    ASSUME NEW J, NEW L, Traffic(J, L), NEW s
    PROVE  Given(s)' = (Given(s) \ L) \cup {u \in J : frame[u].call = "take" /\ frame[u].obj = s}
<1>1. {"take"} \in SUBSET Waiters
  BY DEF Waiters
<1>2. Comers(k', frame', {"take"}, s)
        = (Comers(k, frame, {"take"}, s) \ L)
             \cup {u \in J : frame[u].call \in {"take"} /\ frame[u].obj = s}
  BY <1>1, TrafficMoves
<1>3. {u \in J : frame[u].call \in {"take"} /\ frame[u].obj = s}
        = {u \in J : frame[u].call = "take" /\ frame[u].obj = s}
  OBVIOUS
<1> QED BY <1>2, <1>3, GivenAre, GivenAfter

LEMMA ComingMoves ==
    ASSUME NEW J, NEW L, Traffic(J, L), NEW o
    PROVE  Coming(o)' = (Coming(o) \ L)
              \cup {u \in J : frame[u].call \in {"send", "recv"} /\ frame[u].obj = o}
<1>1. {"send", "recv"} \in SUBSET Waiters
  BY DEF Waiters
<1> QED BY <1>1, TrafficMoves, ComingAre, ComingAfter

(* A step that is none of the semaphore's business. *)
LEMMA SemKept ==
    ASSUME UnitsConserved, NoneWaitsForUnits, NEW J, NEW L, NEW X, Turns(J, L, X),
           X \cap Sem = {}, \A u \in J \cup L : frame[u].call # "take",
           value' = value, units' = units
    PROVE  UnitsConserved' /\ NoneWaitsForUnits'
<1>1. ASSUME NEW s \in Sem PROVE Given(s)' = Given(s)
  <2>1. Given(s)' = (Given(s) \ L) \cup {u \in J : frame[u].call = "take" /\ frame[u].obj = s}
    BY GivenMoves DEF Turns
  <2>2. Given(s) \cap L = {}
    BY DEF Given
  <2> QED BY <2>1, <2>2
<1>2. UnitsConserved'
  BY <1>1 DEF UnitsConserved
<1>3. \A s \in Sem : k'.wait[s] # <<>> => k.wait[s] # <<>>
  BY ListsApart DEF Turns
<1> QED BY <1>2, <1>3 DEF NoneWaitsForUnits

LEMMA BoxKept ==
    ASSUME NoneWaitsForMail, NEW J, NEW L, NEW X, Turns(J, L, X),
           X \cap (Box \cup SenderLists) = {},
           \A u \in J \cup L : frame[u].call \notin {"send", "recv"}, mb' = mb
    PROVE  NoneWaitsForMail'
<1>1. ASSUME NEW o PROVE Coming(o)' = Coming(o)
  <2>1. Coming(o)' = (Coming(o) \ L) \cup {u \in J : frame[u].call \in {"send", "recv"} /\ frame[u].obj = o}
    BY ComingMoves DEF Turns
  <2>2. Coming(o) \cap L = {}
    BY DEF Coming
  <2> QED BY <2>1, <2>2
<1>2. \A o \in Box \cup SenderLists : k'.wait[o] # <<>> => k.wait[o] # <<>>
  BY ListsApart DEF Turns
<1> QED BY <1>1, <1>2, ListsApart DEF NoneWaitsForMail

-----------------------------------------------------------------------------
(* Semaphores. *)
SemSafe ==
    /\ value \in [Sem -> Nat] /\ units \in [Sem -> Int]
    /\ UnitsConserved /\ NoneWaitsForUnits

(* A thread that makes a call is not in one, and not the idle thread. *)
LEMMA Asking ==
    ASSUME CallInv, Patient, NEW t \in Thread, NEW c, Asks(t, c)
    PROVE  /\ At(t, "user") /\ pc[t] = "user" /\ t # Idle /\ frame[t].call = "none"
           /\ ~Comes(k, frame, t) /\ "user" \in InCall \cup {"user"} /\ "user" # "wait_sched"
           /\ pc[t] \notin InCall
<1>1. pc[t] = "user" /\ t # Idle /\ At(t, "user")
  BY NowWaiting DEF CallInv, Asks, At
<1>2. frame[t].call = "none" /\ pc[t] \notin InCall
  BY <1>1 DEF CallInv, WaitInv, CallsSound, CallSound, InCall
<1> QED BY <1>1, <1>2 DEF Comes, Waiters, InCall

LEMMA Timeouts ==
    ASSUME CallInv, NEW t \in Thread, NEW n \in app.timeouts[t]
    PROVE  n \in Times \cup {Forever}
BY WaitAssumption DEF CallInv, WaitInv, App, Times

(* The running thread makes a call that changes nothing in the kernel and    *)
(* returns.                                                                  *)
LEMMA PromptCall ==
    ASSUME CallInv, Patient, NEW t \in Thread, NEW c, Asks(t, c),
           UNCHANGED <<k, cpu, pc, arg, isr, prog, waitVars>>
    PROVE  Turns({}, {}, {})
<1>1. At(t, "user") /\ pc[t] = "user" /\ "user" \in InCall \cup {"user"} /\ "user" # "wait_sched"
      /\ pc[t] \notin InCall
  BY Asking
<1>2. Goto(t, "user") /\ UNCHANGED <<cpu, arg, isr, prog, app, frame>> /\ k' = k
  BY <1>1, NowWaiting DEF CallInv, Goto, waitVars
<1>3. "user" \in Onward /\ "user" \notin InCall
  BY DEF Onward, InCall
<1>4. CallerMove(t, "user") /\ pc'[t] = "user"
  BY <1>1, <1>2, <1>3, StayMove DEF CallInv
<1>5. Steady(t) /\ FitsAt(pc', frame', t)
  BY <1>2, <1>4 DEF Steady, FitsAt
<1> QED BY <1>1, <1>2, <1>4, <1>5, QuietStep

(* It makes a call that wakes the first thread of a list. *)
LEMMA WakingCall ==
    ASSUME CallInv, Patient, NEW t \in Thread, NEW c, Asks(t, c), NEW o \in Obj,
           k' = WakeFirst(k, o), NEW w \in {"user", "sched"}, Goto(t, w),
           UNCHANGED <<cpu, arg, isr, prog, waitVars>>
    PROVE  Turns(First(k, o), {}, {})
<1>1. /\ At(t, "user") /\ "user" \in InCall \cup {"user"} /\ "user" # "wait_sched"
      /\ pc[t] \notin InCall /\ frame[t].call = "none"
  BY Asking
<1>2. UNCHANGED <<cpu, arg, isr, prog, app, frame>> /\ frame' = frame
  BY DEF waitVars
<1>3. w \in Onward /\ w \notin InCall
  BY DEF Onward, InCall
<1>4. CallerMove(t, w) /\ pc'[t] = w
  BY <1>1, <1>2, <1>3, StayMove DEF CallInv
<1>5. Steady(t) /\ FitsAt(pc', frame', t)
  BY <1>1, <1>2, <1>4 DEF Steady, Comes, Waiters, FitsAt
<1> QED BY <1>1, <1>4, <1>5, WakingStep

(* The device's handler makes it. *)
LEMMA DeviceCall ==
    ASSUME CallInv, Patient, NEW o \in Obj,
           \E x \in {WakeFirst(k, o)} : k' = IF k.wait[o] # <<>> THEN Schedule(x) ELSE k,
           UNCHANGED <<cpu, pc, arg, isr, prog, waitVars>>
    PROVE  Turns(First(k, o), {}, {})
<1> DEFINE x == WakeFirst(k, o)
           M == First(k, o)
<1>1. frame' = frame /\ app' = app
  BY DEF waitVars
<1>2. CASE k.wait[o] = <<>>
  <2>1. k' = k /\ M = {}
    BY <1>2 DEF First
  <2>2. Traffic({}, {})
    BY <1>1, <2>1 DEF Traffic, Steady
  <2>3. CallInv'
    BY <1>1, <2>1 DEF CallInv, WaitInv, IInv, SwitchRecord, Places, Timely, Fits, InTurn
  <2> HIDE DEF M
  <2> QED BY <2>1, <2>2, <2>3 DEF Turns, M
<1>3. CASE k.wait[o] # <<>>
  <2>1. /\ Wakes(x, k, M, Base(k, isr)) /\ \A u \in M : u \in Elems(k.wait[o]) /\ Ready(x, u)
    BY FirstWakes DEF CallInv
  <2>2. k' = Schedule(x)
    BY <1>3
  <2> HIDE DEF x, M
  <2>3. WaitInv' /\ k'.wait = x.wait /\ Attended(k', x, {}) /\ Attended(k', k, M)
    <3>1. \A u \in M : \E q \in Obj : u \in Elems(k.wait[q])
      BY <2>1
    <3> QED BY <2>1, <2>2, <3>1, HandlerKeeps DEF CallInv
  <2>4. ASSUME NEW u \in M PROVE u \in Thread /\ frame[u].call \in Waiters /\ ~Ready(k, u) /\ Ready(k', u)
    <3>1. u \in Elems(k.wait[o]) /\ Ready(x, u)
      BY <2>1
    <3>2. u \in Thread /\ frame[u].call \in Waiters /\ ~Ready(k, u)
      BY <3>1, WaiterCalls
    <3> QED BY <2>3, <3>1, <3>2 DEF Attended, Handled, Undisturbed, Ready
  <2>5. Traffic(M, {})
    <3>1. \A u \in Thread \ M : Steady(u)
      BY <1>1, <2>3, AttendedSteady
    <3> QED BY <1>1, <2>4, <3>1 DEF Traffic, Comes
  <2>6. \A q \in Obj : k'.wait[q] # <<>> => k.wait[q] # <<>>
    BY <2>1, <2>3, WakesLess
  <2>7. Fits' /\ (prog.prio = {} => InTurn(k))'
    <3>1. Thins(x, k) /\ x.prio = k.prio /\ k'.wait = x.wait /\ k'.prio = k.prio /\ prog' = prog
      BY <2>1, <2>3 DEF Wakes, Attended
    <3>2. Thins(k', k)
      BY <3>1 DEF Thins
    <3> QED BY <1>1, <3>1, <3>2, ThinsInTurn DEF CallInv, Fits
  <2> QED BY <2>3, <2>5, <2>6, <2>7 DEF Turns, CallInv, M
<1> QED BY <1>2, <1>3

(* It sets the error of all threads that wait in a list and wakes them, or   *)
(* those of two lists.                                                       *)
LEMMA WakeAllCall ==
    ASSUME CallInv, Patient, NEW t \in Thread, NEW c, Asks(t, c), NEW o \in Obj, NEW q \in Obj,
           \/ k' = WakeAll(k, o)
           \/ o # q /\ k' = WakeAll(WakeAll(k, o), q),
           Goto(t, "sched"), UNCHANGED <<cpu, arg, isr, prog, waitVars>>
    PROVE  /\ Turns({}, {}, {}) /\ k'.wait[o] = <<>>
           /\ o # q /\ k' = WakeAll(WakeAll(k, o), q) => k'.wait[q] = <<>>
<1>1. /\ At(t, "user") /\ "user" \in InCall \cup {"user"} /\ "user" # "wait_sched"
      /\ pc[t] \notin InCall /\ frame[t].call = "none" /\ pc[t] = "user"
  BY Asking
<1>2. UNCHANGED <<cpu, arg, isr, prog, app, frame>> /\ frame' = frame
  BY DEF waitVars
<1>3. "sched" \in Onward /\ "sched" \notin InCall
  BY DEF Onward, InCall
<1>4. CallerMove(t, "sched") /\ pc'[t] = "sched"
  BY <1>1, <1>2, <1>3, StayMove DEF CallInv
<1>5. Steady(t) /\ FitsAt(pc', frame', t)
  BY <1>1, <1>2, <1>4 DEF Steady, Comes, Waiters, FitsAt
<1> DEFINE b == Base(k, isr)
           x == WakeAll(k, o)
           A == Elems(k.wait[o])
<1>6. Wakes(k, k, {}, b)
  BY NowWaiting, NoneWakes DEF CallInv
<1>7. Wakes(x, k, {} \cup A, b) /\ x.wait[o] = <<>> /\ \A u \in A : ~Ready(x, u)
  <2> HIDE DEF b
  <2> QED BY <1>6, AllWakes DEF CallInv
<1> HIDE DEF x, b
<1>8. \E M : /\ Wakes(k', k, M, b) /\ k'.wait[o] = <<>>
             /\ o # q /\ k' = WakeAll(x, q) => k'.wait[q] = <<>>
             /\ \A u \in M : ~Ready(k', u) /\ \E p \in Obj : u \in Elems(k.wait[p])
  <2>1. CASE k' = x /\ ~(o # q /\ k' = WakeAll(x, q))
    <3>1. {} \cup A = A
      OBVIOUS
    <3> QED BY <1>7, <2>1, <3>1
  <2>2. CASE o # q /\ k' = WakeAll(x, q)
    <3> DEFINE B == Elems(x.wait[q])
               N == ({} \cup A) \cup B
    <3>1. \A u \in B : u \in Elems(k.wait[q]) /\ u \notin {} \cup A
      BY <1>7 DEF Wakes
    <3>2. /\ Wakes(k', k, N, b) /\ Wakes(k', x, B, b) /\ k'.wait[q] = <<>>
          /\ \A u \in B : ~Ready(k', u)
      <4> HIDE DEF A
      <4> QED BY <1>7, <2>2, <3>1, AllWakes DEF CallInv
    <3>3. k'.wait[o] = <<>>
      BY <1>7, <3>2, WakesLess
    <3>4. ASSUME NEW u \in N PROVE ~Ready(k', u) /\ \E p \in Obj : u \in Elems(k.wait[p])
      <4>1. CASE u \in B
        BY <3>1, <3>2, <4>1
      <4>2. CASE u \in A /\ u \notin B
        <5>1. u \in Thread
          BY <4>2, WaitersCall DEF CallInv
        <5>2. ~Ready(x, u) /\ Undisturbed(k', x, u)
          BY <1>7, <3>2, <4>2, <5>1 DEF Wakes, Attended, Handled
        <5> QED BY <4>2, <5>2 DEF Ready, Undisturbed
      <4> QED BY <4>1, <4>2
    <3> HIDE DEF N, A, B
    <3> QED BY <3>2, <3>3, <3>4
  <2> QED BY <2>1, <2>2 DEF x
<1>9. PICK M : /\ Wakes(k', k, M, b) /\ k'.wait[o] = <<>>
               /\ o # q /\ k' = WakeAll(x, q) => k'.wait[q] = <<>>
               /\ \A u \in M : ~Ready(k', u) /\ \E p \in Obj : u \in Elems(k.wait[p])
  BY <1>8
<1> DEFINE J == {}
<1>10. J \in SUBSET (M \ {t}) /\ \A u \in J : Ready(k', u)
  OBVIOUS
<1>11. \A u \in M \ (J \cup {t}) : ~Ready(k', u)
  BY <1>9
<1> HIDE DEF J
<1>12. Turns(J, {}, {})
  BY <1>1, <1>4, <1>5, <1>9, <1>10, <1>11, CallerStep DEF b
<1> QED BY <1>9, <1>12 DEF J, x

(* It begins to detach an object. *)
LEMMA DetachCall ==
    ASSUME CallInv, Patient, NEW t \in Thread, NEW c, Asks(t, c), NEW call, NEW o,
           \/ call = "sem_detach" /\ o \in Sem
           \/ call = "mb_detach" /\ o \in Box,
           Enter(t, call, o, NoTime, NoCall.msg), Goto(t, "wake_test"),
           UNCHANGED <<k, cpu, arg, isr, prog, app>>
    PROVE  Turns({}, {}, {})
<1>1. /\ At(t, "user") /\ "user" \in InCall \cup {"user"} /\ "user" # "wait_sched"
      /\ ~Comes(k, frame, t)
  BY Asking
<1>2. call # "none" /\ "wake_test" \in InCall
  BY DEF InCall
<1>3. CallerMove(t, "wake_test") /\ pc'[t] = "wake_test" /\ frame'[t].call = call /\ frame'[t].obj = o
  BY <1>2, NoCallFramed, EnterMove DEF CallInv
<1>4. Steady(t) /\ FitsAt(pc', frame', t)
  BY <1>1, <1>3 DEF Steady, Comes, Waiters, FitsAt
<1> QED BY <1>1, <1>3, <1>4, QuietStep

(* It returns from a call in which it woke all threads. *)
LEMMA DetachedReturns ==
    ASSUME CallInv, Patient, NEW t \in Thread, NEW call \in {"sem_detach", "mb_detach"},
           AllWoken(t, call), Leave(t), NEW w \in {"user", "sched"}, Goto(t, w),
           UNCHANGED <<k, cpu, arg, isr, prog, app>>
    PROVE  Turns({}, {}, {})
<1>1. /\ At(t, "wake_test") /\ frame[t].call = call
      /\ "wake_test" \in InCall \cup {"user"} /\ "wake_test" # "wait_sched"
  BY DEF AllWoken, InCall
<1>2. CallerMove(t, w) /\ pc'[t] = w /\ frame'[t].call = "none"
  BY LeaveMove DEF CallInv
<1>3. Steady(t) /\ FitsAt(pc', frame', t)
  BY <1>1, <1>2 DEF Steady, Comes, Waiters, FitsAt
<1> QED BY <1>1, <1>2, <1>3, QuietStep

(* A release: a thread is on its way, or the unit is counted. *)
LEMMA GiveKeeps ==
    ASSUME CallInv, Patient, SemSafe, NoneWaitsForMail, NEW s \in Sem, Give(s),
           Turns(First(k, s), {}, {}), mb' = mb
    PROVE  SemSafe' /\ NoneWaitsForMail'
<1>1. s \in Obj /\ k.wait[s] \in Seq(Thread)
  BY ListsApart, NowWaiting DEF CallInv, Kernel
<1>2. ASSUME NEW u \in First(k, s) PROVE frame[u].call = "take" /\ frame[u].obj = s /\ ~Ready(k, u)
  <2>1. u \in Elems(k.wait[s])
    BY <1>1, <1>2, HeadElem DEF First
  <2> QED BY <1>1, <2>1, WaiterCalls
<1>3. NoneWaitsForMail'
  <2>1. \A u \in First(k, s) \cup {} : frame[u].call \notin {"send", "recv"}
    BY <1>2
  <2>2. {} \cap (Box \cup SenderLists) = {}
    OBVIOUS
  <2> QED BY <2>1, <2>2, BoxKept
<1>4. ASSUME NEW r \in Sem
      PROVE  Given(r)' = Given(r) \cup {u \in First(k, s) : r = s}
  <2>1. Given(r)' = (Given(r) \ {}) \cup {u \in First(k, s) : frame[u].call = "take" /\ frame[u].obj = r}
    BY GivenMoves DEF Turns
  <2>2. {u \in First(k, s) : frame[u].call = "take" /\ frame[u].obj = r} = {u \in First(k, s) : r = s}
    BY <1>2
  <2> QED BY <2>1, <2>2
<1>5. ASSUME NEW r \in Sem PROVE k'.wait[r] # <<>> => k.wait[r] # <<>>
  BY ListsApart DEF Turns
<1>6. value \in [Sem -> Nat] /\ units \in [Sem -> Int]
  BY DEF SemSafe
<1>7. /\ units' \in [Sem -> Int]
      /\ \A r \in Sem : units'[r] = IF r = s THEN units[s] + 1 ELSE units[r]
  BY <1>6 DEF Give
<1>8. CASE k.wait[s] # <<>>
  <2> DEFINE h == Head(k.wait[s])
  <2>1. value' = value /\ First(k, s) = {h} /\ h \notin Given(s)
    BY <1>2, <1>8 DEF Give, First, Given, Ready
  <2> HIDE DEF h
  <2>2. ASSUME NEW r \in Sem PROVE units'[r] = value'[r] + Cardinality(Given(r)')
    <3>1. CASE r = s
      <4>1. Given(s)' = Given(s) \cup {h}
        BY <1>4, <2>1
      <4>2. Cardinality(Given(s)') = Cardinality(Given(s)) + 1 /\ Cardinality(Given(s)) \in Nat
        BY <2>1, <4>1, GivenAre, ComersCount
      <4>3. units[s] = value[s] + Cardinality(Given(s))
        BY DEF SemSafe, UnitsConserved
      <4> QED BY <1>6, <1>7, <2>1, <3>1, <4>2, <4>3
    <3>2. CASE r # s
      <4>1. Given(r)' = Given(r)
        BY <1>4, <3>2
      <4> QED BY <1>7, <2>1, <3>2, <4>1 DEF SemSafe, UnitsConserved
    <3> QED BY <3>1, <3>2
  <2> QED BY <1>3, <1>5, <1>6, <1>7, <2>1, <2>2 DEF SemSafe, UnitsConserved, NoneWaitsForUnits
<1>9. CASE k.wait[s] = <<>>
  <2>1. value' = [value EXCEPT ![s] = @ + 1] /\ First(k, s) = {}
    BY <1>9 DEF Give, First
  <2>2. value' \in [Sem -> Nat] /\ \A r \in Sem : value'[r] = IF r = s THEN value[s] + 1 ELSE value[r]
    BY <1>6, <2>1
  <2>3. \A r \in Sem : Given(r)' = Given(r)
    BY <1>4, <2>1
  <2>4. UnitsConserved'
    <3> SUFFICES ASSUME NEW r \in Sem PROVE units'[r] = value'[r] + Cardinality(Given(r)')
      BY DEF UnitsConserved
    <3>1. units[r] = value[r] + Cardinality(Given(r)) /\ Cardinality(Given(r)) \in Nat
      BY GivenAre, ComersCount DEF SemSafe, UnitsConserved
    <3>2. Cardinality(Given(r)') = Cardinality(Given(r))
      BY <2>3
    <3> QED BY <1>6, <1>7, <2>2, <3>1, <3>2
  <2>5. NoneWaitsForUnits'
    BY <1>5, <1>9, <2>2 DEF SemSafe, NoneWaitsForUnits
  <2> QED BY <1>3, <1>7, <2>2, <2>4, <2>5 DEF SemSafe
<1> QED BY <1>8, <1>9

LEMMA GivenStays ==
    ASSUME Traffic({}, {}), NEW s
    PROVE  Given(s)' = Given(s)
<1> DEFINE J == {}
<1>1. Traffic(J, J)
  OBVIOUS
<1> HIDE DEF J
<1>2. Given(s)' = (Given(s) \ J) \cup {u \in J : frame[u].call = "take" /\ frame[u].obj = s}
  BY <1>1, GivenMoves
<1> QED BY <1>2 DEF J

LEMMA SemTurns ==
    ASSUME CallInv, Patient, SemSafe, NoneWaitsForMail, NEW t \in Thread, SemStep(t), mb' = mb
    PROVE  (Breaks \/ CallInv') /\ SemSafe' /\ NoneWaitsForMail'
<1>0. /\ value \in [Sem -> Nat] /\ units \in [Sem -> Int] /\ UnitsConserved /\ NoneWaitsForUnits
      /\ \A u \in {} \cup {} : frame[u].call # "take" /\ frame[u].call \notin {"send", "recv"}
      /\ {} \cap Sem = {} /\ {} \cap (Box \cup SenderLists) = {}
      /\ \A s \in Sem : Cardinality(Given(s)) \in Nat /\ units[s] = value[s] + Cardinality(Given(s))
  BY GivenAre, ComersCount DEF SemSafe, UnitsConserved
<1>1. ASSUME NEW X, Turns({}, {}, X)
      PROVE  \A s : Given(s)' = Given(s)
  BY <1>1, GivenStays DEF Turns
<1>2. ASSUME Turns({}, {}, {}), value' = value, units' = units
      PROVE  (Breaks \/ CallInv') /\ SemSafe' /\ NoneWaitsForMail'
  <2>1. UnitsConserved' /\ NoneWaitsForUnits' /\ NoneWaitsForMail'
    BY <1>0, <1>2, SemKept, BoxKept
  <2> QED BY <1>0, <1>2, <2>1 DEF SemSafe, Turns
<1>3. ASSUME NEW s \in Sem, TakeUnit(t, s)
      PROVE  (Breaks \/ CallInv') /\ SemSafe' /\ NoneWaitsForMail'
  <2>1. Turns({}, {}, {})
    BY <1>3, PromptCall DEF TakeUnit
  <2>2. value' = [value EXCEPT ![s] = value[s] - 1] /\ units' = [units EXCEPT ![s] = units[s] - 1]
        /\ value[s] > 0 /\ k' = k
    BY <1>3 DEF TakeUnit
  <2>3. /\ value' \in [Sem -> Nat] /\ units' \in [Sem -> Int]
        /\ \A r \in Sem : value'[r] = IF r = s THEN value[s] - 1 ELSE value[r]
        /\ \A r \in Sem : units'[r] = IF r = s THEN units[s] - 1 ELSE units[r]
    BY <1>0, <2>2
  <2>4. UnitsConserved'
    <3> SUFFICES ASSUME NEW r \in Sem PROVE units'[r] = value'[r] + Cardinality(Given(r)')
      BY DEF UnitsConserved
    <3>1. Given(r)' = Given(r)
      BY <1>1, <2>1
    <3>2. Cardinality(Given(r)') = Cardinality(Given(r)) /\ Cardinality(Given(r)) \in Nat
          /\ units[r] = value[r] + Cardinality(Given(r))
      BY <1>0, <3>1
    <3> QED BY <1>0, <2>3, <3>2
  <2>5. NoneWaitsForUnits'
    BY <1>0, <2>2, <2>3 DEF NoneWaitsForUnits
  <2>6. NoneWaitsForMail'
    BY <1>0, <2>1, BoxKept
  <2> QED BY <2>1, <2>3, <2>4, <2>5, <2>6 DEF SemSafe, Turns
<1>4. ASSUME NEW s \in Sem, NEW n \in app.timeouts[t], TakeWait(t, s, n)
      PROVE  (Breaks \/ CallInv') /\ SemSafe' /\ NoneWaitsForMail'
  <2>1. At(t, "user") /\ t # Idle /\ ~Comes(k, frame, t) /\ n \in Times \cup {Forever} /\ s \in Obj
    BY <1>4, Asking, Timeouts, ListsApart DEF TakeWait
  <2>2. Turns({}, {u \in {t} : Comes(k, frame, u)}, {s})
    BY <1>4, <2>1, NoCallFramed, BlockStep DEF TakeWait
  <2>3. {u \in {t} : Comes(k, frame, u)} = {}
    BY <2>1
  <2>4. Turns({}, {}, {s})
    BY <2>2, <2>3
  <2>5. value' = value /\ units' = units /\ value[s] = 0
    BY <1>4 DEF TakeWait, semVars
  <2>6. UnitsConserved'
    BY <1>0, <1>1, <2>4, <2>5 DEF UnitsConserved
  <2>7. NoneWaitsForUnits'
    <3>1. \A r \in Sem \ {s} : k'.wait[r] # <<>> => k.wait[r] # <<>>
      BY <2>4, ListsApart DEF Turns
    <3> QED BY <1>0, <2>5, <3>1 DEF NoneWaitsForUnits
  <2>8. NoneWaitsForMail'
    <3>1. {s} \cap (Box \cup SenderLists) = {}
      BY ListsApart
    <3> QED BY <1>0, <2>4, <3>1, BoxKept
  <2> QED BY <1>0, <2>4, <2>5, <2>6, <2>7, <2>8 DEF SemSafe, Turns
<1>5. ASSUME Taken(t)
      PROVE  (Breaks \/ CallInv') /\ SemSafe' /\ NoneWaitsForMail'
  <2> DEFINE o == frame[t].obj
  <2>1. /\ At(t, "woken") /\ pc[t] = "woken" /\ frame[t].call = "take" /\ k.err[t] = "ok" /\ k' = k
        /\ "woken" \in InCall \cup {"user"} /\ "woken" # "wait_sched" /\ "woken" \notin About
    BY <1>5 DEF Taken, Woken, At, InCall, About
  <2>2. k.stat[t] = "running" /\ o \in Sem
    <3>1. FitsAt(pc, frame, t)
      BY DEF CallInv, Fits
    <3>2. k.stat[t] = "running"
      BY <2>1, CallerRuns DEF CallInv
    <3>3. o \in Sem
      BY <2>1, <3>1 DEF FitsAt
    <3> QED BY <3>2, <3>3
  <2>3. Comes(k, frame, t) /\ t \in Given(o)
    BY <2>1, <2>2 DEF Comes, Waiters, Ready, Given
  <2> HIDE DEF o
  <2>4. CallerMove(t, "user") /\ pc'[t] = "user" /\ frame'[t].call = "none"
    BY <1>5, LeaveMove DEF CallInv, Taken
  <2>5. FitsAt(pc', frame', t) /\ ~Comes(k', frame', t)
    BY <2>4 DEF FitsAt, Comes, Waiters
  <2>6. Turns({}, {t}, {})
    <3> DEFINE L == {t}
    <3>1. L \in {{}, {t}} /\ L # {}
      OBVIOUS
    <3> HIDE DEF L
    <3>2. Turns({}, L, {})
      BY <2>1, <2>3, <2>4, <2>5, <3>1, QuietStep
    <3> QED BY <3>2 DEF L
  <2>7. ASSUME NEW s PROVE Given(s)' = Given(s) \ {t}
    <3> DEFINE J == {}
               L == {t}
    <3>1. Traffic(J, L)
      BY <2>6 DEF Turns
    <3> HIDE DEF J, L
    <3>2. Given(s)' = (Given(s) \ L) \cup {u \in J : frame[u].call = "take" /\ frame[u].obj = s}
      BY <3>1, GivenMoves
    <3> QED BY <3>2 DEF J, L
  <2>8. units' = [units EXCEPT ![o] = units[o] - 1] /\ value' = value
    BY <1>5 DEF Taken, o
  <2>9. units' \in [Sem -> Int] /\ \A s \in Sem : units'[s] = IF s = o THEN units[o] - 1 ELSE units[s]
    BY <1>0, <2>2, <2>8
  <2>10. UnitsConserved'
    <3> SUFFICES ASSUME NEW s \in Sem PROVE units'[s] = value'[s] + Cardinality(Given(s)')
      BY DEF UnitsConserved
    <3>1. CASE s = o
      <4>1. Given(s)' = Given(s) \ {t} /\ Given(s) = Comers(k, frame, {"take"}, s) /\ t \in Given(s)
        BY <2>3, <2>7, <3>1, GivenAre
      <4>2. Cardinality(Given(s) \ {t}) = Cardinality(Given(s)) - 1
        BY <4>1, ComersCount
      <4>3. Cardinality(Given(s)') = Cardinality(Given(s)) - 1
        BY <4>1, <4>2
      <4>4. units'[s] = units[s] - 1 /\ value'[s] = value[s]
        BY <2>8, <2>9, <3>1
      <4> QED BY <1>0, <4>3, <4>4
    <3>2. CASE s # o
      <4>1. t \notin Given(s)
        BY <3>2 DEF Given, o
      <4>2. Given(s)' = Given(s)
        BY <2>7, <4>1
      <4> QED BY <1>0, <2>8, <2>9, <3>2, <4>2
    <3> QED BY <3>1, <3>2
  <2>11. NoneWaitsForUnits' /\ NoneWaitsForMail'
    <3>1. NoneWaitsForUnits'
      BY <1>0, <2>1, <2>8 DEF NoneWaitsForUnits
    <3>2. \A u \in {} \cup {t} : frame[u].call \notin {"send", "recv"}
      BY <2>1
    <3> QED BY <1>0, <2>6, <3>1, <3>2, BoxKept
  <2> QED BY <1>0, <2>6, <2>8, <2>9, <2>10, <2>11 DEF SemSafe, Turns
<1>6. ASSUME NEW s \in Sem, Release(t, s)
      PROVE  (Breaks \/ CallInv') /\ SemSafe' /\ NoneWaitsForMail'
  <2>1. Asks(t, "release") /\ Give(s) /\ k' = WakeFirst(k, s) /\ s \in Obj
        /\ UNCHANGED <<cpu, arg, isr, prog, waitVars>>
    BY <1>6, ListsApart DEF Release
  <2>2. \E w \in {"user", "sched"} : Goto(t, w)
    <3>1. pc[t] = "user" /\ pc \in [Thread -> Pc]
      BY <2>1, Asking, NowWaiting DEF CallInv
    <3> QED BY <1>6, <3>1 DEF Release, Goto
  <2>3. Turns(First(k, s), {}, {})
    BY <2>1, <2>2, WakingCall
  <2> QED BY <2>1, <2>3, GiveKeeps DEF Turns
<1>7. ASSUME NEW s \in Sem, NEW n \in SemInit, SemReset(t, s, n)
      PROVE  (Breaks \/ CallInv') /\ SemSafe' /\ NoneWaitsForMail'
  <2>1. Asks(t, "sem_reset") /\ k' = WakeAll(k, s) /\ s \in Obj /\ Goto(t, "sched")
        /\ UNCHANGED <<cpu, arg, isr, prog, waitVars>>
    BY <1>7, ListsApart DEF SemReset
  <2>2. Turns({}, {}, {}) /\ k'.wait[s] = <<>>
    BY <2>1, WakeAllCall
  <2>3. value' = [value EXCEPT ![s] = n] /\ units' = [units EXCEPT ![s] = n + Cardinality(Given(s))]
        /\ n \in Nat
    BY <1>7, SemAssumption DEF SemReset
  <2>4. /\ value' \in [Sem -> Nat] /\ units' \in [Sem -> Int]
        /\ \A r \in Sem : value'[r] = IF r = s THEN n ELSE value[r]
        /\ \A r \in Sem : units'[r] = IF r = s THEN n + Cardinality(Given(s)) ELSE units[r]
    BY <1>0, <2>3
  <2>5. UnitsConserved'
    <3> SUFFICES ASSUME NEW r \in Sem PROVE units'[r] = value'[r] + Cardinality(Given(r)')
      BY DEF UnitsConserved
    <3>1. Given(r)' = Given(r)
      BY <1>1, <2>2
    <3> QED BY <1>0, <2>4, <3>1
  <2>6. NoneWaitsForUnits'
    <3>1. \A r \in Sem : k'.wait[r] # <<>> => k.wait[r] # <<>>
      BY <2>2, ListsApart DEF Turns
    <3> QED BY <1>0, <2>2, <2>4, <3>1 DEF NoneWaitsForUnits
  <2>7. NoneWaitsForMail'
    BY <1>0, <2>2, BoxKept
  <2> QED BY <2>2, <2>4, <2>5, <2>6, <2>7 DEF SemSafe, Turns
<1>8. ASSUME NEW s \in Sem, SemDetach(t, s)
      PROVE  (Breaks \/ CallInv') /\ SemSafe' /\ NoneWaitsForMail'
  <2>1. Turns({}, {}, {})
    BY <1>8, DetachCall DEF SemDetach
  <2> QED BY <1>2, <1>8, <2>1 DEF SemDetach
<1>9. CASE SemDetached(t)
  <2>1. Turns({}, {}, {})
    BY <1>9, DetachedReturns DEF SemDetached
  <2> QED BY <1>2, <1>9, <2>1 DEF SemDetached, semVars
<1> QED BY <1>3, <1>4, <1>5, <1>6, <1>7, <1>8, <1>9 DEF SemStep

-----------------------------------------------------------------------------
(* Mailboxes.  For n things to be had nobody waits in o while fewer than n   *)
(* are on their way: this stays so if one more comes for each one more, and  *)
(* one less is there for each that arrives.                                  *)
LEMMA EnoughComing ==
    ASSUME NEW o, NEW n \in Int, n <= Cardinality(Coming(o)), NEW m \in Int,
           \/ Coming(o)' = Coming(o) /\ m <= n
           \/ \E h : h \notin Coming(o) /\ Coming(o)' = Coming(o) \cup {h} /\ m <= n + 1
           \/ \E t \in Coming(o) : Coming(o)' = Coming(o) \ {t} /\ m <= n - 1
    PROVE  m <= Cardinality(Coming(o)')
<1>1. Cardinality(Coming(o)) \in Nat
  BY ComingAre, ComersCount
<1>2. CASE Coming(o)' = Coming(o) /\ m <= n
  BY <1>1, <1>2
<1>3. ASSUME NEW h, h \notin Coming(o), Coming(o)' = Coming(o) \cup {h}, m <= n + 1
      PROVE  m <= Cardinality(Coming(o)')
  <2>1. Cardinality(Coming(o) \cup {h}) = Cardinality(Coming(o)) + 1
    BY <1>3, ComingAre, ComersCount
  <2>2. Cardinality(Coming(o)') = Cardinality(Coming(o)) + 1
    BY <1>3, <2>1
  <2> QED BY <1>1, <1>3, <2>2
<1>4. ASSUME NEW t \in Coming(o), Coming(o)' = Coming(o) \ {t}, m <= n - 1
      PROVE  m <= Cardinality(Coming(o)')
  <2>1. Cardinality(Coming(o) \ {t}) = Cardinality(Coming(o)) - 1
    BY ComingAre, ComersCount
  <2>2. Cardinality(Coming(o)') = Cardinality(Coming(o)) - 1
    BY <1>4, <2>1
  <2> QED BY <1>1, <1>4, <2>2
<1> QED BY <1>2, <1>3, <1>4

LEMMA ComingCount == \A o : Cardinality(Coming(o)) \in Nat /\ Cardinality(Coming(o)') \in Nat
BY ComingAre, ComingAfter, ComersCount

(* Those on their way after a thread of the list q has been woken and those  *)
(* in L have arrived.                                                        *)
LEMMA ComingWoken ==
    ASSUME CallInv, Patient, NEW q \in Box \cup SenderLists, NEW L, NEW X, Turns(First(k, q), L, X)
    PROVE  /\ \A o : o # q => Coming(o)' = Coming(o) \ L
           /\ Coming(q)' = (Coming(q) \ L) \cup First(k, q)
           /\ \A u \in First(k, q) : u \notin Coming(q) /\ frame[u].call # "take"
<1>1. q \in Obj /\ k.wait[q] \in Seq(Thread)
  BY ListsApart, NowWaiting DEF CallInv, Kernel
<1>2. ASSUME NEW u \in First(k, q)
      PROVE  frame[u].call \in {"send", "recv"} /\ frame[u].obj = q /\ u \notin Coming(q)
             /\ frame[u].call # "take"
  <2>1. u \in Elems(k.wait[q])
    BY <1>1, <1>2, HeadElem DEF First
  <2>2. frame[u].call \in {"send", "recv"} /\ frame[u].obj = q /\ ~Ready(k, u)
    BY <1>1, <2>1, WaiterCalls
  <2> QED BY <2>2 DEF Coming, Ready
<1>3. ASSUME NEW o
      PROVE  Coming(o)' = (Coming(o) \ L)
                \cup {u \in First(k, q) : frame[u].call \in {"send", "recv"} /\ frame[u].obj = o}
  BY ComingMoves DEF Turns
<1>4. ASSUME NEW o, o # q PROVE Coming(o)' = Coming(o) \ L
  <2>1. {u \in First(k, q) : frame[u].call \in {"send", "recv"} /\ frame[u].obj = o} = {}
    BY <1>2, <1>4
  <2> QED BY <1>3, <2>1
<1>5. Coming(q)' = (Coming(q) \ L) \cup First(k, q)
  <2>1. {u \in First(k, q) : frame[u].call \in {"send", "recv"} /\ frame[u].obj = q} = First(k, q)
    BY <1>2
  <2> QED BY <1>3, <2>1
<1> QED BY <1>2, <1>4, <1>5

LEMMA ComingStays ==
    ASSUME NEW L, Traffic({}, L), NEW o
    PROVE  Coming(o)' = Coming(o) \ L
<1> DEFINE J == {}
<1>1. Traffic(J, L)
  OBVIOUS
<1> HIDE DEF J
<1>2. Coming(o)' = (Coming(o) \ L) \cup {u \in J : frame[u].call \in {"send", "recv"} /\ frame[u].obj = o}
  BY <1>1, ComingMoves
<1> QED BY <1>2 DEF J

(* The thread that arrives has been on its way from the list o. *)
Arrival(L, o) == \A t \in L : L = {t} /\ t \in Coming(o)

LEMMA NoneElse ==
    ASSUME NEW L, NEW o, Arrival(L, o), NEW q, q # o
    PROVE  Coming(q) \ L = Coming(q)
BY DEF Arrival, Coming

LEMMA BoxEntries ==
    ASSUME BoxInv, NEW m \in Box
    PROVE  mb[m] \in Mailbox /\ mb[m].entry \in 0..BoxSize /\ BoxSize \in Nat
BY MailboxAssumption DEF BoxInv, Mailbox

(* A mail more: one more receiver is on its way, or one sender has arrived,  *)
(* or nobody waits.                                                          *)
LEMMA PostKeeps ==
    ASSUME CallInv, Patient, BoxInv, SemSafe, NoneWaitsForMail, NEW m \in Box,
           NEW L, Arrival(L, Senders[m]), Turns(First(k, m), L, {}),
           mb[m].entry < BoxSize, NEW b, b.entry = mb[m].entry + 1, mb' = [mb EXCEPT ![m] = b],
           value' = value, units' = units
    PROVE  SemSafe' /\ NoneWaitsForMail'
<1> DEFINE s == Senders[m]
<1>1. /\ m \in Box \cup SenderLists /\ m \in Obj /\ s \in SenderLists /\ s \in Obj /\ s # m
      /\ mb \in [Box -> Mailbox] /\ m \notin Sem
  BY ListsApart DEF BoxInv
<1> HIDE DEF s
<1>2. /\ \A o : o # m => Coming(o)' = Coming(o) \ L
      /\ Coming(m)' = (Coming(m) \ L) \cup First(k, m)
      /\ \A u \in First(k, m) : u \notin Coming(m) /\ frame[u].call # "take"
  BY <1>1, ComingWoken
<1>3. \A o : o # s => Coming(o) \ L = Coming(o)
  BY NoneElse DEF s
<1>4. ASSUME NEW l \in Box
      PROVE  mb'[l].entry = IF l = m THEN mb[m].entry + 1 ELSE mb[l].entry
  BY <1>1
<1>5. ASSUME NEW l \in Box
      PROVE  /\ k'.wait[l] # <<>> => k.wait[l] # <<>>
             /\ k'.wait[Senders[l]] # <<>> => k.wait[Senders[l]] # <<>>
             /\ l # s /\ Senders[l] # m /\ (Senders[l] = s => l = m)
  BY ListsApart, <1>1, MailboxAssumption DEF Turns, s
<1>6. ASSUME NEW l \in Box, k'.wait[l] # <<>>
      PROVE  mb'[l].entry <= Cardinality(Coming(l)')
  <2>1. k.wait[l] # <<>> /\ mb[l].entry <= Cardinality(Coming(l)) /\ mb[l].entry \in Int
    BY <1>5, <1>6, BoxEntries DEF NoneWaitsForMail
  <2>2. CASE l = m
    <3> DEFINE h == Head(k.wait[m])
    <3>1. First(k, m) = {h}
      BY <2>1, <2>2 DEF First
    <3> HIDE DEF h
    <3>2. h \notin Coming(m) /\ Coming(m)' = Coming(m) \cup {h}
      BY <1>1, <1>2, <1>3, <3>1
    <3>3. mb'[l].entry = mb[l].entry + 1
      BY <1>4, <2>2
    <3>4. mb'[l].entry \in Int /\ mb'[l].entry <= mb[l].entry + 1
      BY <2>1, <3>3
    <3>5. \E g : g \notin Coming(l) /\ Coming(l)' = Coming(l) \cup {g} /\ mb'[l].entry <= mb[l].entry + 1
      BY <2>2, <3>2, <3>4
    <3> QED BY <2>1, <3>4, <3>5, EnoughComing
  <2>3. CASE l # m
    <3>1. Coming(l)' = Coming(l) /\ mb'[l].entry = mb[l].entry
      BY <1>2, <1>3, <1>4, <1>5, <2>3
    <3> QED BY <2>1, <3>1
  <2> QED BY <2>2, <2>3
<1>7. ASSUME NEW l \in Box, k'.wait[Senders[l]] # <<>>
      PROVE  BoxSize - mb'[l].entry <= Cardinality(Coming(Senders[l])')
  <2> DEFINE o == Senders[l]
             n == BoxSize - mb[l].entry
             e == BoxSize - mb'[l].entry
  <2>1. n <= Cardinality(Coming(o)) /\ n \in Int /\ mb[l].entry \in Int /\ BoxSize \in Int
    BY <1>5, <1>7, BoxEntries DEF NoneWaitsForMail
  <2>2. CASE l = m
    <3>1. o = s /\ o # m /\ Coming(o)' = Coming(o) \ L
      BY <1>1, <1>2, <2>2 DEF s
    <3>2. e = n - 1
      BY <1>4, <2>1, <2>2
    <3> HIDE DEF o, n, e
    <3>3. e \in Int /\ e <= n - 1 /\ e <= n
      BY <2>1, <3>2
    <3>4. \/ Coming(o)' = Coming(o)
          \/ \E t \in Coming(o) : Coming(o)' = Coming(o) \ {t}
      <4>1. CASE L = {}
        BY <3>1, <4>1
      <4>2. CASE L # {}
        BY <3>1, <4>2 DEF Arrival, s
      <4> QED BY <4>1, <4>2
    <3> QED BY <2>1, <3>3, <3>4, EnoughComing DEF o, e
  <2>3. CASE l # m
    <3>1. Coming(o)' = Coming(o) /\ mb'[l].entry = mb[l].entry
      BY <1>2, <1>3, <1>4, <1>5, <2>3
    <3> QED BY <2>1, <3>1
  <2> QED BY <2>2, <2>3
<1>8. SemSafe'
  <2>1. \A u \in First(k, m) \cup L : frame[u].call # "take"
    BY <1>2 DEF Arrival, Coming
  <2>2. {} \cap Sem = {}
    OBVIOUS
  <2> QED BY <2>1, <2>2, SemKept DEF SemSafe
<1> QED BY <1>6, <1>7, <1>8 DEF NoneWaitsForMail

(* A mail less: one more sender is on its way, or one receiver has arrived,  *)
(* or nobody waits.                                                          *)
LEMMA FetchKeeps ==
    ASSUME CallInv, Patient, BoxInv, SemSafe, NoneWaitsForMail, NEW m \in Box,
           NEW L, Arrival(L, m), Turns(First(k, Senders[m]), L, {}),
           mb[m].entry # 0, mb' = [mb EXCEPT ![m] = Get(@)],
           value' = value, units' = units
    PROVE  SemSafe' /\ NoneWaitsForMail'
<1> DEFINE s == Senders[m]
<1>1. /\ m \in Box \cup SenderLists /\ m \in Obj /\ s \in Box \cup SenderLists /\ s \in Obj /\ s # m
      /\ mb \in [Box -> Mailbox] /\ m \notin Sem
  BY ListsApart DEF BoxInv
<1>0. Turns(First(k, s), L, {})
  OBVIOUS
<1> HIDE DEF s
<1>2. /\ \A o : o # s => Coming(o)' = Coming(o) \ L
      /\ Coming(s)' = (Coming(s) \ L) \cup First(k, s)
      /\ \A u \in First(k, s) : u \notin Coming(s) /\ frame[u].call # "take"
  BY <1>0, <1>1, ComingWoken
<1>3. \A o : o # m => Coming(o) \ L = Coming(o)
  BY NoneElse
<1>4. ASSUME NEW l \in Box
      PROVE  mb'[l].entry = IF l = m THEN mb[m].entry - 1 ELSE mb[l].entry
  <2>1. Get(mb[m]).entry = mb[m].entry - 1
    BY <1>1 DEF Get, Mailbox
  <2> QED BY <1>1, <2>1
<1>5. ASSUME NEW l \in Box
      PROVE  /\ k'.wait[l] # <<>> => k.wait[l] # <<>>
             /\ k'.wait[Senders[l]] # <<>> => k.wait[Senders[l]] # <<>>
             /\ l # s /\ Senders[l] # m /\ (Senders[l] = s => l = m)
  BY ListsApart, <1>1, MailboxAssumption DEF Turns, s
<1>6. ASSUME NEW l \in Box, k'.wait[l] # <<>>
      PROVE  mb'[l].entry <= Cardinality(Coming(l)')
  <2>1. k.wait[l] # <<>> /\ mb[l].entry <= Cardinality(Coming(l)) /\ mb[l].entry \in Int
    BY <1>5, <1>6, BoxEntries DEF NoneWaitsForMail
  <2>2. CASE l = m
    <3>1. Coming(l)' = Coming(l) \ L
      BY <1>1, <1>2, <2>2
    <3>2. mb'[l].entry = mb[l].entry - 1
      BY <1>4, <2>2
    <3>3. mb'[l].entry \in Int /\ mb'[l].entry <= mb[l].entry - 1 /\ mb'[l].entry <= mb[l].entry
      BY <2>1, <3>2
    <3>4. \/ Coming(l)' = Coming(l)
          \/ \E t \in Coming(l) : Coming(l)' = Coming(l) \ {t}
      <4>1. CASE L = {}
        BY <3>1, <4>1
      <4>2. CASE L # {}
        BY <2>2, <3>1, <4>2 DEF Arrival
      <4> QED BY <4>1, <4>2
    <3> QED BY <2>1, <3>3, <3>4, EnoughComing
  <2>3. CASE l # m
    <3>1. Coming(l)' = Coming(l) /\ mb'[l].entry = mb[l].entry
      BY <1>2, <1>3, <1>4, <1>5, <2>3
    <3> QED BY <2>1, <3>1
  <2> QED BY <2>2, <2>3
<1>7. ASSUME NEW l \in Box, k'.wait[Senders[l]] # <<>>
      PROVE  BoxSize - mb'[l].entry <= Cardinality(Coming(Senders[l])')
  <2> DEFINE o == Senders[l]
             n == BoxSize - mb[l].entry
             e == BoxSize - mb'[l].entry
  <2>1. /\ n <= Cardinality(Coming(o)) /\ n \in Int /\ mb[l].entry \in Int /\ BoxSize \in Int
        /\ k.wait[o] # <<>>
    BY <1>5, <1>7, BoxEntries DEF NoneWaitsForMail
  <2>2. CASE l = m
    <3>1. o = s
      BY <2>2 DEF s
    <3>2. e = n + 1
      BY <1>4, <2>1, <2>2
    <3> HIDE DEF o, n, e
    <3> DEFINE h == Head(k.wait[o])
    <3>3. First(k, o) = {h}
      BY <2>1 DEF First
    <3> HIDE DEF h
    <3>4. h \notin Coming(o) /\ Coming(o)' = Coming(o) \cup {h}
      BY <1>1, <1>2, <1>3, <3>1, <3>3
    <3>5. e \in Int /\ e <= n + 1
      BY <2>1, <3>2
    <3>6. \E g : g \notin Coming(o) /\ Coming(o)' = Coming(o) \cup {g} /\ e <= n + 1
      BY <3>4, <3>5
    <3> QED BY <2>1, <3>5, <3>6, EnoughComing DEF o, e
  <2>3. CASE l # m
    <3>1. Coming(o)' = Coming(o) /\ mb'[l].entry = mb[l].entry
      BY <1>2, <1>3, <1>4, <1>5, <2>3
    <3> QED BY <2>1, <3>1
  <2> QED BY <2>2, <2>3
<1>8. SemSafe'
  <2>1. \A u \in First(k, s) \cup L : frame[u].call # "take"
    BY <1>2 DEF Arrival, Coming
  <2>2. {} \cap Sem = {}
    OBVIOUS
  <2> QED BY <1>0, <2>1, <2>2, SemKept DEF SemSafe
<1> QED BY <1>6, <1>7, <1>8 DEF NoneWaitsForMail

(* A thread that runs again after the wait has been on its way.              *)
LEMMA BackAgain ==
    ASSUME CallInv, Patient, NEW t \in Thread, NEW c \in {"send", "recv"}, Woken(t, c)
    PROVE  /\ At(t, "woken") /\ pc[t] = "woken" /\ frame[t].call = c /\ k.stat[t] = "running"
           /\ "woken" \in InCall \cup {"user"} /\ "woken" # "wait_sched" /\ t # Idle
           /\ Comes(k, frame, t) /\ t \in Coming(frame[t].obj)
           /\ Left(t) \in Times \cup {Forever} /\ frame[t].msg \in Msg
<1>1. At(t, "woken") /\ frame[t].call = c /\ k.err[t] = "ok" /\ "woken" \notin About /\ "woken" \in InCall
  BY DEF Woken, About, InCall
<1>2. k.stat[t] = "running" /\ pc[t] = "woken"
  BY <1>1, CallerRuns DEF CallInv
<1>3. Comes(k, frame, t) /\ t \in Coming(frame[t].obj)
  BY <1>1, <1>2 DEF Comes, Waiters, Ready, Coming
<1>4. frame[t].left \in Times \cup {Forever} /\ t # Idle /\ frame[t].msg \in Msg
  BY <1>1, <1>2 DEF CallInv, WaitInv, CallsSound, CallSound, Framed
<1>5. Left(t) \in Times \cup {Forever}
  BY LeftIs DEF CallInv
<1> QED BY <1>1, <1>2, <1>3, <1>4, <1>5

(* It finds what it waited for.                                              *)
LEMMA BackServed ==
    ASSUME CallInv, Patient, NEW t \in Thread, NEW c \in {"send", "recv"}, Woken(t, c),
           NEW o \in Obj, k' = WakeFirst(k, o), NEW w \in {"user", "sched"}, Goto(t, w), Leave(t),
           UNCHANGED <<cpu, arg, isr, prog, app>>
    PROVE  Turns(First(k, o), {t}, {})
<1> DEFINE L == {t}
<1>1. L \in {{}, {t}} /\ L # {}
  OBVIOUS
<1>2. CallerMove(t, w) /\ pc'[t] = w /\ frame'[t].call = "none"
  BY LeaveMove DEF CallInv
<1>3. FitsAt(pc', frame', t) /\ ~Comes(k', frame', t)
  BY <1>2 DEF FitsAt, Comes, Waiters
<1> HIDE DEF L
<1>4. Turns(First(k, o), L, {})
  BY <1>1, <1>2, <1>3, BackAgain, WakingStep
<1> QED BY <1>4 DEF L

(* It has no time left and returns with an error.                            *)
LEMMA BackLate ==
    ASSUME CallInv, Patient, NEW t \in Thread, NEW c \in {"send", "recv"}, Woken(t, c),
           NEW e \in Err, k' = [k EXCEPT !.err[t] = e], Goto(t, "user"), Leave(t),
           UNCHANGED <<cpu, arg, isr, prog, app>>
    PROVE  Turns({}, {t}, {})
<1> DEFINE L == {t}
           M == {t}
           J == {}
<1>1. L \in {{}, {t}} /\ L # {} /\ J \in SUBSET (M \ {t}) /\ M = {t}
      /\ (\A u \in J : Ready(k', u)) /\ \A u \in M \ (J \cup {t}) : ~Ready(k', u)
  OBVIOUS
<1>2. CallerMove(t, "user") /\ pc'[t] = "user" /\ frame'[t].call = "none"
  BY LeaveMove DEF CallInv
<1>3. FitsAt(pc', frame', t) /\ ~Comes(k', frame', t)
  BY <1>2 DEF FitsAt, Comes, Waiters
<1>4. k' = ErrorSet(k, t, e) /\ k.stat[t] # "suspend"
  BY BackAgain DEF ErrorSet
<1>5. Wakes(k', k, M, Base(k, isr)) /\ k'.stat = k.stat
  BY <1>4, NowWaiting, ErrorWakes DEF CallInv
<1> HIDE DEF L, M, J
<1>6. Turns(J, L, {})
  BY <1>1, <1>2, <1>3, <1>5, BackAgain, CallerStep
<1> QED BY <1>6 DEF J, L

(* It waits for what is left of its time.                                    *)
LEMMA BackWaiting ==
    ASSUME CallInv, Patient, NEW t \in Thread, NEW c \in {"send", "recv"}, Woken(t, c),
           NEW o \in Obj, NEW v \in Msg, k' = Block(k, t, o, Left(t)), Enter(t, c, o, Left(t), v),
           Goto(t, "wait_sched"), UNCHANGED <<cpu, arg, isr, prog, app>>,
           \/ c = "recv" /\ o \in Box
           \/ c = "send" /\ o \in SenderLists
    PROVE  Turns({}, {t}, {o})
<1> DEFINE n == Left(t)
<1>1. n \in Times \cup {Forever} /\ At(t, "woken") /\ t # Idle /\ Comes(k, frame, t)
  BY BackAgain
<1>2. k' = Block(k, t, o, n) /\ Enter(t, c, o, n, v)
  OBVIOUS
<1> HIDE DEF n
<1>3. "woken" \in {"user", "woken"}
  OBVIOUS
<1>4. Turns({}, {u \in {t} : Comes(k, frame, u)}, {o})
  BY <1>1, <1>2, <1>3, BlockStep
<1>5. {u \in {t} : Comes(k, frame, u)} = {t}
  BY <1>1
<1> QED BY <1>4, <1>5

(* Mailboxes that nobody writes to, while a thread comes to look at one that *)
(* has nothing for it, or goes to wait for it.                               *)
LEMMA LookKeeps ==
    ASSUME CallInv, BoxInv, SemSafe, NoneWaitsForMail, NEW m \in Box, NEW o, NEW L, Arrival(L, o),
           NEW X \in {{}, {o}}, Turns({}, L, X),
           (o = m /\ Empty(m)) \/ (o = Senders[m] /\ Full(m)),
           mb' = mb, value' = value, units' = units
    PROVE  SemSafe' /\ NoneWaitsForMail'
<1>1. o \in Obj /\ o \notin Sem /\ o \in Box \cup SenderLists
  BY ListsApart
<1>2. SemSafe'
  <2>1. \A u \in {} \cup L : frame[u].call # "take"
    BY DEF Arrival, Coming
  <2>2. X \cap Sem = {}
    BY <1>1
  <2> QED BY <2>1, <2>2, SemKept DEF SemSafe
<1>3. ASSUME NEW q \in Obj, q # o
      PROVE  (k'.wait[q] # <<>> => k.wait[q] # <<>>) /\ Coming(q)' = Coming(q)
  <2>1. Coming(q)' = Coming(q) \ L
    BY ComingStays DEF Turns
  <2>2. Coming(q) \ L = Coming(q)
    BY <1>3, NoneElse
  <2> QED BY <1>3, <2>1, <2>2 DEF Turns
<1>4. ASSUME NEW l \in Box
      PROVE  /\ k'.wait[l] # <<>> => mb[l].entry <= Cardinality(Coming(l)')
             /\ k'.wait[Senders[l]] # <<>> =>
                   BoxSize - mb[l].entry <= Cardinality(Coming(Senders[l])')
  <2> DEFINE s == Senders[l]
             n == BoxSize - mb[l].entry
  <2>1. /\ l \in Obj /\ s \in Obj /\ (s = o /\ o = Senders[m] => l = m) /\ s \notin Box
        /\ mb[l].entry \in 0..BoxSize /\ BoxSize \in Nat
        /\ Cardinality(Coming(l)') \in Nat /\ Cardinality(Coming(s)') \in Nat
    BY ListsApart, MailboxAssumption, BoxEntries, ComingCount
  <2>2. /\ k.wait[l] # <<>> => mb[l].entry <= Cardinality(Coming(l))
        /\ k.wait[s] # <<>> => n <= Cardinality(Coming(s))
    BY DEF NoneWaitsForMail
  <2>3. l = o => mb[l].entry = 0
    BY <2>1, ListsApart DEF Empty
  <2>4. s = o => n = 0
    BY <2>1 DEF Full
  <2> HIDE DEF s, n
  <2>5. k'.wait[l] # <<>> => mb[l].entry <= Cardinality(Coming(l)')
    <3>1. CASE l = o
      BY <2>1, <2>3, <3>1
    <3>2. CASE l # o
      <4>1. (k'.wait[l] # <<>> => k.wait[l] # <<>>) /\ Coming(l)' = Coming(l)
        BY <1>3, <2>1, <3>2
      <4> QED BY <2>2, <4>1
    <3> QED BY <3>1, <3>2
  <2>6. k'.wait[s] # <<>> => n <= Cardinality(Coming(s)')
    <3>1. CASE s = o
      BY <2>1, <2>4, <3>1
    <3>2. CASE s # o
      <4>1. (k'.wait[s] # <<>> => k.wait[s] # <<>>) /\ Coming(s)' = Coming(s)
        BY <1>3, <2>1, <3>2
      <4> QED BY <2>2, <4>1
    <3> QED BY <3>1, <3>2
  <2> QED BY <2>5, <2>6 DEF s, n
<1> QED BY <1>2, <1>4 DEF NoneWaitsForMail

(* All threads of both lists are woken and the mailbox is emptied.           *)
LEMMA ResetKeeps ==
    ASSUME CallInv, Patient, BoxInv, SemSafe, NoneWaitsForMail, NEW t \in Thread, NEW m \in Box,
           BoxReset(t, m), value' = value, units' = units
    PROVE  (Breaks \/ CallInv') /\ SemSafe' /\ NoneWaitsForMail'
<1> DEFINE s == Senders[m]
<1>1. m \in Obj /\ s \in Obj /\ m # s
  BY ListsApart
<1> HIDE DEF s
<1>2. /\ Asks(t, "mb_reset") /\ Goto(t, "sched") /\ k' = WakeAll(WakeAll(k, m), s)
      /\ UNCHANGED <<cpu, arg, isr, prog, waitVars>>
  BY DEF BoxReset, s
<1>3. Turns({}, {}, {}) /\ k'.wait[m] = <<>> /\ k'.wait[s] = <<>>
  BY <1>1, <1>2, WakeAllCall
<1>4. SemSafe'
  <2>1. \A u \in {} \cup {} : frame[u].call # "take"
    OBVIOUS
  <2>2. {} \cap Sem = {}
    OBVIOUS
  <2> QED BY <1>3, <2>1, <2>2, SemKept DEF SemSafe
<1>5. ASSUME NEW l \in Box
      PROVE  /\ k'.wait[l] # <<>> => mb'[l].entry <= Cardinality(Coming(l)')
             /\ k'.wait[Senders[l]] # <<>> =>
                   BoxSize - mb'[l].entry <= Cardinality(Coming(Senders[l])')
  <2>1. CASE l = m
    BY <1>3, <2>1 DEF s
  <2>2. CASE l # m
    <3>1. mb'[l] = mb[l]
      BY <2>2 DEF BoxReset, BoxInv
    <3>2. l \in Obj /\ Senders[l] \in Obj
      BY ListsApart
    <3>3. /\ k'.wait[l] # <<>> => k.wait[l] # <<>>
          /\ k'.wait[Senders[l]] # <<>> => k.wait[Senders[l]] # <<>>
      BY <1>3, <3>2 DEF Turns
    <3>4. ASSUME NEW o PROVE Coming(o)' = Coming(o)
      <4>1. Coming(o)' = Coming(o) \ {}
        BY <1>3, ComingStays DEF Turns
      <4> QED BY <4>1
    <3> QED BY <3>1, <3>3, <3>4 DEF NoneWaitsForMail
  <2> QED BY <2>1, <2>2
<1> QED BY <1>3, <1>4, <1>5 DEF Turns, NoneWaitsForMail

(* A detached mailbox: the senders are next, or the call returns.            *)
LEMMA DetachedTurns ==
    ASSUME CallInv, Patient, NEW t \in Thread, NEW m \in Box, BoxDetached(t, m)
    PROVE  Turns({}, {}, {})
<1>1. AllWoken(t, "mb_detach") /\ UNCHANGED <<k, cpu, arg, isr, prog, app>>
  BY DEF BoxDetached
<1>2. ASSUME Leave(t), NEW w \in {"user", "sched"}, Goto(t, w)
      PROVE  Turns({}, {}, {})
  BY <1>1, <1>2, DetachedReturns
<1>3. ASSUME frame' = [frame EXCEPT ![t].obj = Senders[m]], pc' = pc
      PROVE  Turns({}, {}, {})
  <2>1. At(t, "wake_test") /\ frame[t].call = "mb_detach" /\ "wake_test" \notin About
        /\ "wake_test" \in InCall \cup {"user"} /\ "wake_test" # "wait_sched" /\ "wake_test" \in Onward
    BY <1>1 DEF AllWoken, About, InCall, Onward
  <2>2. pc[t] = "wake_test" /\ pc \in [Thread -> Pc] /\ Framed(frame)
    BY <2>1, CallerRuns, NowWaiting DEF CallInv, WaitInv
  <2>3. /\ \A u \in Thread \ {t} : frame'[u] = frame[u]
        /\ frame'[t] = [frame[t] EXCEPT !.obj = Senders[m]]
    BY <1>3, <2>2 DEF Framed
  <2>4. /\ frame'[t].call = frame[t].call /\ frame'[t].left = frame[t].left
        /\ frame'[t].since = frame[t].since /\ frame'[t].obj = Senders[m]
    <3>1. frame[t] = [call |-> frame[t].call, obj |-> frame[t].obj, left |-> frame[t].left,
                      since |-> frame[t].since, msg |-> frame[t].msg]
      BY <2>2 DEF Framed
    <3> QED BY <2>3, <3>1
  <2>5. Framed(frame')
    BY <1>3, <2>2, TurnFramed
  <2>6. pc' = [pc EXCEPT ![t] = "wake_test"]
    BY <1>3, <2>2
  <2>7. FrameFits(pc', frame', t)
    BY <1>3, <2>4 DEF FrameFits, CallInv, WaitInv, CallsSound, CallSound
  <2>8. CallerMove(t, "wake_test")
    BY <1>1, <2>1, <2>3, <2>5, <2>6, <2>7 DEF CallerMove
  <2>9. FitsAt(pc', frame', t) /\ Steady(t)
    BY <1>3, <2>1, <2>2, <2>4, ListsApart DEF FitsAt, Steady, Comes, Waiters
  <2> DEFINE L == {}
  <2>10. L \in {{}, {t}} /\ L = {} /\ k' = k
    BY <1>1
  <2> HIDE DEF L
  <2>11. Turns({}, L, {})
    BY <2>1, <2>8, <2>9, <2>10, QuietStep
  <2> QED BY <2>11 DEF L
<1> QED BY <1>2, <1>3 DEF BoxDetached

LEMMA NobodyArrives == \A o : Arrival({}, o)
BY DEF Arrival

(* A receiver finds no mail, a sender no slot. *)
NothingThere(c, o, m) == \/ c = "recv" /\ o = m /\ Empty(m)
                         \/ c = "send" /\ o = Senders[m] /\ Full(m)

LEMMA BoxTurns ==
    ASSUME CallInv, Patient, BoxInv, SemSafe, NoneWaitsForMail, NEW t \in Thread, BoxStep(t),
           value' = value, units' = units
    PROVE  (Breaks \/ CallInv') /\ SemSafe' /\ NoneWaitsForMail'
<1> DEFINE Goal == (Breaks \/ CallInv') /\ SemSafe' /\ NoneWaitsForMail'
<1>0. /\ mb \in [Box -> Mailbox] /\ app.mails \subseteq Msg /\ NoCall.msg \in Msg
      /\ pc \in [Thread -> Pc]
  BY NoCallFramed, WaitAssumption, NowWaiting DEF BoxInv, CallInv, WaitInv, App
<1>1. ASSUME NEW m \in Box
      PROVE  /\ m \in Obj /\ Senders[m] \in Obj /\ Senders[m] \in SenderLists
             /\ mb[m] \in Mailbox /\ mb[m].entry \in 0..BoxSize /\ BoxSize \in Nat
             /\ ~Full(m) => mb[m].entry < BoxSize
             /\ \A v \in Msg : Put(mb[m], v).entry = mb[m].entry + 1
             /\ \A v \in Msg : PutFirst(mb[m], v).entry = mb[m].entry + 1
  <2>1. mb[m] \in Mailbox /\ mb[m].entry \in 0..BoxSize /\ BoxSize \in Nat
    BY <1>1, BoxEntries
  <2>2. \A v \in Msg : Put(mb[m], v).entry = mb[m].entry + 1 /\ PutFirst(mb[m], v).entry = mb[m].entry + 1
    BY <2>1 DEF Put, PutFirst, Mailbox
  <2> QED BY <2>1, <2>2, ListsApart DEF Full
<1>2. ASSUME NEW m \in Box, NEW b, b.entry = mb[m].entry + 1, NEW v, NEW urgent, NEW L,
             Post(t, m, b, v, urgent), ~Full(m), Arrival(L, Senders[m]),
             Turns(First(k, m), L, {})
      PROVE  Goal
  <2>1. mb' = [mb EXCEPT ![m] = b] /\ mb[m].entry < BoxSize
    BY <1>1, <1>2 DEF Post
  <2>2. SemSafe' /\ NoneWaitsForMail'
    BY <1>2, <2>1, PostKeeps
  <2> QED BY <1>2, <2>2 DEF Turns
<1>3. ASSUME NEW m \in Box, NEW L, Fetch(t, m), ~Empty(m), Arrival(L, m),
             Turns(First(k, Senders[m]), L, {})
      PROVE  Goal
  <2>1. mb' = [mb EXCEPT ![m] = Get(@)] /\ mb[m].entry # 0
    BY <1>3 DEF Fetch, Empty
  <2>2. SemSafe' /\ NoneWaitsForMail'
    BY <1>3, <2>1, FetchKeeps
  <2> QED BY <1>3, <2>2 DEF Turns
<1>4. ASSUME NEW m \in Box, NEW o, (o = m /\ Empty(m)) \/ (o = Senders[m] /\ Full(m)),
             NEW L, Arrival(L, o), NEW X \in {{}, {o}}, Turns({}, L, X), mb' = mb
      PROVE  Goal
  <2>1. SemSafe' /\ NoneWaitsForMail'
    BY <1>4, LookKeeps
  <2> QED BY <1>4, <2>1 DEF Turns
<1>5. ASSUME NEW m \in Box, NEW v \in Msg, Send(t, m, v) \/ Urgent(t, m, v)
      PROVE  Goal
  <2>1. /\ \E c : Asks(t, c)
        /\ UNCHANGED <<cpu, arg, isr, prog, waitVars>> /\ ~Full(m)
        /\ \E b, urgent : b.entry = mb[m].entry + 1 /\ Post(t, m, b, v, urgent)
    BY <1>1, <1>5 DEF Send, Urgent
  <2>2. k' = WakeFirst(k, m) /\ \E w \in {"user", "sched"} : Goto(t, w)
    BY <2>1 DEF Post
  <2>3. Turns(First(k, m), {}, {})
    BY <1>1, <2>1, <2>2, WakingCall
  <2> QED BY <1>2, <2>1, <2>3, NobodyArrives
<1>6. ASSUME NEW m \in Box, Recv(t, m)
      PROVE  Goal
  <2>1. /\ Asks(t, "recv") /\ UNCHANGED <<cpu, arg, isr, prog, waitVars>> /\ ~Empty(m) /\ Fetch(t, m)
    BY <1>6 DEF Recv
  <2>2. k' = WakeFirst(k, Senders[m]) /\ \E w \in {"user", "sched"} : Goto(t, w)
    BY <2>1 DEF Fetch
  <2>3. Turns(First(k, Senders[m]), {}, {})
    BY <1>1, <2>1, <2>2, WakingCall
  <2> QED BY <1>3, <2>1, <2>3, NobodyArrives
<1>7. ASSUME NEW m \in Box, NEW o, NEW v \in Msg, NEW n \in app.timeouts[t], NEW c, Asks(t, c),
             NothingThere(c, o, m),
             k' = Block(k, t, o, n), Enter(t, c, o, n, v), Goto(t, "wait_sched"),
             UNCHANGED <<cpu, arg, isr, prog, app, boxVars>>
      PROVE  Goal
  <2>1. At(t, "user") /\ t # Idle /\ ~Comes(k, frame, t) /\ n \in Times \cup {Forever} /\ o \in Obj
    BY <1>1, <1>7, Asking, Timeouts DEF NothingThere
  <2>2. "user" \in {"user", "woken"} /\ ((c = "recv" /\ o \in Box) \/ (c = "send" /\ o \in SenderLists))
    BY <1>1, <1>7 DEF NothingThere
  <2>3. Turns({}, {u \in {t} : Comes(k, frame, u)}, {o})
    BY <1>7, <2>1, <2>2, BlockStep
  <2>4. {u \in {t} : Comes(k, frame, u)} = {}
    BY <2>1
  <2>5. Turns({}, {}, {o}) /\ mb' = mb
    BY <1>7, <2>3, <2>4 DEF boxVars
  <2> QED BY <1>4, <1>7, <2>5, NobodyArrives DEF NothingThere
<1>8. ASSUME NEW m \in Box, NEW c \in {"send", "recv"}, Woken(t, c), NEW o, frame[t].obj = o
      PROVE  Arrival({t}, o) /\ Left(t) \in Times \cup {Forever} /\ frame[t].msg \in Msg
  BY <1>8, BackAgain DEF Arrival
<1>9. ASSUME NEW m \in Box, NEW c \in {"send", "recv"}, Woken(t, c), NEW o, frame[t].obj = o,
             NothingThere(c, o, m),
             NEW e \in Err, NEW v \in Msg,
             \/ k' = [k EXCEPT !.err[t] = e] /\ Goto(t, "user") /\ Leave(t)
             \/ k' = Block(k, t, o, Left(t)) /\ Enter(t, c, o, Left(t), v) /\ Goto(t, "wait_sched"),
             UNCHANGED <<cpu, arg, isr, prog, app, mb>>
      PROVE  Goal
  <2>1. Arrival({t}, o) /\ o \in Obj /\ ((c = "recv" /\ o \in Box) \/ (c = "send" /\ o \in SenderLists))
    BY <1>1, <1>8, <1>9 DEF NothingThere
  <2>2. Turns({}, {t}, {}) \/ Turns({}, {t}, {o})
    BY <1>9, <2>1, BackLate, BackWaiting
  <2>3. \E X \in {{}, {o}} : Turns({}, {t}, X)
    BY <2>2
  <2> QED BY <1>4, <1>9, <2>1, <2>3 DEF NothingThere
<1>10. ASSUME NEW m \in Box, SendAgain(t, m)
       PROVE  Goal
  <2>1. /\ Woken(t, "send") /\ frame[t].obj = Senders[m] /\ UNCHANGED <<cpu, arg, isr, prog, app>>
        /\ "send" \in {"send", "recv"}
    BY <1>10 DEF SendAgain
  <2>2. Arrival({t}, Senders[m]) /\ frame[t].msg \in Msg
    BY <1>8, <2>1
  <2>3. CASE ~Full(m)
    <3>1. Post(t, m, Put(mb[m], frame[t].msg), frame[t].msg, FALSE) /\ Leave(t)
      BY <1>10, <2>3 DEF SendAgain
    <3>2. k' = WakeFirst(k, m) /\ \E w \in {"user", "sched"} : Goto(t, w)
      BY <3>1 DEF Post
    <3>3. Turns(First(k, m), {t}, {})
      BY <1>1, <2>1, <3>1, <3>2, BackServed
    <3> QED BY <1>1, <1>2, <2>2, <2>3, <3>1, <3>3
  <2>4. CASE Full(m)
    <3>1. /\ \/ k' = [k EXCEPT !.err[t] = "ok"] /\ Goto(t, "user") /\ Leave(t)
             \/ /\ k' = Block(k, t, Senders[m], Left(t)) /\ Goto(t, "wait_sched")
                /\ Enter(t, "send", Senders[m], Left(t), frame[t].msg)
          /\ mb' = mb /\ "ok" \in Err /\ NothingThere("send", Senders[m], m)
      BY <1>10, <2>4 DEF SendAgain, Err, NothingThere
    <3> QED BY <1>9, <2>1, <2>2, <2>4, <3>1
  <2> QED BY <2>3, <2>4
<1>11. ASSUME NEW m \in Box, RecvAgain(t, m)
       PROVE  Goal
  <2>1. /\ Woken(t, "recv") /\ frame[t].obj = m /\ UNCHANGED <<cpu, arg, isr, prog, app>>
        /\ "recv" \in {"send", "recv"}
    BY <1>11 DEF RecvAgain
  <2>2. Arrival({t}, m)
    BY <1>8, <2>1
  <2>3. CASE ~Empty(m)
    <3>1. Fetch(t, m) /\ Leave(t)
      BY <1>11, <2>3 DEF RecvAgain
    <3>2. k' = WakeFirst(k, Senders[m]) /\ \E w \in {"user", "sched"} : Goto(t, w)
      BY <3>1 DEF Fetch
    <3>3. Turns(First(k, Senders[m]), {t}, {})
      BY <1>1, <2>1, <3>1, <3>2, BackServed
    <3> QED BY <1>3, <2>2, <2>3, <3>1, <3>3
  <2>4. CASE Empty(m)
    <3>1. PICK x \in Msg : x = NoCall.msg
      BY <1>0
    <3>2. /\ \/ k' = [k EXCEPT !.err[t] = "timeout"] /\ Goto(t, "user") /\ Leave(t)
             \/ /\ k' = Block(k, t, m, Left(t)) /\ Goto(t, "wait_sched")
                /\ Enter(t, "recv", m, Left(t), x)
          /\ mb' = mb /\ "timeout" \in Err /\ NothingThere("recv", m, m)
      BY <1>11, <2>4, <3>1 DEF RecvAgain, Err, NothingThere
    <3> QED BY <1>9, <2>1, <2>4, <3>2
  <2> QED BY <2>3, <2>4
<1>12. ASSUME NEW m \in Box, Turns({}, {}, {}), mb' = mb
       PROVE  Goal
  <2>1. SemSafe' /\ NoneWaitsForMail'
    <3>1. \A u \in {} \cup {} : frame[u].call # "take" /\ frame[u].call \notin {"send", "recv"}
      OBVIOUS
    <3>2. {} \cap Sem = {} /\ {} \cap (Box \cup SenderLists) = {}
      OBVIOUS
    <3> QED BY <1>12, <3>1, <3>2, SemKept, BoxKept DEF SemSafe
  <2> QED BY <1>12, <2>1 DEF Turns
<1>13. ASSUME NEW m \in Box, BoxDetach(t, m) \/ BoxDetached(t, m)
       PROVE  Goal
  <2>1. mb' = mb
    BY <1>13 DEF BoxDetach, BoxDetached, boxVars
  <2>2. CASE BoxDetach(t, m)
    <3>1. Turns({}, {}, {})
      BY <2>2, DetachCall DEF BoxDetach
    <3> QED BY <1>12, <2>1, <3>1
  <2>3. CASE BoxDetached(t, m)
    BY <1>12, <2>1, <2>3, DetachedTurns
  <2> QED BY <1>13, <2>2, <2>3
<1>14. ASSUME NEW m \in Box, NEW v \in Msg, NEW n \in app.timeouts[t],
              SendWait(t, m, v, n) \/ RecvWait(t, m, n)
       PROVE  Goal
  <2>1. CASE SendWait(t, m, v, n)
    <3>1. NothingThere("send", Senders[m], m)
      BY <2>1 DEF SendWait, NothingThere
    <3> QED BY <1>7, <2>1, <3>1 DEF SendWait
  <2>2. CASE RecvWait(t, m, n)
    <3>1. PICK x \in Msg : x = NoCall.msg
      BY <1>0
    <3>2. /\ Asks(t, "recv") /\ Empty(m) /\ Enter(t, "recv", m, n, x) /\ Goto(t, "wait_sched")
          /\ k' = Block(k, t, m, n) /\ UNCHANGED <<cpu, arg, isr, prog, app, boxVars>>
          /\ NothingThere("recv", m, m)
      BY <2>2, <3>1 DEF RecvWait, NothingThere
    <3> QED BY <1>7, <3>2
  <2> QED BY <1>14, <2>1, <2>2
<1>15. ASSUME NEW m \in Box, BoxReset(t, m) PROVE Goal
  BY <1>15, ResetKeeps
<1> HIDE DEF Goal
<1>16. Goal
  BY <1>0, <1>5, <1>6, <1>10, <1>11, <1>13, <1>14, <1>15 DEF BoxStep
<1> QED BY <1>16 DEF Goal

(* The device's handler releases a semaphore or sends a mail. *)
LEMMA DeviceTurns ==
    ASSUME CallInv, Patient, BoxInv, SemSafe, NoneWaitsForMail, DeviceStep
    PROVE  (Breaks \/ CallInv') /\ SemSafe' /\ NoneWaitsForMail'
<1>1. ASSUME NEW s \in Sem, DeviceRelease(s), boxVars' = boxVars
      PROVE  (Breaks \/ CallInv') /\ SemSafe' /\ NoneWaitsForMail'
  <2>1. /\ Give(s) /\ s \in Obj /\ UNCHANGED <<cpu, pc, arg, isr, prog, waitVars>> /\ mb' = mb
        /\ \E x \in {WakeFirst(k, s)} : k' = IF k.wait[s] # <<>> THEN Schedule(x) ELSE k
    BY <1>1, ListsApart DEF DeviceRelease, boxVars
  <2>2. Turns(First(k, s), {}, {})
    BY <2>1, DeviceCall
  <2> QED BY <2>1, <2>2, GiveKeeps DEF Turns
<1>2. ASSUME NEW m \in Box, NEW v \in app.mails, DeviceSend(m, v), semVars' = semVars
      PROVE  (Breaks \/ CallInv') /\ SemSafe' /\ NoneWaitsForMail'
  <2> DEFINE b == Put(mb[m], v)
  <2>1. /\ m \in Obj /\ UNCHANGED <<cpu, pc, arg, isr, prog, waitVars>> /\ mb' = [mb EXCEPT ![m] = b]
        /\ \E x \in {WakeFirst(k, m)} : k' = IF k.wait[m] # <<>> THEN Schedule(x) ELSE k
        /\ value' = value /\ units' = units /\ ~Full(m)
    BY <1>2, ListsApart DEF DeviceSend, semVars
  <2>2. mb[m].entry < BoxSize /\ b.entry = mb[m].entry + 1
    BY <2>1, BoxEntries DEF Full, Put, Mailbox
  <2> HIDE DEF b
  <2>3. Turns(First(k, m), {}, {})
    BY <2>1, DeviceCall
  <2>4. SemSafe' /\ NoneWaitsForMail'
    BY <2>1, <2>2, <2>3, NobodyArrives, PostKeeps
  <2> QED BY <2>3, <2>4 DEF Turns
<1> QED BY <1>1, <1>2 DEF DeviceStep

-----------------------------------------------------------------------------
(* All steps.  Once an emptied list has been taken for a thread nothing more *)
(* is said of the threads.                                                   *)
IpcInv == BoxInv /\ SemSafe /\ NoneWaitsForMail /\ (k.bad \/ CallInv)

LEMMA InitIpcInv == ASSUME Patient, IpcInit PROVE IpcInv /\ ~k.bad
<1>1. WaitInv /\ InTurn(k) /\ BoxInv /\ ~k.bad
  BY InitWaiting, InitBoxInv DEF IpcInit, Init
<1>2. Fits
  BY DEF IpcInit, Init, Fits, FitsAt
<1>3. /\ \A o \in Obj : k.wait[o] = <<>>
      /\ \A s : Given(s) = {}
  BY DEF IpcInit, Init, WaitInit, NoCall, Given
<1>4. NoneWaitsForUnits /\ NoneWaitsForMail
  BY <1>3, ListsApart DEF NoneWaitsForUnits, NoneWaitsForMail
<1>5. value \in [Sem -> Nat] /\ units \in [Sem -> Int] /\ UnitsConserved
  <2>1. PICK n \in SemInit : value = [s \in Sem |-> n] /\ units = [s \in Sem |-> n]
    BY DEF IpcInit, SemInitState
  <2>2. n \in Nat /\ n \in Int
    BY SemAssumption
  <2>3. \A s \in Sem : Cardinality(Given(s)) = 0
    BY <1>3, FS_EmptySet
  <2> QED BY <2>1, <2>2, <2>3 DEF UnitsConserved
<1> QED BY <1>1, <1>2, <1>4, <1>5 DEF IpcInv, CallInv, SemSafe

LEMMA QuietKeeps ==
    ASSUME SemSafe, NoneWaitsForMail, Turns({}, {}, {}), value' = value, units' = units, mb' = mb
    PROVE  SemSafe' /\ NoneWaitsForMail'
<1>1. \A u \in {} \cup {} : frame[u].call # "take" /\ frame[u].call \notin {"send", "recv"}
  OBVIOUS
<1>2. {} \cap Sem = {} /\ {} \cap (Box \cup SenderLists) = {}
  OBVIOUS
<1> QED BY <1>1, <1>2, SemKept, BoxKept DEF SemSafe

(* The program has stopped when the kernel has lost a list. *)
LEMMA NothingMoves == ASSUME k.bad, IpcNext PROVE FALSE
<1>1. ASSUME NEW t, NEW c PROVE ~At(t, c)
  BY Halted
<1>2. ~Next
  BY Halted
<1>3. ASSUME NEW t \in Thread PROVE ~WaitStep(t)
  BY Halted
<1>4. ASSUME NEW t \in Thread PROVE ~SemStep(t)
  BY <1>1 DEF SemStep, Asks, Woken, AllWoken, TakeUnit, TakeWait, Taken, Release, SemReset,
       SemDetach, SemDetached
<1>5. ASSUME NEW t \in Thread PROVE ~BoxStep(t)
  BY <1>1 DEF BoxStep, Asks, Woken, AllWoken, Send, Urgent, SendWait, SendAgain, Recv, RecvWait,
       RecvAgain, BoxReset, BoxDetach, BoxDetached
<1>6. ~DeviceStep
  BY DEF DeviceStep, DeviceRelease, DeviceSend, DeviceAsks
<1> QED BY <1>2, <1>3, <1>4, <1>5, <1>6 DEF IpcNext

LEMMA BreaksBad == ASSUME Breaks, k \in Kernel PROVE k'.bad
BY DEF Breaks, Kernel

LEMMA NextBreaks ==
    ASSUME Patient, CallInv, BoxInv, SemSafe, NoneWaitsForMail, IpcNext
    PROVE  (Breaks \/ CallInv') /\ SemSafe' /\ NoneWaitsForMail'
<1>1. ASSUME Turns({}, {}, {}), semVars' = semVars, boxVars' = boxVars
      PROVE  (Breaks \/ CallInv') /\ SemSafe' /\ NoneWaitsForMail'
  <2>1. value' = value /\ units' = units /\ mb' = mb
    BY <1>1 DEF semVars, boxVars
  <2> QED BY <1>1, <2>1, QuietKeeps DEF Turns
<1>2. CASE Next /\ UNCHANGED <<waitVars, semVars, boxVars>>
  <2>1. Turns({}, {}, {})
    BY <1>2, NextTurns
  <2> QED BY <1>1, <1>2, <2>1
<1>3. ASSUME NEW t \in Thread, WaitStep(t), UNCHANGED <<semVars, boxVars>>
      PROVE  (Breaks \/ CallInv') /\ SemSafe' /\ NoneWaitsForMail'
  <2>1. Turns({}, {}, {})
    BY <1>3, WaitTurns
  <2> QED BY <1>1, <1>3, <2>1
<1>4. ASSUME NEW t \in Thread, SemStep(t), UNCHANGED boxVars
      PROVE  (Breaks \/ CallInv') /\ SemSafe' /\ NoneWaitsForMail'
  BY <1>4, SemTurns DEF boxVars
<1>5. ASSUME NEW t \in Thread, BoxStep(t), UNCHANGED semVars
      PROVE  (Breaks \/ CallInv') /\ SemSafe' /\ NoneWaitsForMail'
  BY <1>5, BoxTurns DEF semVars
<1> QED BY <1>2, <1>3, <1>4, <1>5, DeviceTurns DEF IpcNext

LEMMA NextIpcInv ==
    ASSUME Patient, IpcInv, [IpcNext]_ipcVars
    PROVE  IpcInv'
<1>1. BoxInv'
  BY BoxStays DEF IpcInv
<1>2. CASE UNCHANGED ipcVars
  <2>1. UNCHANGED <<k, cpu, pc, arg, isr, prog, frame, app, value, units, mb>>
    BY <1>2 DEF ipcVars, vars, waitVars, semVars, boxVars
  <2>2. SemSafe' /\ NoneWaitsForMail'
    BY <2>1 DEF IpcInv, SemSafe, UnitsConserved, NoneWaitsForUnits, NoneWaitsForMail, Given, Coming
  <2>3. CallInv' <=> CallInv
    BY <2>1 DEF CallInv, WaitInv, IInv, SwitchRecord, Places, Timely, Fits, InTurn
  <2> QED BY <1>1, <2>1, <2>2, <2>3 DEF IpcInv
<1>3. CASE IpcNext
  <2>1. CallInv /\ BoxInv /\ SemSafe /\ NoneWaitsForMail /\ k \in Kernel
    BY <1>3, NothingMoves, NowWaiting DEF IpcInv, CallInv
  <2>2. (Breaks \/ CallInv') /\ SemSafe' /\ NoneWaitsForMail'
    BY <1>3, <2>1, NextBreaks
  <2> QED BY <1>1, <2>1, <2>2, BreaksBad DEF IpcInv
<1> QED BY <1>2, <1>3

(* Every unit that was released and not taken is in the value of its          *)
(* semaphore or in the hands of a woken thread, whichever of release,        *)
(* timeout, reset, detachment and interrupt came first.                      *)
THEOREM NoUnitIsLost ==
    ASSUME Patient
    PROVE  IpcSpec => []UnitsConserved
<1>1. IpcInv => UnitsConserved
  BY DEF IpcInv, SemSafe
<1>2. IpcInit => IpcInv
  BY InitIpcInv
<1>3. IpcInv /\ [IpcNext]_ipcVars => IpcInv'
  BY NextIpcInv
<1> QED BY <1>1, <1>2, <1>3, PTL DEF IpcSpec

(* No thread waits for a semaphore that has units, none for a mail or a slot *)
(* that nobody is on the way to take, however many were woken, overtaken and *)
(* waited again.                                                             *)
THEOREM NobodyWaitsInVain ==
    ASSUME Patient
    PROVE  IpcSpec => []NoneWaitsInVain
<1>1. IpcInv => NoneWaitsInVain
  BY DEF IpcInv, SemSafe, NoneWaitsInVain
<1>2. IpcInit => IpcInv
  BY InitIpcInv
<1>3. IpcInv /\ [IpcNext]_ipcVars => IpcInv'
  BY NextIpcInv
<1> QED BY <1>1, <1>2, <1>3, PTL DEF IpcSpec

-----------------------------------------------------------------------------
(* Applications that detach and delete no object, in which no thread's       *)
(* priority is changed.                                                      *)
Settled == /\ \A g \in Programs : g.prio = {}
           /\ \A a \in Apps, t \in Thread : a.calls[t] \cap {"sem_detach", "mb_detach"} = {}

(* No thread is waking all those in a list with interrupts enabled. *)
NoneTears == \A t \in Thread : pc[t] \notin {"wake_test", "wake_take"}

(* Where a step leaves its thread. *)
LEMMA GoesElsewhere ==
    ASSUME NoneTears, pc \in [Thread -> Pc], NEW t \in Thread, NEW w,
           w \notin {"wake_test", "wake_take"}, Goto(t, w)
    PROVE  NoneTears'
BY DEF NoneTears, Goto

LEMMA NextNoneTears ==
    ASSUME Patient, Settled, NoneTears, CallInv, BoxInv, IpcNext
    PROVE  NoneTears'
<1>0. pc \in [Thread -> Pc] /\ \A t \in Thread : app.calls[t] \cap {"sem_detach", "mb_detach"} = {}
  BY NowWaiting DEF CallInv, WaitInv, Settled
<1>1. CASE pc' = pc
  BY <1>1 DEF NoneTears
<1>2. ASSUME NEW t \in Thread, NEW w, w \notin {"wake_test", "wake_take"}, Goto(t, w)
      PROVE  NoneTears'
  BY <1>0, <1>2, GoesElsewhere
<1>3. CASE Next /\ UNCHANGED waitVars
  <2>1. Effect
    BY <1>3, NextKeepsWaiting DEF CallInv, waitVars
  <2> QED BY <2>1 DEF Effect, NoneTears, InCall
<1>4. ASSUME NEW t \in Thread, WaitStep(t) PROVE NoneTears'
  <2>1. ~WakeMore(t) /\ ~WakeTake(t)
    BY DEF NoneTears, WakeMore, WakeTake, At
  <2>2. Goto(t, "woken") \/ Goto(t, "user")
    BY <1>4, <2>1 DEF WaitStep, WaitSchedule, WaitFails
  <2> QED BY <1>2, <2>2
<1>5. ASSUME NEW t \in Thread, SemStep(t) PROVE NoneTears'
  <2>1. ~SemDetached(t) /\ \A s \in Sem : ~SemDetach(t, s)
    BY <1>0 DEF NoneTears, SemDetached, AllWoken, At, SemDetach, Asks
  <2>2. pc' = pc \/ \E w \in {"user", "sched", "wait_sched"} : Goto(t, w)
    BY <1>5, <2>1 DEF SemStep, TakeUnit, TakeWait, Taken, Release, SemReset
  <2> QED BY <1>1, <1>2, <2>2
<1>6. ASSUME NEW t \in Thread, BoxStep(t) PROVE NoneTears'
  <2>1. \A m \in Box : ~BoxDetached(t, m) /\ ~BoxDetach(t, m)
    BY <1>0 DEF NoneTears, BoxDetached, AllWoken, At, BoxDetach, Asks
  <2>2. \E w \in {"user", "sched", "wait_sched"} : Goto(t, w)
    BY <1>6, <2>1 DEF BoxStep, Send, Urgent, Post, SendWait, SendAgain, Recv, Fetch, RecvWait,
         RecvAgain, BoxReset
  <2> QED BY <1>2, <2>2
<1>7. CASE DeviceStep
  <2>1. pc' = pc
    BY <1>7 DEF DeviceStep, DeviceRelease, DeviceSend
  <2> QED BY <1>1, <2>1
<1> QED BY <1>3, <1>4, <1>5, <1>6, <1>7 DEF IpcNext

SettledInv == IpcInv /\ CallInv /\ NoneTears

(* Waiting threads are suspended, in one list, that of their call, in the    *)
(* order of its flag, and the timer that ends the wait is running and will   *)
(* go off when what was left of the timeout is over (ipc.c:540-551, 212-222), *)
(* however often they were woken and waited again.                           *)
THEOREM WaitersAreSound ==
    ASSUME Patient, Settled
    PROVE  IpcSpec => []WaitersSound
<1>1. SettledInv => WaitersSound
  <2> SUFFICES ASSUME SettledInv PROVE WaitersSound
    OBVIOUS
  <2>1. QueuesMatchStat
    BY QueuesNow DEF SettledInv, CallInv, WaitInv
  <2>2. WaitersTimed
    BY DEF SettledInv, CallInv, WaitInv, CallsSound, CallSound, WaitersTimed, Waiting
  <2>3. WaitersInOrder
    <3>1. prog \in Programs
      BY DEF SettledInv, CallInv, WaitInv, IInv
    <3>2. InTurn(k)
      BY <3>1 DEF SettledInv, CallInv, Settled
    <3> QED BY <3>2 DEF InTurn, InOrder, WaitersInOrder
  <2> QED BY <2>1, <2>2, <2>3 DEF WaitersSound
<1>2. IpcInit => SettledInv
  <2> SUFFICES ASSUME IpcInit PROVE SettledInv
    OBVIOUS
  <2>1. IpcInv /\ ~k.bad
    BY InitIpcInv
  <2>2. NoneTears
    BY DEF IpcInit, Init, NoneTears
  <2> QED BY <2>1, <2>2 DEF SettledInv, IpcInv
<1>3. SettledInv /\ [IpcNext]_ipcVars => SettledInv'
  <2> SUFFICES ASSUME SettledInv, [IpcNext]_ipcVars PROVE SettledInv'
    OBVIOUS
  <2>1. IpcInv'
    BY NextIpcInv DEF SettledInv
  <2>2. NoneTears'
    <3>1. CASE UNCHANGED ipcVars
      BY <3>1 DEF ipcVars, vars, SettledInv, NoneTears
    <3>2. CASE IpcNext
      BY <3>2, NextNoneTears DEF SettledInv, IpcInv
    <3> QED BY <3>1, <3>2
  <2>3. ~k'.bad
    <3>1. ~k.bad /\ k \in Kernel
      BY NowWaiting DEF SettledInv, CallInv, WaitInv, IInv, Sound, SoundBut
    <3>2. CallInv' \/ Breaks \/ UNCHANGED ipcVars
      BY NextBreaks DEF SettledInv, IpcInv
    <3>3. ~Breaks
      BY DEF SettledInv, NoneTears, Breaks
    <3>4. CallInv' => ~k'.bad
      BY DEF CallInv, WaitInv, IInv, Sound, SoundBut
    <3> QED BY <3>1, <3>2, <3>3, <3>4 DEF ipcVars, vars
  <2> QED BY <2>1, <2>2, <2>3 DEF SettledInv, IpcInv
<1> QED BY <1>1, <1>2, <1>3, PTL DEF IpcSpec
=============================================================================
