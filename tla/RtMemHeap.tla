------------------------------ MODULE RtMemHeap ------------------------------
(***************************************************************************)
(* memheap.c: a heap of items that are linked twice, in the order of their  *)
(* addresses (next and prev, circular through the used item at the tail)    *)
(* and, while they are free, in the free list, whose first block that fits  *)
(* is taken.  Every entry point holds the semaphore of the heap while it    *)
(* reads or writes it, so one such stretch is one step; rt_memheap_realloc, *)
(* when it has to move a block, takes and gives back that semaphore twice.  *)
(***************************************************************************)
EXTENDS Integers, SequencesExt, Lists

CONSTANTS
    Align,      \* RT_ALIGN_SIZE
    ItemSize,   \* RT_MEMHEAP_SIZE
    MiniAlloc,  \* RT_MEMHEAP_MINIALLOC
    PoolSize,   \* pool_size
    Request     \* the sizes asked for, in bytes

Off == 0..(PoolSize - 1)            \* offsets from start_addr
Tailer == PoolSize - ItemSize       \* the used item of length 0 at the end

(* struct rt_memheap_item; the bit of its magic is its state. *)
Item == [state : {"none", "free", "used"}, next : Off, prev : Off]
NoItem == [state |-> "none", next |-> 0, prev |-> 0]

VARIABLES
    m,      \* struct rt_memheap: the items, the free list, available_size, max_used_size
    live,   \* history: [Off -> bytes given to the owner of the item, or 0]
    copied  \* items a realloc has copied to their new place and not yet freed

vars == <<m, live, copied>>

(* rt_memheap_init *)
Init ==
    /\ m = [ item |-> [i \in Off |->
                         IF i = 0 THEN [state |-> "free", next |-> Tailer, prev |-> Tailer]
                         ELSE IF i = Tailer THEN [state |-> "used", next |-> 0, prev |-> 0]
                         ELSE NoItem],
             free |-> <<0>>,
             available |-> PoolSize - 2 * ItemSize,
             max |-> 2 * ItemSize ]
    /\ live = [i \in Off |-> 0]
    /\ copied = {}

-----------------------------------------------------------------------------
(* From heap to heap. *)

Is(x, i, s) == x.item[i].state = s
ItemBytes(x, i) == x.item[i].next - i - ItemSize        \* MEMITEM_SIZE

(* The size a block must have. *)
Rounded(n) ==
    LET up == n + Align - 1
        a  == up - (up % Align)
    IN  IF a < MiniAlloc THEN MiniAlloc ELSE a

TakeOut(x, i) == [x EXCEPT !.free = Unlink(@, i)]

(* A free item begins at j, inside i, at the head of the free list. *)
SplitAt(x, i, j) ==
    LET e == x.item[i].next
    IN  [x EXCEPT !.item = [@ EXCEPT ![j] = [state |-> "free", next |-> e, prev |-> i],
                                     ![e].prev = j, ![i].next = j],
                  !.free = PushFront(@, j)]

(* The item after i becomes part of i. *)
Join(x, i) ==
    LET n == x.item[i].next
        e == x.item[n].next
    IN  [x EXCEPT !.item = [@ EXCEPT ![i].next = e, ![e].prev = i, ![n] = NoItem]]

NoteMax(x) == [x EXCEPT !.max = IF PoolSize - x.available > @ THEN PoolSize - x.available ELSE @]

CanAlloc(x, n) == /\ n < x.available
                  /\ \E k \in DOMAIN x.free : ItemBytes(x, x.free[k]) >= n

FirstFit(x, n) == x.free[SelectInSeq(x.free, LAMBDA i : ItemBytes(x, i) >= n)]

(* rt_memheap_alloc, once a free item i is found: it is split if the rest can *)
(* hold a header and a minimal block.                                        *)
Occupy(x, i, n) ==
    LET out == TakeOut(x, i)
        all == ItemBytes(x, i)
        s == IF all >= n + ItemSize + MiniAlloc
             THEN [SplitAt(out, i, i + ItemSize + n) EXCEPT !.available = @ - n - ItemSize]
             ELSE [out EXCEPT !.available = @ - all]
    IN  NoteMax([s EXCEPT !.item[i].state = "used"])

(* rt_memheap_free: a block that joins the one before it is in the free list *)
(* already; one that joins the one after it takes that one out.              *)
FreeItem(x, i) ==
    LET a == [x EXCEPT !.item[i].state = "free", !.available = @ + ItemBytes(x, i)]
        p == a.item[i].prev
        left == Is(a, p, "free")
        b == IF left THEN [Join(a, p) EXCEPT !.available = @ + ItemSize] ELSE a
        k == IF left THEN p ELSE i
        n == b.item[k].next
        c == IF Is(b, n, "free")
             THEN [Join(TakeOut(b, n), k) EXCEPT !.available = @ + ItemSize]
             ELSE b
    IN  IF left THEN c ELSE [c EXCEPT !.free = PushFront(@, k)]

(* rt_memheap_realloc, when the free block behind i has room for the growth *)
(* and for a new free block.                                                *)
Grow(x, i, n) ==
    LET y == NoteMax([x EXCEPT !.available = @ - (n - ItemBytes(x, i))])
    IN  SplitAt(Join(TakeOut(y, y.item[i].next), i), i, i + ItemSize + n)

(* rt_memheap_realloc to a smaller size: the rest joins a free block behind it. *)
Shrink(x, i, n) ==
    LET j == i + ItemSize + n
        s == SplitAt(x, i, j)
        f == s.item[j].next
        g == IF Is(s, f, "free")
             THEN [Join(TakeOut(s, f), j) EXCEPT !.available = @ - ItemBytes(s, f)]
             ELSE s
    IN  [g EXCEPT !.available = @ + ItemBytes(g, j)]

-----------------------------------------------------------------------------
(* Calls.  A block is named by the offset of its item; its address is that   *)
(* plus ItemSize.  A call that finds no memory returns RT_NULL and changes   *)
(* nothing: _memheap_realloc then tries rt_memheap_alloc once more, which    *)
(* can succeed only if another caller has freed a block in between.          *)

Owned(i) == i # Tailer /\ Is(m, i, "used") /\ i \notin copied

Malloc(n) ==
    /\ CanAlloc(m, Rounded(n))
    /\ \E i \in {FirstFit(m, Rounded(n))} :
          /\ m' = Occupy(m, i, Rounded(n))
          /\ live' = [live EXCEPT ![i] = Rounded(n)]
    /\ UNCHANGED copied

Free(i) ==
    /\ Owned(i)
    /\ m' = FreeItem(m, i)
    /\ live' = [live EXCEPT ![i] = 0]
    /\ UNCHANGED copied

Grows(i, n) ==
    LET next == m.item[i].next
    IN  /\ n > ItemBytes(m, i)
        /\ Is(m, next, "free")
        /\ ItemBytes(m, next) + ItemBytes(m, i) > n + MiniAlloc

ReallocGrow(i, n) ==
    /\ Owned(i) /\ Grows(i, n)
    /\ m' = Grow(m, i, n)
    /\ live' = [live EXCEPT ![i] = n]
    /\ UNCHANGED copied

ReallocKeep(i, n) ==
    /\ Owned(i)
    /\ n <= ItemBytes(m, i) /\ n + ItemSize + MiniAlloc >= ItemBytes(m, i)
    /\ live' = [live EXCEPT ![i] = n]
    /\ UNCHANGED <<m, copied>>

ReallocShrink(i, n) ==
    /\ Owned(i) /\ n + ItemSize + MiniAlloc < ItemBytes(m, i)
    /\ m' = Shrink(m, i, n)
    /\ live' = [live EXCEPT ![i] = n]
    /\ UNCHANGED copied

(* The block cannot grow where it is: a new one is taken and the contents    *)
(* copied; the semaphore is free until the old block is given back.          *)
ReallocMove(i, n) ==
    /\ Owned(i) /\ n > ItemBytes(m, i) /\ ~Grows(i, n) /\ CanAlloc(m, n)
    /\ \E j \in {FirstFit(m, n)} :
          /\ m' = Occupy(m, j, n)
          /\ live' = [live EXCEPT ![j] = n]
    /\ copied' = copied \cup {i}

FreeOld(i) ==
    /\ i \in copied
    /\ m' = FreeItem(m, i)
    /\ live' = [live EXCEPT ![i] = 0]
    /\ copied' = copied \ {i}

(* rt_memheap_realloc; with size 0 it is rt_memheap_free, with RT_NULL it is *)
(* rt_memheap_alloc.                                                         *)
Realloc(i, n) == \/ ReallocGrow(i, Rounded(n))
                 \/ ReallocKeep(i, Rounded(n))
                 \/ ReallocShrink(i, Rounded(n))
                 \/ ReallocMove(i, Rounded(n))

Next == \/ \E n \in Request : Malloc(n)
        \/ \E i \in Off : Free(i) \/ FreeOld(i)
        \/ \E i \in Off, n \in Request \ {0} : Realloc(i, n)

-----------------------------------------------------------------------------
(* What RtHeap checks of this heap. *)

(* The items tile the pool, each links back to the one before it, around the *)
(* tail, and no two free items touch.                                        *)
ItemsTile ==
    /\ ~Is(m, 0, "none") /\ Is(m, Tailer, "used")
    /\ \A i \in Off : ~Is(m, i, "none") =>
          LET n == m.item[i].next
          IN  /\ ~Is(m, n, "none") /\ m.item[n].prev = i
              /\ IF i = Tailer THEN n = 0
                 ELSE /\ i + ItemSize <= n
                      /\ \A j \in (i + 1)..(n - 1) : Is(m, j, "none")
              /\ Is(m, i, "free") => Is(m, n, "used")

(* The free list holds every free item, once, and nothing else. *)
FreeListExact ==
    /\ IsOnce(m.free)
    /\ Elems(m.free) = {i \in Off : Is(m, i, "free")}

(* available_size is what the free items can hold. *)
AvailableExact ==
    LET room[i \in Off] == (IF Is(m, i, "free") THEN ItemBytes(m, i) ELSE 0)
                           + (IF i = 0 THEN 0 ELSE room[i - 1])
    IN  /\ m.available = room[PoolSize - 1]
        /\ m.available >= 0 /\ PoolSize - m.available <= m.max
=============================================================================
