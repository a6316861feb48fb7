----------------------------- MODULE RtSmallMem -----------------------------
(***************************************************************************)
(* mem.c: the small memory heap, and rt_malloc, rt_realloc and rt_free in   *)
(* front of it (kservice.c), which lock the scheduler around every call, so *)
(* that a call is one step.  The heap is a chain of items, each a header    *)
(* followed by its payload, doubly linked by offsets from heap_ptr; lfree   *)
(* is where the search for memory begins.                                   *)
(***************************************************************************)
EXTENDS Integers

CONSTANTS
    Align,      \* RT_ALIGN_SIZE
    Header,     \* SIZEOF_STRUCT_MEM
    MinSize,    \* MIN_SIZE
    Total,      \* mem_size_aligned
    Word,       \* 2^32: rt_size_t wraps around at this value
    Request     \* the sizes asked for, in bytes

(* RT_ALIGN: the addition wraps around. *)
AlignUp(n) == LET up == (n + Align - 1) % Word IN up - (up % Align)

End == Total + Header           \* heap_end
Off == 0..End

(* struct rt_small_mem_item.  Offsets where no item begins are payload: state *)
(* "none"; MEM_ISUSED tells the other two apart.                             *)
Item == [state : {"none", "free", "used"}, next : Off, prev : Off]
NoItem == [state |-> "none", next |-> 0, prev |-> 0]

VARIABLES
    h,      \* struct rt_small_mem: the items, lfree, used
    live    \* history: [Off -> size asked for by the owner of the item, or 0]

vars == <<h, live>>

Heap == [item : [Off -> Item], lfree : Off, used : Nat, max : Nat]

(* rt_smem_init: one free item, and heap_end, which is never freed. *)
Init ==
    /\ h = [ item  |-> [i \in Off |->
                           IF i = 0   THEN [state |-> "free", next |-> End, prev |-> 0]
                           ELSE IF i = End THEN [state |-> "used", next |-> End, prev |-> End]
                           ELSE NoItem],
             lfree |-> 0, used |-> 0, max |-> 0 ]
    /\ live = [i \in Off |-> 0]

Is(x, i, s) == x.item[i].state = s
Payload(x, i) == x.item[i].next - (i + Header)

-----------------------------------------------------------------------------
(* From heap to heap. *)

(* plug_holes, forward: a free successor becomes part of i. *)
PlugForward(x, i) ==
    LET n  == x.item[i].next
        nn == x.item[n].next
    IN  IF n = i \/ ~Is(x, n, "free") \/ n = End THEN x
        ELSE [x EXCEPT !.lfree = IF @ = n THEN i ELSE @,
                       !.item = [@ EXCEPT ![i].next = nn, ![nn].prev = i, ![n] = NoItem]]

(* plug_holes, backward: i becomes part of a free predecessor. *)
PlugBackward(x, i) ==
    LET p == x.item[i].prev
        n == x.item[i].next
    IN  IF p = i \/ ~Is(x, p, "free") THEN x
        ELSE [x EXCEPT !.lfree = IF @ = i THEN p ELSE @,
                       !.item = [@ EXCEPT ![p].next = n, ![n].prev = p, ![i] = NoItem]]

PlugHoles(x, i) == PlugBackward(PlugForward(x, i), i)

(* Variant: the header of the rest is forgotten. *)
SplitShort(x, i, n) ==
    LET j == i + n
        e == x.item[i].next
        s == [x.item EXCEPT ![j] = [state |-> "free", next |-> e, prev |-> i], ![i].next = j]
    IN  [x EXCEPT !.item = IF e # End THEN [s EXCEPT ![e].prev = j] ELSE s]

(* i keeps n bytes of payload, the rest becomes a free item.  The prev of    *)
(* heap_end is not kept up to date.                                          *)
Split(x, i, n) ==
    LET j == i + Header + n
        e == x.item[i].next
        s == [x.item EXCEPT ![j] = [state |-> "free", next |-> e, prev |-> i], ![i].next = j]
    IN  [x EXCEPT !.item = IF e # End THEN [s EXCEPT ![e].prev = j] ELSE s]

(* The size a block must have. *)
Rounded(n) == IF AlignUp(n) < AlignUp(MinSize) THEN AlignUp(MinSize) ELSE AlignUp(n)

(* First fit: the search follows the chain from lfree. *)
Fits(x, i, n) == i >= x.lfree /\ i <= Total - n /\ Is(x, i, "free") /\ Payload(x, i) >= n
FirstFit(x, n) == CHOOSE i \in Off : Fits(x, i, n) /\ \A j \in Off : Fits(x, j, n) => i <= j

(* The first item from i on that is free or heap_end. *)
NextFree(x, i) ==
    CHOOSE j \in Off : /\ j >= i /\ (Is(x, j, "free") \/ j = End)
                       /\ \A l \in i..(j - 1) : ~Is(x, l, "free")

(* rt_smem_alloc, once a free item i is found. *)
Occupy(x, i, n) ==
    LET s == IF Payload(x, i) >= n + Header + AlignUp(MinSize) THEN Split(x, i, n) ELSE x
        u == [s EXCEPT !.item[i].state = "used", !.used = @ + s.item[i].next - i]
        f == IF i = u.lfree THEN [u EXCEPT !.lfree = NextFree(u, i)] ELSE u
    IN  [f EXCEPT !.max = IF @ < u.used THEN u.used ELSE @]

CanAlloc(x, n) == /\ n > 0 /\ Rounded(n) <= Total
                  /\ \E i \in Off : Fits(x, i, Rounded(n))

(* Variant: the lowest free item is not looked after. *)
FreeKeepLfree(x, i) ==
    PlugHoles([x EXCEPT !.item[i].state = "free", !.used = @ - (x.item[i].next - i)], i)

(* rt_smem_free. *)
FreeItem(x, i) ==
    PlugHoles([x EXCEPT !.item[i].state = "free",
                        !.lfree = IF i < @ THEN i ELSE @,
                        !.used = @ - (x.item[i].next - i)], i)

(* rt_smem_realloc, when the block is large enough to be split. *)
Shrink(x, i, n) ==
    LET j == i + Header + n
        s == Split([x EXCEPT !.used = @ - (Payload(x, i) - n)], i, n)
    IN  PlugHoles([s EXCEPT !.lfree = IF j < @ THEN j ELSE @], j)

-----------------------------------------------------------------------------
(* Calls.  A block is named by the offset of its item; its address is that   *)
(* plus Header.  A call that finds no memory returns RT_NULL and changes     *)
(* nothing.                                                                  *)

Owned(i) == i # End /\ Is(h, i, "used")     \* what a caller may pass back

(* rt_malloc. *)
Malloc(n) ==
    /\ CanAlloc(h, n)
    /\ \E i \in {FirstFit(h, Rounded(n))} :
          /\ h' = Occupy(h, i, Rounded(n))
          /\ live' = [live EXCEPT ![i] = n]

(* rt_malloc_align with the alignment a, a power of 2 not below that of a    *)
(* pointer, which is Align: the block has room to move the address up to a   *)
(* multiple of a, past the word in front of it that keeps the real address   *)
(* for rt_free_align.                                                        *)
AlignedAt(p, a) == IF p % a = 0 THEN p + a ELSE (p + a - 1) - ((p + a - 1) % a)

MallocAlign(n, a) ==
    /\ CanAlloc(h, AlignUp(n) + a)
    /\ \E i \in {FirstFit(h, Rounded(AlignUp(n) + a))} :
          /\ h' = Occupy(h, i, Rounded(AlignUp(n) + a))
          /\ live' = [live EXCEPT ![i] = AlignedAt(i + Header, a) - (i + Header) + n]

(* rt_free; rt_free_align finds the same block. *)
Free(i) ==
    /\ Owned(i)
    /\ h' = FreeItem(h, i)
    /\ live' = [live EXCEPT ![i] = 0]

(* rt_realloc of a block, to a size that fits the heap; with RT_NULL it is   *)
(* rt_malloc, with 0 it is rt_free.                                          *)
ReallocSame(i, n) ==
    /\ Owned(i) /\ n > 0 /\ AlignUp(n) = Payload(h, i)
    /\ live' = [live EXCEPT ![i] = n]
    /\ UNCHANGED h

Shrinks(i, n) == Owned(i) /\ n > 0 /\ AlignUp(n) + Header + MinSize < Payload(h, i)

ReallocShrink(i, n) ==
    /\ Shrinks(i, n)
    /\ h' = Shrink(h, i, AlignUp(n))
    /\ live' = [live EXCEPT ![i] = n]

(* A new block is taken before the old one is freed; if there is none the    *)
(* old one is kept.                                                          *)
ReallocMove(i, n) ==
    /\ Owned(i) /\ ~Shrinks(i, n) /\ AlignUp(n) # Payload(h, i) /\ AlignUp(n) <= Total
    /\ CanAlloc(h, AlignUp(n))
    /\ \E j \in {FirstFit(h, Rounded(AlignUp(n)))} :
          /\ h' = FreeItem(Occupy(h, j, Rounded(AlignUp(n))), i)
          /\ live' = [live EXCEPT ![i] = 0, ![j] = n]

(* rt_realloc *)
Realloc(i, n) == ReallocSame(i, n) \/ ReallocShrink(i, n) \/ ReallocMove(i, n)

Next == \/ \E n \in Request : Malloc(n)
        \/ MallocAlign(1, 2 * Align)
        \/ \E i \in Off : Free(i)
        \/ \E i \in Off, n \in Request : Realloc(i, n)

-----------------------------------------------------------------------------
(* What RtHeap checks of this heap. *)

IsItem(i) == h.item[i].state # "none"

(* The items tile the heap: each ends where the next one begins, nothing     *)
(* begins in between, the links back agree with the links forward (but for   *)
(* heap_end), and no two free items touch.                                   *)
ChainSound ==
    /\ IsItem(0) /\ h.item[0].prev = 0
    /\ Is(h, End, "used") /\ h.item[End].next = End
    /\ \A i \in Off : IsItem(i) /\ i # End =>
          LET n == h.item[i].next
          IN  /\ i + Header <= n /\ IsItem(n)
              /\ \A j \in (i + 1)..(n - 1) : ~IsItem(j)
              /\ n # End => h.item[n].prev = i
              /\ Is(h, i, "free") => Is(h, n, "used")

(* lfree is the lowest free item, or heap_end: the search that begins there  *)
(* misses no free memory, and no memory is lost.                             *)
LfreeLowest ==
    /\ h.lfree = End \/ Is(h, h.lfree, "free")
    /\ \A i \in 0..(h.lfree - 1) : ~Is(h, i, "free")

(* rt_memory_info: used is the size of the used items, headers included.     *)
SmallUsedExact ==
    LET size[i \in Off] == (IF i # End /\ Is(h, i, "used") THEN h.item[i].next - i ELSE 0)
                           + (IF i = 0 THEN 0 ELSE size[i - 1])
    IN  h.used = size[End] /\ h.used <= h.max /\ h.max <= End
=============================================================================
