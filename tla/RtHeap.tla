------------------------------- MODULE RtHeap -------------------------------
(***************************************************************************)
(* The heap behind rt_malloc, rt_realloc and rt_free (kservice.c), for each *)
(* allocator that the configuration may choose: mem.c, memheap.c or slab.c. *)
(* The front end locks the heap around every call.                          *)
(***************************************************************************)
EXTENDS Integers

CONSTANTS
    Align, Header, MinSize, Total, Word, Request,       \* of RtSmallMem
    ItemSize, MiniAlloc, PoolSize,                      \* of RtMemHeap
    PageSize, Pages, UsagePages, ZonePages, ZoneHeader, \* of RtSlab
    ZoneLimit, ReleaseThresh, Callers

(* What the headers and the configuration guarantee. *)
ASSUME SmallMemAssumption ==
    /\ Align \in Nat \ {0} /\ Header \in Nat \ {0} /\ MinSize \in Nat \ {0}
    /\ Total \in Nat /\ Word \in Nat
    /\ Header % Align = 0 /\ Total % Align = 0 /\ Word % Align = 0
    /\ Total + 2 * Header + MinSize + Align < Word
    /\ Request \subseteq 0..(Word - Align)      \* what RT_ALIGN does not wrap to 0
ASSUME MemHeapAssumption ==
    /\ ItemSize \in Nat \ {0} /\ MiniAlloc \in Nat \ {0}
    /\ PoolSize \in Nat /\ 2 * ItemSize <= PoolSize  \* for the items of rt_memheap_init
    /\ ItemSize % Align = 0 /\ MiniAlloc % Align = 0 /\ PoolSize % Align = 0
ASSUME SlabAssumption ==
    /\ PageSize \in Nat \ {0} /\ PageSize % 8 = 0
    /\ Pages \in Nat /\ UsagePages \in 1..Pages /\ ZonePages \in Nat \ {0}
    /\ ZoneHeader \in Nat /\ ZoneLimit \in 0..16384 /\ ReleaseThresh \in Nat
    /\ \A c \in Callers : c.sizes \subseteq Nat

VARIABLES
    config, \* the allocator that rtconfig.h chooses; it never changes
    heap,   \* its state
    live,   \* history: the size that each block handed out was asked for
    aside   \* the auxiliary variable of RtMemHeap and of RtSlab

vars == <<config, heap, live, aside>>

SmallMem == INSTANCE RtSmallMem WITH h <- heap
MemHeap  == INSTANCE RtMemHeap WITH m <- heap, copied <- aside
Slab     == INSTANCE RtSlab WITH s <- heap, by <- aside

(* zone_limit is a quarter of a zone, so that a zone has two chunks at least; *)
(* a page is a multiple of every step that chunks are rounded up to.         *)
ASSUME SlabChunkAssumption ==
    \A n \in Slab!Sizes \ {0} :
       /\ n < ZoneLimit => Slab!BaseOf(Slab!ChunkSize(n)) + 2 * Slab!ChunkSize(n)
                           <= ZonePages * PageSize
       /\ Slab!LargePages(Slab!ChunkSize(n)) = Slab!LargePages(n)

(* rt_system_heap_init *)
Init == \/ config = "small" /\ SmallMem!Init /\ aside = {}
        \/ config = "memheap" /\ MemHeap!Init
        \/ config = "slab" /\ Slab!Init

CallSmallMem == config = "small" /\ SmallMem!Next /\ UNCHANGED <<config, aside>>
CallMemHeap == config = "memheap" /\ MemHeap!Next /\ UNCHANGED config
CallSlab == config = "slab" /\ Slab!Next /\ UNCHANGED config

Next == CallSmallMem \/ CallMemHeap \/ CallSlab

Spec == Init /\ [][Next]_vars

-----------------------------------------------------------------------------
(* Properties. *)

(* The blocks tile the memory: each ends where the next one begins, what the *)
(* heap knows of their neighbours agrees with where they lie, and two free   *)
(* neighbours have always been joined (plug_holes, rt_memheap_free,          *)
(* rt_slab_page_free).                                                       *)
BlocksTile ==
    /\ config = "small" => SmallMem!ChainSound
    /\ config = "memheap" => MemHeap!ItemsTile
    /\ config = "slab" => Slab!PagesTile

(* No free memory is lost.  The search finds it: lfree is the lowest free    *)
(* item of mem.c, the free list of memheap.c has every free item, and a zone *)
(* of slab.c is listed for its size exactly while it has a free chunk.  And  *)
(* rt_memory_info reports the memory that is really in use.                  *)
SearchFindsAll ==
    /\ config = "small" => SmallMem!LfreeLowest
    /\ config = "memheap" => MemHeap!FreeListExact
    /\ config = "slab" => Slab!ZonesExact
UsedExact ==
    /\ config = "small" => SmallMem!SmallUsedExact
    /\ config = "memheap" => MemHeap!AvailableExact
    /\ config = "slab" => Slab!SlabUsedExact
NothingLost == SearchFindsAll /\ UsedExact

(* rt_malloc, rt_realloc and rt_free hand out memory as a heap should: the   *)
(* bytes asked for, inside the heap, and never bytes that another caller     *)
(* still owns or that hold the record in front of its block.                 *)
Shape == [ small   |-> [size |-> SmallMem!End, record |-> Header],
           memheap |-> [size |-> PoolSize, record |-> ItemSize],
           slab    |-> [size |-> Pages * PageSize, record |-> 0] ]
Abs == INSTANCE AbsHeap WITH shape <- Shape[config]
HeapIsAllocator == Abs!Spec
=============================================================================
