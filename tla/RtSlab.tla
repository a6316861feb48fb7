------------------------------- MODULE RtSlab -------------------------------
(***************************************************************************)
(* slab.c: an allocator of pages, and over it zones, runs of pages that are *)
(* cut into chunks of one size.  A chunk comes from a zone of its size, or  *)
(* a new zone is made; a zone that becomes empty while its size has another *)
(* one is kept in zone_free for any size, and given back to the pages once  *)
(* more than ReleaseThresh are kept.  Large requests are runs of pages.     *)
(* There is no lock here: rt_malloc, rt_realloc and rt_free lock the heap.  *)
(***************************************************************************)
EXTENDS Lists, Integers, FiniteSetsExt, SequencesExt

CONSTANTS
    PageSize,       \* RT_MM_PAGE_SIZE, in bytes
    Pages,          \* pages of the heap
    UsagePages,     \* pages of the array memusage
    ZonePages,      \* zone_page_cnt
    ZoneHeader,     \* sizeof(struct rt_slab_zone)
    ZoneLimit,      \* zone_limit: smaller requests get a chunk
    ReleaseThresh,  \* ZONE_RELEASE_THRESH
    Callers         \* the programs around it: [sizes, max], the sizes that one asks for and
                    \* the most blocks that it holds at a time

Page == 0..(Pages - 1)
Chunk8 == {8 * k : k \in 0..((Pages * PageSize) \div 8 - 1)}    \* addresses of blocks
MinChunk == 8                                                   \* MIN_CHUNK_SIZE

(* zoneindex: the rows give the size up to which a row holds, the step its   *)
(* chunks are rounded up to, and the offset of its indices.                  *)
ZoneRow == << <<128, 8, -1>>, <<256, 16, 7>>, <<512, 32, 15>>, <<1024, 64, 23>>,
              <<2048, 128, 31>>, <<4096, 256, 39>>, <<8192, 512, 47>>, <<16384, 1024, 55>> >>

RowOf(n) == ZoneRow[SelectInSeq(ZoneRow, LAMBDA r : n < r[1])]
UpTo(n, step) == ((n + step - 1) \div step) * step
ChunkSize(n) == IF n < 16384 THEN UpTo(n, RowOf(n)[2]) ELSE n
ZoneIndex(n) == ChunkSize(n) \div RowOf(n)[2] + RowOf(n)[3]

Sizes == UNION {c.sizes : c \in Callers}
Indices == {ZoneIndex(n) : n \in {r \in Sizes : 0 < r /\ r < ZoneLimit}}

VARIABLES
    s,      \* struct rt_slab: page_list, memusage, the zones, zone_array, zone_free, used
    live,   \* history: [Chunk8 -> size asked for by the owner of the block, or 0]
    by      \* the caller, which never changes, and raw, the addresses that it has
            \* from rt_page_alloc

vars == <<s, live, by>>

NoZone == [index |-> -1, size |-> 0, nfree |-> 0, nmax |-> 0, uindex |-> 0, base |-> 0,
           chunks |-> <<>>]
Unused == [type |-> "free", size |-> 0]

-----------------------------------------------------------------------------
(* The page allocator: page_list, in the order of addresses, of free runs. *)

(* Variant: a run that touches both neighbours joins only the first. *)
PageFreeOneSide(list, a, n) ==
    LET Touches(r) == r.first + r.count = a \/ r.first >= a + n
        k == SelectInSeq(list, Touches)
    IN  IF k = 0 THEN Append(list, [first |-> a, count |-> n])
        ELSE LET r == list[k]
             IN  IF r.first + r.count = a THEN [list EXCEPT ![k].count = @ + n]
                 ELSE IF r.first = a + n
                 THEN [list EXCEPT ![k] = [first |-> a, count |-> r.count + n]]
                 ELSE InsertAt(list, k, [first |-> a, count |-> n])

(* rt_slab_page_free *)
PageFree(list, a, n) ==
    LET Touches(r) == r.first + r.count = a \/ r.first >= a + n
        k == SelectInSeq(list, Touches)
    IN  IF k = 0 THEN Append(list, [first |-> a, count |-> n])
        ELSE LET r == list[k]
             IN  IF r.first + r.count = a
                 THEN IF k < Len(list) /\ list[k + 1].first = a + n
                      THEN RemoveAt([list EXCEPT ![k].count = @ + n + list[k + 1].count], k + 1)
                      ELSE [list EXCEPT ![k].count = @ + n]
                 ELSE IF r.first = a + n
                 THEN [list EXCEPT ![k] = [first |-> a, count |-> r.count + n]]
                 ELSE InsertAt(list, k, [first |-> a, count |-> n])

HasPages(list, n) == n > 0 /\ \E k \in DOMAIN list : list[k].count >= n
PageRun(list, n) == SelectInSeq(list, LAMBDA r : r.count >= n)      \* first fit

(* What rt_slab_page_alloc leaves of the list. *)
PageTake(list, n) ==
    LET k == PageRun(list, n)
    IN  IF list[k].count = n THEN RemoveAt(list, k)
        ELSE [list EXCEPT ![k] = [first |-> @.first + n, count |-> @.count - n]]

(* rt_slab_init: all pages are free but those of memusage. *)
Init ==
    /\ s = [ pages |-> PageTake(PageFree(<<>>, 0, Pages), UsagePages),
             usage |-> [p \in Page |-> Unused],
             zone  |-> [p \in Page |-> NoZone],
             array |-> [i \in Indices |-> <<>>],
             spare |-> <<>>,
             used  |-> 0, max |-> 0 ]
    /\ live = [a \in Chunk8 |-> 0]
    /\ \E c \in Callers : by = [sizes |-> c.sizes, max |-> c.max, raw |-> {}]

-----------------------------------------------------------------------------
(* From slab to slab. *)

Count(x, n) == [x EXCEPT !.used = @ + n, !.max = IF x.used + n > @ THEN x.used + n ELSE @]

(* A request of zone_limit or more: the pages, recorded at the first of them. *)
LargePages(n) == UpTo(n, PageSize) \div PageSize
TakeLarge(x, n) ==
    LET p == x.pages[PageRun(x.pages, LargePages(n))].first
    IN  Count([x EXCEPT !.pages = PageTake(@, LargePages(n)),
                        !.usage[p] = [type |-> "large", size |-> LargePages(n)]],
              UpTo(n, PageSize))

FreeLarge(x, p) ==
    LET n == x.usage[p].size
    IN  [x EXCEPT !.pages = PageFree(@, p, n), !.usage[p].size = 0, !.used = @ - n * PageSize]

(* The zone at the head of its list gives a chunk that was never used, or    *)
(* else one that was freed; the last one takes the zone off the list.        *)
FirstZone(x, i) == Head(x.array[i])

NeverUsed(z) == z.uindex + 1 # z.nmax

NextChunk(x, p) ==
    LET z == x.zone[p]
    IN  IF NeverUsed(z) THEN p * PageSize + z.base + (z.uindex + 1) * z.size ELSE Head(z.chunks)

TakeChunk(x, i) ==
    LET p == FirstZone(x, i)
        z == x.zone[p]
        y == IF NeverUsed(z) THEN [z EXCEPT !.nfree = @ - 1, !.uindex = @ + 1]
             ELSE [z EXCEPT !.nfree = @ - 1, !.chunks = Tail(@)]
    IN  Count([x EXCEPT !.zone[p] = y, !.array[i] = IF y.nfree = 0 THEN Tail(@) ELSE @], z.size)

(* A chunk whose size is a power of 2 is aligned to it. *)
IsPowerOf2(n) == \E k \in 0..14 : n = 2 ^ k
BaseOf(size) == UpTo(ZoneHeader, IF IsPowerOf2(size) THEN size ELSE MinChunk)

CanMakeZone(x) == x.spare # <<>> \/ HasPages(x.pages, ZonePages)
NewZoneAt(x) == IF x.spare # <<>> THEN Head(x.spare)
                ELSE x.pages[PageRun(x.pages, ZonePages)].first

(* A spare zone, or one of new pages, whose first chunk is taken at once. *)
MakeZone(x, i, size) ==
    LET p == NewZoneAt(x)
        y == IF x.spare # <<>> THEN [x EXCEPT !.spare = Tail(@)]
             ELSE [x EXCEPT !.pages = PageTake(@, ZonePages),
                            !.usage = [q \in Page |-> IF q \in p..(p + ZonePages - 1)
                                                      THEN [type |-> "small", size |-> q - p]
                                                      ELSE @[q]]]
        n == (ZonePages * PageSize - BaseOf(size)) \div size
    IN  Count([y EXCEPT !.zone[p] = [index |-> i, size |-> size, nfree |-> n - 1, nmax |-> n,
                                     uindex |-> 0, base |-> BaseOf(size), chunks |-> <<>>],
                        !.array[i] = <<p>> \o @], size)

(* The zone a chunk lies in. *)
ZoneOf(x, a) == (a \div PageSize) - x.usage[a \div PageSize].size

(* A zone that has become free: it leaves its list for zone_free, and the    *)
(* pages go back if that holds too many.                                     *)
Retire(x, p) ==
    LET y == [x EXCEPT !.array[x.zone[p].index] = Unlink(@, p),
                       !.zone[p] = NoZone,
                       !.spare = <<p>> \o @]
    IN  IF Len(y.spare) <= ReleaseThresh THEN y
        ELSE [y EXCEPT !.spare = Tail(@),
                       !.usage = [q \in Page |-> IF q \in p..(p + ZonePages - 1) THEN Unused
                                                 ELSE @[q]],
                       !.pages = PageFree(@, p, ZonePages)]

(* rt_slab_free of a chunk: a zone that was full is listed again, one that   *)
(* is free retires unless it is the only one of its size.                    *)
FreeChunk(x, a) ==
    LET p == ZoneOf(x, a)
        z == x.zone[p]
        i == z.index
        y == [x EXCEPT !.zone[p] = [z EXCEPT !.chunks = <<a>> \o @, !.nfree = @ + 1],
                       !.array[i] = IF z.nfree = 0 THEN <<p>> \o @ ELSE @,
                       !.used = @ - z.size]
    IN  IF y.zone[p].nfree = y.zone[p].nmax /\ Len(y.array[i]) > 1 THEN Retire(y, p) ELSE y

-----------------------------------------------------------------------------
(* rt_slab_alloc of n bytes: what it returns and what it leaves. *)
Large(n) == n >= ZoneLimit

CanAlloc(x, n) ==
    /\ n > 0
    /\ IF Large(n) THEN HasPages(x.pages, LargePages(n))
       ELSE x.array[ZoneIndex(n)] # <<>> \/ CanMakeZone(x)

AllocAt(x, n) ==
    IF Large(n) THEN PageSize * x.pages[PageRun(x.pages, LargePages(n))].first
    ELSE IF x.array[ZoneIndex(n)] # <<>> THEN NextChunk(x, FirstZone(x, ZoneIndex(n)))
    ELSE PageSize * NewZoneAt(x) + BaseOf(ChunkSize(n))

AfterAlloc(x, n) ==
    IF Large(n) THEN TakeLarge(x, n)
    ELSE IF x.array[ZoneIndex(n)] # <<>> THEN TakeChunk(x, ZoneIndex(n))
    ELSE MakeZone(x, ZoneIndex(n), ChunkSize(n))

(* rt_slab_free *)
AfterFree(x, a) ==
    IF x.usage[a \div PageSize].type = "large" THEN FreeLarge(x, a \div PageSize)
    ELSE FreeChunk(x, a)

Held == {a \in Chunk8 : live[a] > 0}
Owned(a) == live[a] > 0 /\ a \notin by.raw

Malloc(n) ==
    /\ CanAlloc(s, n) /\ Cardinality(Held) < by.max
    /\ s' = AfterAlloc(s, n)
    /\ live' = [live EXCEPT ![AllocAt(s, n)] = n]
    /\ UNCHANGED by

Free(a) ==
    /\ Owned(a)
    /\ s' = AfterFree(s, a)
    /\ live' = [live EXCEPT ![a] = 0]
    /\ UNCHANGED by

(* rt_slab_realloc: the block stays if its chunks have the new size already, *)
(* else it moves; a large block always moves.  Its size is rounded to that   *)
(* of a chunk before it is compared with zone_limit.                         *)
Keeps(a, n) == /\ s.usage[a \div PageSize].type = "small"
               /\ s.zone[ZoneOf(s, a)].size = ChunkSize(n)
Wanted(a, n) == IF s.usage[a \div PageSize].type = "small" THEN ChunkSize(n) ELSE n

ReallocKeep(a, n) ==
    /\ Owned(a) /\ n > 0 /\ Keeps(a, n)
    /\ live' = [live EXCEPT ![a] = n]
    /\ UNCHANGED <<s, by>>

ReallocMove(a, n) ==
    /\ Owned(a) /\ n > 0 /\ ~Keeps(a, n) /\ CanAlloc(s, Wanted(a, n))
    /\ \E b \in {AllocAt(s, Wanted(a, n))} :
          /\ s' = AfterFree(AfterAlloc(s, Wanted(a, n)), a)
          /\ live' = [live EXCEPT ![a] = 0, ![b] = n]
    /\ UNCHANGED by

(* rt_page_alloc and rt_page_free: the caller remembers how many pages it has. *)
PageAlloc(n) ==
    /\ HasPages(s.pages, n) /\ Cardinality(Held) < by.max /\ by.raw = {}
    /\ \E a \in {PageSize * s.pages[PageRun(s.pages, n)].first} :
          /\ s' = [s EXCEPT !.pages = PageTake(@, n)]
          /\ live' = [live EXCEPT ![a] = n * PageSize]
          /\ by' = [by EXCEPT !.raw = {a}]

PageGiveBack(a) ==
    /\ a \in by.raw
    /\ s' = [s EXCEPT !.pages = PageFree(@, a \div PageSize, live[a] \div PageSize)]
    /\ live' = [live EXCEPT ![a] = 0]
    /\ by' = [by EXCEPT !.raw = {}]

Next == \/ \E n \in by.sizes : Malloc(n)
        \/ \E a \in Chunk8 : Free(a) \/ PageGiveBack(a)
        \/ \E a \in Held, n \in by.sizes : ReallocKeep(a, n) \/ ReallocMove(a, n)
        \/ PageAlloc(1)

-----------------------------------------------------------------------------
(* What RtHeap checks of this heap. *)

ZonesAt == {p \in Page : s.zone[p] # NoZone}
PagesOf(first, n) == first..(first + n - 1)

(* The pages are parted between memusage, the free runs, the zones in use,   *)
(* the spare zones, the large blocks and those of rt_page_alloc.             *)
PagesTile ==
    LET runs == {<<s.pages[k].first, s.pages[k].count>> : k \in DOMAIN s.pages}
                \cup {<<0, UsagePages>>}
                \cup {<<p, ZonePages>> : p \in ZonesAt \cup Range(s.spare)}
                \cup {<<a \div PageSize, LargePages(live[a])>> :
                         a \in {b \in Held : b \in by.raw \/ s.usage[b \div PageSize].type = "large"}}
    IN  /\ UNION {PagesOf(r[1], r[2]) : r \in runs} = Page
        /\ FoldSet(LAMBDA r, sum : sum + r[2], 0, runs) = Pages
        /\ \A k \in 1..(Len(s.pages) - 1) :
              s.pages[k].first + s.pages[k].count < s.pages[k + 1].first

(* A zone is listed for its size, once, exactly while it has a free chunk,   *)
(* and nfree counts the chunks never used and those freed, none of which is  *)
(* in the hands of a caller; no more spare zones are kept than allowed.      *)
ZonesExact ==
    /\ \A p \in ZonesAt :
          LET z == s.zone[p]
          IN  /\ z.nfree = (z.nmax - 1 - z.uindex) + Len(z.chunks)
              /\ IsInjective(z.chunks) /\ \A k \in DOMAIN z.chunks : live[z.chunks[k]] = 0
              /\ (z.nfree > 0) = (\E k \in DOMAIN s.array[z.index] : s.array[z.index][k] = p)
    /\ \A i \in Indices : /\ IsInjective(s.array[i])
                          /\ \A k \in DOMAIN s.array[i] : s.zone[s.array[i][k]].index = i
    /\ Len(s.spare) <= ReleaseThresh

(* used counts the chunks and the large blocks in the hands of callers. *)
SizeCounted(a) == IF s.usage[a \div PageSize].type = "large" THEN UpTo(live[a], PageSize)
                  ELSE s.zone[ZoneOf(s, a)].size
SlabUsedExact == /\ s.used = MapThenSumSet(SizeCounted, Held \ by.raw)
                 /\ s.used <= s.max
=============================================================================
