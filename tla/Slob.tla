-------------------------------- MODULE Slob --------------------------------
(* The SLOB allocator of hw3/slob.c: kmalloc and the object caches on top of  *)
(* pages whose free blocks are linked through the free memory itself.  The    *)
(* two builds, FIRSTFIT and BESTFIT, are behaviours of one specification.     *)
(*                                                                            *)
(* Every section under slob_lock is one step; what the code does outside it   *)
(* is a step of its own:                                                      *)
(*                                                                            *)
(*   search -> [new_page -> count -> add]           slob_alloc                *)
(*   free -> [release -> uncount]                   slob_free                 *)
(*                                                                            *)
(* Offsets in a page are counted in SLOB_UNITs, sizes in bytes.  NUMA, the    *)
(* traces and kmemleak are left out.                                          *)
EXTENDS Integers, SequencesExt

CONSTANTS
    Pages,              \* the page frames the page allocator owns
    Threads,            \* the contexts that call the allocator
    Fits,               \* the builds considered: {"FIRSTFIT", "BESTFIT"}
    PAGE_SIZE, SLOB_BREAK1, SLOB_BREAK2,
    MINALIGN,           \* ARCH_KMALLOC_MINALIGN: room for a kmalloc header
    RCU_SIZE,           \* sizeof(struct slob_rcu)
    Sizes,              \* the sizes asked of kmalloc
    Caches,             \* the object caches: [object_size, align, rcu]
    NoPage,             \* what a page pointer holds when it is NULL
    MaxBlocks,          \* bound on the blocks in use or being allocated
    WORD                \* the values an unsigned long can take, 2^32 in the program

SLOB_UNIT == 2
SLOB_UNITS(size) == (size + SLOB_UNIT - 1) \div SLOB_UNIT
PageUnits == SLOB_UNITS(PAGE_SIZE)
ListNames == {"free_slob_small", "free_slob_medium", "free_slob_large"}

ASSUME SizeAssumption ==
    /\ PAGE_SIZE \in Nat /\ SLOB_BREAK1 \in Nat /\ SLOB_BREAK2 \in Nat
    /\ MINALIGN \in Nat /\ RCU_SIZE \in Nat
    /\ PAGE_SIZE % SLOB_UNIT = 0 /\ MINALIGN % SLOB_UNIT = 0
    /\ 0 < MINALIGN /\ MINALIGN < PAGE_SIZE
    /\ 0 < RCU_SIZE /\ RCU_SIZE % SLOB_UNIT = 0
    /\ Sizes \subseteq 1..PAGE_SIZE
\* kmem_cache_create rounds the alignment up to a multiple of a pointer's size; an
\* object that waits for RCU holds pointers, and is a number of units.  A cache of
\* objects larger than a page is like one of a page.
ASSUME CacheAssumption ==
    /\ Caches \subseteq [object_size: 1..PAGE_SIZE, align: Nat, rcu: BOOLEAN]
    /\ \A c \in Caches :
          /\ c.align % SLOB_UNIT = 0
          /\ c.rcu => c.object_size % SLOB_UNIT = 0 /\ c.object_size + RCU_SIZE <= PAGE_SIZE
ASSUME PageAssumption == NoPage \notin Pages
ASSUME CounterAssumption == MaxBlocks \in Nat /\ WORD \in Nat \ {0}

VARIABLES
    fit,                \* the build: constant during a behaviour
    mem,                \* the contents of every page, a number per unit
    units, freelist,    \* page->units and page->freelist (an offset)
    slab, slobFree,     \* the pages with PG_slab, with PG_slob_free
    lists,              \* the lists of partially free pages
    frames,             \* the frames the page allocator has not handed out
    call,               \* the call every thread is in
    held, retired,      \* blocks their users own; blocks waiting for RCU
    total_alloc_mem,    \* in units of what slob_new_pages adds, a pointer's size
    total_free_mem

page == <<mem, units, freelist, slab, slobFree, lists>>
users == <<held, retired>>
counters == <<total_alloc_mem, total_free_mem>>
vars == <<fit, page, frames, call, users, counters>>

-----------------------------------------------------------------------------
(* The encoding of free blocks: m is the memory of a page, s an offset in it *)

set_slob(m, s, size, next) ==
    IF size > 1 THEN [m EXCEPT ![s] = size, ![s + 1] = next] ELSE [m EXCEPT ![s] = -next]

slob_units(m, s) == IF m[s] > 0 THEN m[s] ELSE 1
slob_next(m, s) == IF m[s] < 0 THEN -m[s] ELSE m[s + 1]
slob_last(m, s) == slob_next(m, s) % PageUnits = 0

\* The free blocks of a page in the order the links visit them.
FreeBlocks(m, first) ==
    LET block[k \in 1..PageUnits] == IF k = 1 THEN first ELSE slob_next(m, block[k - 1])
        last == CHOOSE k \in 1..PageUnits :
                    /\ slob_last(m, block[k])
                    /\ \A j \in 1..k - 1 : ~slob_last(m, block[j])
    IN  [k \in 1..last |-> block[k]]

\* ALIGN(s, align) - s, the units lost in front of an aligned block.
Delta(s, align) ==
    IF align = 0 THEN 0
    ELSE LET a == align \div SLOB_UNIT IN ((s + a - 1) \div a) * a - s

\* Mutation of Fitting: the units lost to alignment are not counted.
FittingUnaligned(m, s, n, align) == slob_units(m, s) >= n

Fitting(m, s, n, align) == slob_units(m, s) >= n + Delta(s, align)

\* The positions in blocks, a page's free blocks, where n units fit.
Candidates(m, blocks, n, align) ==
    {i \in DOMAIN blocks : Fitting(m, blocks[i], n, align)}

Waste(m, s, n, align) == slob_units(m, s) - (n + Delta(s, align))

\* The block slob_page_alloc stops at: the first that fits, or the first of
\* those that fit best.
Picks(m, blocks, n, align, i) ==
    LET fitting == Candidates(m, blocks, n, align) IN
    /\ i \in fitting
    /\ \A j \in fitting :
          IF fit = "FIRSTFIT" THEN i <= j
          ELSE /\ Waste(m, blocks[i], n, align) <= Waste(m, blocks[j], n, align)
               /\ j < i => Waste(m, blocks[i], n, align) < Waste(m, blocks[j], n, align)

\* The tail of a block that was split.
Remainder(m, s, n, avail, next) == set_slob(m, s + n, avail - n, next)

\* A block is cut: the head that alignment skips stays on the list, n units go
\* to the caller, the rest stays on the list.  p is the block before, -1 if none.
Carve(m, first, p, s, n, align) ==
    LET delta == Delta(s, align)
        cur   == s + delta
        m1    == IF delta = 0 THEN m
                 ELSE set_slob(set_slob(m, cur, slob_units(m, s) - delta, slob_next(m, s)),
                               s, delta, cur)
        prev  == IF delta = 0 THEN p ELSE s
        avail == slob_units(m1, cur)
        next  == slob_next(m1, cur)
        after == IF avail = n THEN next ELSE cur + n
        m2    == IF prev = -1 THEN m1 ELSE set_slob(m1, prev, slob_units(m1, prev), after)
    IN  [mem      |-> IF avail = n THEN m2 ELSE Remainder(m2, cur, n, avail, next),
         freelist |-> IF prev = -1 THEN after ELSE first,
         at       |-> cur]

\* What slob_page_alloc can do on page p (one outcome at most).
slob_page_alloc(m, first, n, align) ==
    LET blocks == FreeBlocks(m, first)
    IN  {Carve(m, first, IF i = 1 THEN -1 ELSE blocks[i - 1], blocks[i], n, align) :
             i \in {j \in DOMAIN blocks : Picks(m, blocks, n, align, j)}}

\* The position of the block in front of the one freed at b.
FreePrev(m, blocks, b) ==
    CHOOSE i \in DOMAIN blocks :
        /\ slob_next(m, blocks[i]) >= b
        /\ \A j \in 1..i - 1 : slob_next(m, blocks[j]) < b

\* Mutation of JoinsNext: a freed block is not joined with the next one.
JoinsNever(b, n, next) == FALSE

JoinsNext(b, n, next) == next # PageUnits /\ b + n = next

\* slob_free's reinsertion of n units at b, joined with its free neighbours.
Insert(m, first, b, n) ==
    IF b < first
    THEN [mem |-> IF b + n = first
                  THEN set_slob(m, b, n + slob_units(m, first), slob_next(m, first))
                  ELSE set_slob(m, b, n, first),
          freelist |-> b]
    ELSE LET blocks == FreeBlocks(m, first)
             prev == blocks[FreePrev(m, blocks, b)]
             next == slob_next(m, prev)
             m1 == IF JoinsNext(b, n, next)
                   THEN set_slob(m, b, n + slob_units(m, next), slob_next(m, next))
                   ELSE set_slob(m, b, n, next)
         IN  [mem |-> IF prev + slob_units(m1, prev) = b
                      THEN set_slob(m1, prev, slob_units(m1, b) + slob_units(m1, prev),
                                    slob_next(m1, b))
                      ELSE set_slob(m1, prev, slob_units(m1, prev), b),
              freelist |-> first]

-----------------------------------------------------------------------------
(* slob_alloc *)

ListFor(size) == IF size < SLOB_BREAK1 THEN "free_slob_small"
                 ELSE IF size < SLOB_BREAK2 THEN "free_slob_medium"
                 ELSE "free_slob_large"

\* BESTPAGESIZE and DIFF: larger than anything they are compared with.
Huge == 10 * PageUnits

ScanBlock(acc, p, s, n, align) ==
    LET left == slob_units(mem[p], s) - n + Delta(s, align)
    IN  IF acc.exact = 1 \/ ~Fitting(mem[p], s, n, align) \/ acc.diff <= left THEN acc
        ELSE [acc EXCEPT !.diff = left, !.exact = IF left = 0 THEN 1 ELSE 0]

\* The walk over the blocks of one page carries diff and fits_exact along, also
\* from page to page; it stops at an exact fit.
ScanBlocks(acc, p, n, align) ==
    LET blocks == FreeBlocks(mem[p], freelist[p])
        after[i \in 0..Len(blocks)] ==
            IF i = 0 THEN acc ELSE ScanBlock(after[i - 1], p, blocks[i], n, align)
    IN  after[Len(blocks)]

CanServe(p, n, align) ==
    Candidates(mem[p], FreeBlocks(mem[p], freelist[p]), n, align) # {}

\* One turn of slob_alloc's loop over the pages of a list.  A page that is
\* chosen (page # NoPage) ends the loop.
ScanPage(acc, p, n, align) ==
    IF acc.page # NoPage THEN acc
    ELSE LET a == ScanBlocks(acc, p, n, align)
             b == IF a.exact = 0 /\ (a.best_fit = -1 \/ a.diff < a.best_fit)
                  THEN [a EXCEPT !.best_page_size = units[p], !.best_fit = a.diff]
                  ELSE a
         IN  IF units[p] < n \/ units[p] > a.best_page_size THEN a
             ELSE IF a.exact = 1 THEN [a EXCEPT !.page = p]
             ELSE IF b.best_fit >= 0 /\ CanServe(p, n, align)
                  THEN [b EXCEPT !.page = p, !.rotate = TRUE]
             ELSE b

NothingFound == [diff |-> Huge, exact |-> -1, best_fit |-> -1, best_page_size |-> Huge,
                 page |-> NoPage, rotate |-> FALSE]

Scan(list, n, align) ==
    LET after[i \in 0..Len(list)] ==
            IF i = 0 THEN NothingFound ELSE ScanPage(after[i - 1], list[i], n, align)
    IN  after[Len(list)]

\* list_move_tail(slob_list, prev->next): the next search starts where this one
\* ended, unless it ended on the last page.
NextFit(list, new, p) ==
    LET i == CHOOSE k \in DOMAIN list : list[k] = p
    IN  IF new # <<>> /\ Last(new) = p THEN new
        ELSE SubSeq(new, i, Len(new)) \o SubSeq(new, 1, i - 1)

\* list_del, of a page that is on the list or not.
Without(list, p) ==
    IF p \in ToSet(list) THEN RemoveAt(list, CHOOSE k \in DOMAIN list : list[k] = p) ELSE list

calc_free_mem(list) ==
    LET sum[i \in 0..Len(list)] ==
            IF i = 0 THEN 0 ELSE sum[i - 1] + units[list[i]] * SLOB_UNIT
    IN  sum[Len(list)]

FreeMemory ==
    (calc_free_mem(lists["free_slob_small"]) + calc_free_mem(lists["free_slob_medium"])
        + calc_free_mem(lists["free_slob_large"])) % WORD

Idle == [pc |-> "idle", kind |-> "none", size |-> 0, align |-> 0, rcu |-> FALSE,
         page |-> NoPage, at |-> 0, seen |-> 0]

Busy(t) == call[t].pc \notin {"idle", "free", "release", "uncount"}
MayAllocate ==
    Cardinality(held) + Cardinality(retired)
        + Cardinality({t \in Threads : Busy(t)}) < MaxBlocks

\* What a block's owner writes at once: its data (0) and kmalloc's header.
Filled(m, b) ==
    [x \in DOMAIN m |->
        IF x \notin b.at..b.at + b.units - 1 THEN m[x]
        ELSE IF b.kind = "kmalloc" /\ x = b.at THEN b.size - MINALIGN
        ELSE 0]

NewBlock(c, p, at, n) ==
    [page |-> p, at |-> at, units |-> n, kind |-> c.kind, size |-> c.size, rcu |-> c.rcu]

\* slob_page_alloc's outcome r goes to the caller.
HandOut(t, p, r) ==
    LET b == NewBlock(call[t], p, r.at, SLOB_UNITS(call[t].size)) IN
    /\ mem' = [mem EXCEPT ![p] = Filled(r.mem, b)]
    /\ freelist' = [freelist EXCEPT ![p] = r.freelist]
    /\ held' = held \cup {b}
    /\ call' = [call EXCEPT ![t] = Idle]

\* Mutation of Small: the header is forgotten in the comparison.
SmallWithoutHeader(size) == size < PAGE_SIZE

\* kmalloc serves from the lists what fits in a page with its header.
Small(size) == size < PAGE_SIZE - MINALIGN

Enter(t, step, kind, size, align, rcu) ==
    /\ call[t] = Idle
    /\ call' = [call EXCEPT ![t] = [Idle EXCEPT !.pc = step, !.kind = kind, !.size = size,
                                                !.align = align, !.rcu = rcu]]

\* __do_kmalloc_node of something small, up to slob_alloc's unlocked store to
\* total_free_mem.
KmallocSmall(t, size) ==
    /\ Small(size) /\ MayAllocate
    /\ Enter(t, "search", "kmalloc", size + MINALIGN, MINALIGN, FALSE)
    /\ total_free_mem' = 0
    /\ UNCHANGED <<fit, page, frames, users, total_alloc_mem>>

\* __do_kmalloc_node of a page or what comes near it.
KmallocLarge(t, size) ==
    /\ ~Small(size) /\ MayAllocate
    /\ Enter(t, "new_page", "large", PAGE_SIZE, 0, FALSE)
    /\ UNCHANGED <<fit, page, frames, users, counters>>

\* Mutation of CacheSize: no room for the RCU footer.
CacheSizeBare(c) == c.object_size

\* __kmem_cache_create: an RCU cache's objects carry a footer.
CacheSize(c) == c.object_size + (IF c.rcu THEN RCU_SIZE ELSE 0)

\* slob_alloc_node of a cache whose objects are smaller than a page.
CacheAlloc(t, c) ==
    /\ CacheSize(c) < PAGE_SIZE /\ MayAllocate
    /\ Enter(t, "search", "cache", CacheSize(c), c.align, c.rcu)
    /\ total_free_mem' = 0
    /\ UNCHANGED <<fit, page, frames, users, total_alloc_mem>>

\* slob_alloc_node of a cache of page-sized objects.
CacheAllocPage(t, c) ==
    /\ CacheSize(c) >= PAGE_SIZE /\ MayAllocate
    /\ Enter(t, "new_page", "cache", CacheSize(c), c.align, c.rcu)
    /\ UNCHANGED <<fit, page, frames, users, counters>>

\* The calls that go through slob_alloc; the others ask for a page only.
FromLists(c) == c.kind = "kmalloc" \/ (c.kind = "cache" /\ c.size < PAGE_SIZE)

\* Mutation of WithoutFull: a page without a free unit stays on its list.
WithFull(list, p) == list

\* The list after clear_slob_page_free of a page that has no unit left.
WithoutFull(list, p) == IF units'[p] = 0 THEN Without(list, p) ELSE list

\* The first locked section of slob_alloc, when a page is found.
SearchHit(t) ==
    LET c == call[t]
        n == SLOB_UNITS(c.size)
        l == ListFor(c.size)
        s == Scan(lists[l], n, c.align)
        p == s.page
    IN  /\ c.pc = "search" /\ p # NoPage
        /\ \E r \in slob_page_alloc(mem[p], freelist[p], n, c.align) : HandOut(t, p, r)
        /\ units' = [units EXCEPT ![p] = @ - n]
        /\ lists' = [lists EXCEPT ![l] = IF s.rotate THEN NextFit(@, WithoutFull(@, p), p)
                                          ELSE WithoutFull(@, p)]
        /\ slobFree' = IF units'[p] = 0 THEN slobFree \ {p} ELSE slobFree
        /\ total_free_mem' = FreeMemory'
        /\ UNCHANGED <<fit, slab, frames, retired, total_alloc_mem>>

\* ... and when none is.
SearchMiss(t) ==
    /\ call[t].pc = "search"
    /\ Scan(lists[ListFor(call[t].size)], SLOB_UNITS(call[t].size), call[t].align).page = NoPage
    /\ call' = [call EXCEPT ![t].pc = "new_page"]
    /\ total_free_mem' = FreeMemory
    /\ UNCHANGED <<fit, page, frames, users, total_alloc_mem>>

\* slob_new_pages with no lock held: alloc_pages, and the counter is read.
NewPage(t) ==
    /\ call[t].pc = "new_page"
    /\ \E p \in frames :
          /\ frames' = frames \ {p}
          /\ call' = [call EXCEPT ![t].pc = "count", ![t].page = p, ![t].seen = total_alloc_mem]
    /\ UNCHANGED <<fit, page, users, counters>>

\* alloc_pages fails, and with it the call.
NoMemory(t) ==
    /\ call[t].pc = "new_page"
    /\ call' = [call EXCEPT ![t] = Idle]
    /\ UNCHANGED <<fit, page, frames, users, counters>>

\* The counter is written.  A caller that wanted a whole page has it now.
Count(t) ==
    LET c == call[t] IN
    /\ c.pc = "count"
    /\ total_alloc_mem' = (c.seen + 1) % WORD
    /\ IF FromLists(c)
       THEN call' = [call EXCEPT ![t].pc = "add"] /\ UNCHANGED held
       ELSE /\ call' = [call EXCEPT ![t] = Idle]
            /\ held' = held \cup {NewBlock(c, c.page, 0, PageUnits)}
    /\ UNCHANGED <<fit, page, frames, retired, total_free_mem>>

\* The second locked section of slob_alloc: the page becomes a slab page with
\* one free block, goes to the front of its list and must serve the request.
AddPage(t) ==
    LET c == call[t]
        n == SLOB_UNITS(c.size)
        l == ListFor(c.size)
        blank == set_slob(mem[c.page], 0, PageUnits, PageUnits)
        outcomes == slob_page_alloc(blank, 0, n, c.align)
    IN  /\ c.pc = "add"
        /\ slab' = slab \cup {c.page}
        /\ units' = [units EXCEPT ![c.page] = IF outcomes = {} THEN PageUnits ELSE PageUnits - n]
        /\ IF outcomes = {}
           THEN /\ call' = [call EXCEPT ![t].pc = "bug"]
                /\ UNCHANGED <<mem, freelist, slobFree, lists, held>>
           ELSE /\ \E r \in outcomes : HandOut(t, c.page, r)
                /\ lists' = [lists EXCEPT ![l] = WithoutFull(<<c.page>> \o @, c.page)]
                /\ slobFree' = IF n = PageUnits THEN slobFree ELSE slobFree \cup {c.page}
        /\ UNCHANGED <<fit, frames, retired, counters>>

-----------------------------------------------------------------------------
(* slob_free *)

\* kfree adds the header's size to the size it reads from the header.
FreedSize(b) == mem[b.page][b.at] + MINALIGN

FreeCall(p, at, size) ==
    [Idle EXCEPT !.pc = "free", !.page = p, !.at = at, !.size = size]

\* ksize of a block kmalloc served from the lists.
ksize(b) == SLOB_UNITS(mem[b.page][b.at]) * SLOB_UNIT

\* kfree of a block from the lists.
Kfree(t, b) ==
    /\ call[t] = Idle /\ b.kind = "kmalloc"
    /\ held' = held \ {b}
    /\ call' = [call EXCEPT ![t] = FreeCall(b.page, b.at, FreedSize(b))]
    /\ UNCHANGED <<fit, page, frames, retired, counters>>

\* kfree of a page that is not a slab page: no counter is touched.
KfreeLarge(t, b) ==
    /\ call[t] = Idle /\ b.kind = "large"
    /\ held' = held \ {b}
    /\ frames' = frames \cup {b.page}
    /\ UNCHANGED <<fit, page, call, retired, counters>>

\* kmem_cache_free and kmem_rcu_free, from where the two are one.
FreeObject(t, b, size) ==
    call' = [call EXCEPT ![t] =
        IF size < PAGE_SIZE THEN FreeCall(b.page, b.at, size)
        ELSE [Idle EXCEPT !.pc = "release", !.page = b.page]]

CacheFree(t, b) ==
    /\ call[t] = Idle /\ b.kind = "cache" /\ ~b.rcu
    /\ held' = held \ {b}
    /\ FreeObject(t, b, b.size)
    /\ UNCHANGED <<fit, page, frames, retired, counters>>

Footer(b) == b.at + (b.size - RCU_SIZE) \div SLOB_UNIT

\* kmem_cache_free of an RCU cache: the size goes to the footer, call_rcu.
CacheFreeRcu(t, b) ==
    /\ call[t] = Idle /\ b.kind = "cache" /\ b.rcu
    /\ held' = held \ {b}
    /\ retired' = retired \cup {b}
    /\ mem' = [mem EXCEPT ![b.page][Footer(b)] = b.size]
    /\ UNCHANGED <<fit, units, freelist, slab, slobFree, lists, frames, call, counters>>

\* kmem_rcu_free, once the grace period is over: all it knows is the footer.
RcuFree(t, b) ==
    LET size == mem[b.page][Footer(b)]
        at == Footer(b) - (size - RCU_SIZE) \div SLOB_UNIT
    IN  /\ call[t] = Idle
        /\ retired' = retired \ {b}
        /\ FreeObject(t, [b EXCEPT !.at = at], size)
        /\ UNCHANGED <<fit, page, frames, held, counters>>

\* Mutation of WholePage: a page is never found to be free as a whole.
WholePageNever(p, n) == FALSE

WholePage(p, n) == units[p] + n = PageUnits

\* slob_free: nothing on the page is in use any more.
FreeLast(t) ==
    LET c == call[t] IN
    /\ c.pc = "free" /\ WholePage(c.page, SLOB_UNITS(c.size))
    /\ slobFree' = slobFree \ {c.page}
    /\ lists' = [l \in ListNames |-> Without(lists[l], c.page)]
    /\ call' = [call EXCEPT ![t] = [Idle EXCEPT !.pc = "release", !.page = c.page]]
    /\ UNCHANGED <<fit, mem, units, freelist, slab, frames, users, counters>>

\* slob_free: the page was full, and goes to the front of the list of its size.
FreeFirst(t) ==
    LET c == call[t]
        n == SLOB_UNITS(c.size)
    IN  /\ c.pc = "free" /\ ~WholePage(c.page, n) /\ c.page \notin slobFree
        /\ units' = [units EXCEPT ![c.page] = n]
        /\ freelist' = [freelist EXCEPT ![c.page] = c.at]
        /\ mem' = [mem EXCEPT ![c.page] = set_slob(@, c.at, n, PageUnits)]
        /\ slobFree' = slobFree \cup {c.page}
        /\ lists' = [lists EXCEPT ![ListFor(c.size)] = <<c.page>> \o @]
        /\ call' = [call EXCEPT ![t] = Idle]
        /\ UNCHANGED <<fit, slab, frames, users, counters>>

\* slob_free: the block goes to its place among the page's free blocks.
FreeMore(t) ==
    LET c == call[t]
        n == SLOB_UNITS(c.size)
        r == Insert(mem[c.page], freelist[c.page], c.at, n)
    IN  /\ c.pc = "free" /\ ~WholePage(c.page, n) /\ c.page \in slobFree
        /\ units' = [units EXCEPT ![c.page] = @ + n]
        /\ freelist' = [freelist EXCEPT ![c.page] = r.freelist]
        /\ mem' = [mem EXCEPT ![c.page] = r.mem]
        /\ call' = [call EXCEPT ![t] = Idle]
        /\ UNCHANGED <<fit, slab, slobFree, lists, frames, users, counters>>

\* After the unlock: __ClearPageSlab, page_mapcount_reset (units shares its place
\* in struct page), slob_free_pages up to reading the counter.  From here on the
\* contents are the page allocator's: any fixed values do.
Release(t) ==
    LET p == call[t].page IN
    /\ call[t].pc = "release"
    /\ slab' = slab \ {p}
    /\ frames' = frames \cup {p}
    /\ mem' = [mem EXCEPT ![p] = [x \in DOMAIN @ |-> 0]]
    /\ units' = [units EXCEPT ![p] = 0] /\ freelist' = [freelist EXCEPT ![p] = 0]
    /\ call' = [call EXCEPT ![t] = [Idle EXCEPT !.pc = "uncount", !.seen = total_alloc_mem]]
    /\ UNCHANGED <<fit, slobFree, lists, users, counters>>

Uncount(t) ==
    /\ call[t].pc = "uncount"
    /\ total_alloc_mem' = (call[t].seen - 1) % WORD
    /\ call' = [call EXCEPT ![t] = Idle]
    /\ UNCHANGED <<fit, page, frames, users, total_free_mem>>

-----------------------------------------------------------------------------
Init ==
    /\ fit \in Fits
    /\ mem = [p \in Pages |-> [x \in 0..PageUnits - 1 |-> 0]]
    /\ units = [p \in Pages |-> 0] /\ freelist = [p \in Pages |-> 0]
    /\ slab = {} /\ slobFree = {}
    /\ lists = [l \in ListNames |-> <<>>]
    /\ frames = Pages
    /\ call = [t \in Threads |-> Idle]
    /\ held = {} /\ retired = {}
    /\ total_alloc_mem = 0 /\ total_free_mem = 0

Alloc(t) ==
    \/ \E size \in Sizes : KmallocSmall(t, size) \/ KmallocLarge(t, size)
    \/ \E c \in Caches : CacheAlloc(t, c) \/ CacheAllocPage(t, c)
    \/ SearchHit(t) \/ SearchMiss(t)
    \/ NewPage(t) \/ NoMemory(t) \/ Count(t) \/ AddPage(t)

Dealloc(t) ==
    \/ \E b \in held : Kfree(t, b) \/ KfreeLarge(t, b) \/ CacheFree(t, b) \/ CacheFreeRcu(t, b)
    \/ \E b \in retired : RcuFree(t, b)
    \/ FreeLast(t) \/ FreeFirst(t) \/ FreeMore(t) \/ Release(t) \/ Uncount(t)

Next == \E t \in Threads : Alloc(t) \/ Dealloc(t)

Spec == Init /\ [][Next]_vars

-----------------------------------------------------------------------------
(* Safety *)

Block == [page: Pages, at: 0..PageUnits - 1, units: 1..PageUnits,
          kind: {"kmalloc", "large", "cache"}, size: Nat, rcu: BOOLEAN]

Steps == {"idle", "search", "new_page", "count", "add", "free", "release", "uncount", "bug"}

\* Every variable keeps its type; a page between two steps never has all of its
\* units free (slob_free hands such a page back).
TypeOK ==
    /\ fit \in Fits
    /\ mem \in [Pages -> [0..PageUnits - 1 -> Int]]
    /\ units \in [Pages -> 0..PageUnits - 1] /\ freelist \in [Pages -> 0..PageUnits]
    /\ slab \subseteq Pages /\ slobFree \subseteq slab /\ frames \subseteq Pages \ slab
    /\ lists \in [ListNames -> Seq(slab)]
    /\ \A t \in Threads : call[t].pc \in Steps
    /\ held \subseteq Block /\ retired \subseteq Block
    /\ total_alloc_mem \in 0..WORD - 1 /\ total_free_mem \in 0..WORD - 1

Covers(at, n) == at..at + n - 1

\* The pages whose units are accounted for: a page on its way back is not.
InService == slab \ {call[t].page : t \in {u \in Threads : call[u].pc = "release"}}

\* What is in use on page p: by an owner, by RCU readers, or being freed.
UsedSpans(p) ==
    {<<b.at, b.units>> : b \in {x \in held \cup retired : x.page = p}}
        \cup {<<call[t].at, SLOB_UNITS(call[t].size)>> :
                 t \in {u \in Threads : call[u].pc = "free" /\ call[u].page = p}}

FreeSpans(p) ==
    IF units[p] = 0 THEN <<>>
    ELSE LET blocks == FreeBlocks(mem[p], freelist[p])
         IN  [i \in DOMAIN blocks |-> <<blocks[i], slob_units(mem[p], blocks[i])>>]

\* Every unit of a page is in one free block or one block in use, never in both
\* or in none, whatever the order of cuts and reinsertions; the free blocks are
\* in address order with something in use between them (slob_free coalesces),
\* and page->units is their sum.
FreeBlocksExact ==
    \A p \in InService :
        LET free == FreeSpans(p)
            spans == ToSet(free) \cup UsedSpans(p)
        IN  /\ UNION {Covers(s[1], s[2]) : s \in spans} = 0..PageUnits - 1
            /\ \A s, r \in spans : s # r => Covers(s[1], s[2]) \cap Covers(r[1], r[2]) = {}
            /\ Cardinality(UNION {Covers(s[1], s[2]) : s \in ToSet(free)}) = units[p]
            /\ \A i \in 1..Len(free) - 1 : free[i][1] + free[i][2] < free[i + 1][1]

\* A page is on a list exactly when some of its units are free and some are not;
\* then it is there once, on the list that serves the sizes of its blocks
\* ("heap pages are segregated into three lists", slob.c:16-18).
PagesListed ==
    /\ \A p \in Pages :
          LET on == {l \in ListNames : p \in ToSet(lists[l])} IN
          /\ p \in slobFree <=> on # {}
          /\ p \in InService => (on # {} <=> units[p] > 0)
          /\ \A b \in held \cup retired :
                b.page = p /\ p \in slab => on \subseteq {ListFor(b.size)}
    /\ \A l \in ListNames : IsInjective(lists[l])
    /\ \A l, k \in ListNames : l # k => ToSet(lists[l]) \cap ToSet(lists[k]) = {}

\* BUG_ON(!b): a page that was just added serves the request it was added for.
NewPageServes == \A t \in Threads : call[t].pc # "bug"

\* Nothing but its owner writes to a block in use: its data is as it was left,
\* also for the RCU readers of an object whose footer is in use; kfree finds the
\* size that was asked for in front of it, and what ksize promises is inside.
OwnersDataIntact ==
    /\ \A b \in held : b.page \in slab =>
          \A x \in Covers(b.at, b.units) :
             mem[b.page][x] = IF b.kind = "kmalloc" /\ x = b.at THEN b.size - MINALIGN ELSE 0
    /\ \A b \in held : b.kind = "kmalloc" =>
          SLOB_UNIT * b.at + MINALIGN + ksize(b) <= SLOB_UNIT * (b.at + b.units)
    /\ \A b \in retired :
          /\ mem[b.page][Footer(b)] = b.size
          /\ \E c \in Caches :
                /\ c.rcu /\ b.size = CacheSize(c)
                /\ \A x \in Covers(b.at, SLOB_UNITS(c.object_size)) : mem[b.page][x] = 0

\* slob_alloc's loop over a list carries the best fit and the smallest page seen so
\* far, but what it comes to is the first page of the list with a block that fits;
\* a new page is asked for only when no page of the list has one.
SearchTakesFirstPage ==
    \A t \in Threads : call[t].pc = "search" =>
        LET c == call[t]
            n == SLOB_UNITS(c.size)
            list == lists[ListFor(c.size)]
            p == Scan(list, n, c.align).page
        IN  \/ p = NoPage /\ \A q \in ToSet(list) : ~CanServe(q, n, c.align)
            \/ \E i \in DOMAIN list : /\ list[i] = p /\ CanServe(p, n, c.align)
                                     /\ \A j \in 1..i - 1 : ~CanServe(list[j], n, c.align)

-----------------------------------------------------------------------------
(* The inductive invariant the proofs rest on *)

\* Of the free blocks F of a page, k is the one behind s, or the end of the page.
Follows(F, s, k) == k \in F \cup {PageUnits} /\ s < k /\ \A t \in F : t <= s \/ k <= t

\* What set_slob stores of a free block.
Stored(m, s, size, next) ==
    IF size > 1 THEN m[s] = size /\ m[s + 1] = next ELSE m[s] = -next

\* The memory m holds a list, in address order from first on, of the free blocks F,
\* with the sizes z, and no two of them touch.
ListHeld(m, first, F, z) ==
    /\ F \subseteq 0..PageUnits - 1 /\ first \in F /\ \A s \in F : first <= s
    /\ \A s \in F : z[s] \in 1..PageUnits /\ s + z[s] <= PageUnits
    /\ \A s, t \in F : s < t => s + z[s] < t
    /\ \A s \in F : \E k \in F \cup {PageUnits} : Follows(F, s, k) /\ Stored(m, s, z[s], k)

\* The units of the blocks F with the sizes z.
UnitsOf(F, z) == UNION {Covers(s, z[s]) : s \in F}

FreeOn(p) == IF units[p] = 0 THEN {} ELSE ToSet(FreeBlocks(mem[p], freelist[p]))
SizesOf(m) == [s \in 0..PageUnits - 1 |-> slob_units(m, s)]
FreeUnits(p) == UnitsOf(FreeOn(p), SizesOf(mem[p]))

\* The units of a page are split among its free blocks and what is in use.
PageSplit(p) ==
    /\ units[p] # 0 => ListHeld(mem[p], freelist[p], FreeOn(p), SizesOf(mem[p]))
    /\ Cardinality(FreeUnits(p)) = units[p]
    /\ \A s \in UsedSpans(p) : Covers(s[1], s[2]) \cap FreeUnits(p) = {}
    /\ \A s, r \in UsedSpans(p) : s # r => Covers(s[1], s[2]) \cap Covers(r[1], r[2]) = {}
    /\ \A x \in 0..PageUnits - 1 :
          x \in FreeUnits(p) \/ \E s \in UsedSpans(p) : x \in Covers(s[1], s[2])

SplitInv == \A p \in InService : PageSplit(p)

\* What slob_alloc is asked for, and what goes to the page allocator at once.
Asked(c) ==
    /\ 0 < c.size /\ c.size < PAGE_SIZE
    /\ \/ c.kind = "kmalloc" /\ c.size > MINALIGN /\ c.align = MINALIGN /\ ~c.rcu
       \/ /\ c.kind = "cache"
          /\ \E k \in Caches : c.size = CacheSize(k) /\ c.align = k.align /\ c.rcu = k.rcu

AskedPage(c) ==
    \/ c.kind = "large" /\ c.size = PAGE_SIZE /\ ~c.rcu
    \/ /\ c.kind = "cache" /\ c.size >= PAGE_SIZE
       /\ \E k \in Caches : c.size = CacheSize(k) /\ c.rcu = k.rcu

Call == [pc: Steps, kind: {"none", "kmalloc", "large", "cache"}, size: Nat, align: Nat,
         rcu: BOOLEAN, page: Pages \cup {NoPage}, at: Nat, seen: 0..WORD - 1]

CallInv == call \in [Threads -> Call] /\ \A t \in Threads : LET c == call[t] IN
    /\ c.pc = "idle" => c = Idle
    /\ c.pc \in {"search", "add"} => Asked(c)
    /\ c.pc \in {"new_page", "count"} => Asked(c) \/ AskedPage(c)
    /\ c.pc \in {"count", "add", "free", "release"} => c.page \in Pages
    /\ c.pc = "free" => /\ 0 < c.size /\ c.size < PAGE_SIZE /\ c.page \in slab
                        /\ c.at + SLOB_UNITS(c.size) <= PageUnits
    /\ c.pc # "bug"

\* A block from the lists is on a slab page, another one is a page.
BlockInv == \A b \in held \cup retired :
    /\ b \in Block /\ 0 < b.size /\ b.at + b.units <= PageUnits
    /\ b.page \in slab => /\ b.kind \in {"kmalloc", "cache"}
                          /\ b.size < PAGE_SIZE /\ b.units = SLOB_UNITS(b.size)
    /\ b.page \notin slab => /\ b.kind \in {"large", "cache"} /\ b.at = 0 /\ b.units = PageUnits
                             /\ b.kind = "cache" => b.size >= PAGE_SIZE
    /\ b.kind = "kmalloc" => b.size > MINALIGN
    /\ b.rcu => b.kind = "cache" /\ \E k \in Caches : k.rcu /\ b.size = CacheSize(k)
    /\ b \in retired => b.rcu

\* What is in use has one owner.
Freeing(t) == call[t].pc = "free"

OwnersInv ==
    /\ held \cap retired = {}
    /\ \A b, c \in held \cup retired : b.page = c.page /\ b.at = c.at => b = c
    /\ \A t \in Threads : Freeing(t) =>
          /\ \A b \in held \cup retired : ~(b.page = call[t].page /\ b.at = call[t].at)
          /\ \A u \in Threads \ {t} :
                ~(Freeing(u) /\ call[u].page = call[t].page /\ call[u].at = call[t].at)

\* The pages in the hands of one call: not yet or no longer for others.
Private(t) == call[t].pc \in {"count", "add"}
Releasing(t) == call[t].pc = "release"
Blank == [x \in 0..PageUnits - 1 |-> 0]

PlacesInv ==
    /\ \A b \in held \cup retired : b.page \notin frames
    /\ \A t \in Threads : Private(t) \/ Releasing(t) =>
          /\ call[t].page \notin frames
          /\ \A b \in held \cup retired : b.page # call[t].page
          /\ \A u \in Threads \ {t} :
                (Private(u) \/ Releasing(u) \/ Freeing(u)) => call[u].page # call[t].page
    /\ \A t \in Threads : Private(t) => call[t].page \notin slab
    /\ \A t \in Threads : Releasing(t) => call[t].page \notin slobFree
    /\ \A p \in Pages \ slab :
          \/ mem[p] = Blank
          \/ \E b \in retired : b.page = p
          \/ \E t \in Threads : Releasing(t) /\ call[t].page = p

\* All blocks of a page are of sizes of one list.
SizesOn(p) ==
    {b.size : b \in {x \in held \cup retired : x.page = p}}
        \cup {call[t].size : t \in {u \in Threads : Freeing(u) /\ call[u].page = p}}

ClassInv == \A p \in slab :
    /\ \A x, y \in SizesOn(p) : ListFor(x) = ListFor(y)
    /\ \A l \in ListNames : p \in ToSet(lists[l]) => \A x \in SizesOn(p) : ListFor(x) = l

IInv ==
    /\ TypeOK /\ CallInv /\ BlockInv /\ OwnersInv /\ PlacesInv
    /\ SplitInv /\ ClassInv /\ PagesListed /\ OwnersDataIntact

-----------------------------------------------------------------------------
(* The promise to the users *)

Span(b) == [page |-> b.page, at |-> b.at, units |-> b.units]

Users == INSTANCE Heap WITH held <- {Span(b) : b \in held}, retired <- {Span(b) : b \in retired}

\* The allocator implements Heap: no two blocks in use share a unit, also not
\* with an object RCU readers may still see.
ImplementsHeap == Users!Spec

-----------------------------------------------------------------------------
(* What the comments and the report say, and the code does not do *)

\* slob_alloc "iterates all pages and inside it page, it attempts to select the
\* block that fits the best for our request" (slob.c:480-481).
BestBlockOfAllPages ==
    [][\A t \in Threads :
         SearchHit(t) /\ fit = "BESTFIT" =>
            LET c == call[t]
                n == SLOB_UNITS(c.size)
                free == UNION {{<<p, s>> : s \in ToSet(FreeBlocks(mem[p], freelist[p]))} :
                                  p \in ToSet(lists[ListFor(c.size)])}
                fits == {f \in free : Fitting(mem[f[1]], f[2], n, c.align)}
            IN  \E f \in fits, b \in held' \ held :
                    /\ b.page = f[1] /\ b.at = f[2] + Delta(f[2], c.align)
                    /\ \A g \in fits : Waste(mem[f[1]], f[2], n, c.align)
                                          <= Waste(mem[g[1]], g[2], n, c.align)]_vars

\* "Functions that return allocated and free memory" (slob.c:96): with no call in
\* progress, total_alloc_mem counts the pages the allocator has handed out.
AllocMemCountsPages ==
    (\A t \in Threads : call[t] = Idle) =>
        total_alloc_mem = Cardinality(Pages \ frames) % WORD
=============================================================================
