-------------------------------- MODULE Heap --------------------------------
(***************************************************************************)
(* The kernel heap: kmalloc, kcalloc, krealloc and kfree over a linked     *)
(* list of block headers that tiles the memory from heap_start to the      *)
(* program break, and sbrk() where the list has to grow.                   *)
(*                                                                         *)
(* Every call runs between lock_scheduler and unlock_scheduler, with       *)
(* interrupts off, so calls do not overlap; within a call one action is    *)
(* one turn of a list walk.  Payload bytes are not modelled: memset and    *)
(* memmove are the fact that they stay inside the region they are given.   *)
(* A caller frees or resizes only a region it holds, once.                 *)
(***************************************************************************)
EXTENDS Break, FiniteSets

CONSTANTS
    HEADER,                     \* sizeof(struct HeapBlock) (8)
    ALIGNMENT,                  \* 8
    MINIMUM_ALLOCATION_BYTES,   \* 16
    HardLimit,                  \* end of what the first page table maps
    Sizes,                      \* what callers ask kmalloc for
    Counts,                     \* nmemb arguments of kcalloc
    ReallocSizes,               \* size arguments of krealloc
    Increments                  \* arguments of sbrk() calls outside the heap

ASSUME LayoutAssumption ==
    /\ {HEADER, ALIGNMENT, PAGE_SIZE} \subseteq Nat \ {0}
    /\ MINIMUM_ALLOCATION_BYTES \in Nat
    /\ {HeapStart, HardLimit, MaxBreak, KERNEL_VIRT_OFFSET, Width} \subseteq Nat
    /\ HEADER % ALIGNMENT = 0
    /\ HeapStart % ALIGNMENT = 0 /\ HardLimit % ALIGNMENT = 0
    /\ HeapStart + 2 * HEADER <= HardLimit
    /\ HardLimit <= MaxBreak /\ MaxBreak % PAGE_SIZE = 0
    /\ KERNEL_VIRT_OFFSET + MaxBreak + PAGE_SIZE <= Width
    /\ NULL \notin Int
ASSUME RequestAssumption ==
    /\ Sizes \subseteq 0 .. Width - 1
    /\ Counts \subseteq Nat
    /\ ReallocSizes \subseteq 0 .. Width - 1
    /\ Increments \subseteq Int

VARIABLES
    heap,                   \* the headers the list links, by address
    program_break_point,
    locks,                  \* nesting of lock_scheduler
    pc,                     \* where the call in progress is
    then,                   \* where kmalloc or kfree returns to
    node,                   \* cursor of the list walk
    aligned_size,           \* kmalloc's local
    want,                   \* bytes the caller asked for
    ptr,                    \* argument of kfree and krealloc
    ret,                    \* value kmalloc returned
    live,                   \* the regions callers of the heap hold
    grown,                  \* the regions callers of sbrk() hold
    resized                 \* has krealloc ever resized a region in place?

locals == <<then, node, aligned_size, want, ptr, ret>>
break == <<program_break_point, grown, resized>>
vars == <<heap, break, locks, pc, locals, live>>

Header == [next : Address \cup {NULL}, EOM : BOOLEAN, free : BOOLEAN]

(***************************************************************************)
(* Helpers on block headers.  A header that leaves the list is payload.    *)
(***************************************************************************)
internal_heap_block_set_metadata(h, dst, eom, fr, nx) ==
    [a \in DOMAIN h \cup {dst} |->
        IF a = dst THEN [next |-> nx, EOM |-> eom, free |-> fr] ELSE h[a]]

internal_heap_block_get_available_space(h, block) ==
    IF h[block].EOM THEN 0 ELSE h[block].next - block - HEADER

\* Defect: the size is not rounded up.
ALIGN_off(size) == size

ALIGN(size) ==
    LET padded == (size + ALIGNMENT - 1) % Width IN padded - (padded % ALIGNMENT)

\* Defect: the new header is written where the old block's payload still is.
split_inside(h, block, size) ==
    LET available_space == internal_heap_block_get_available_space(h, block)
        new_block == block + size
    IN  IF available_space < ALIGN(size) + HEADER + MINIMUM_ALLOCATION_BYTES
        THEN h
        ELSE [internal_heap_block_set_metadata(h, new_block, FALSE, TRUE, h[block].next)
                EXCEPT ![block].next = new_block]

heap_block_split(h, block, size) ==
    LET available_space == internal_heap_block_get_available_space(h, block)
        new_block == block + HEADER + size
    IN  IF available_space < ALIGN(size) + HEADER + MINIMUM_ALLOCATION_BYTES
        THEN h
        ELSE [internal_heap_block_set_metadata(h, new_block, FALSE, TRUE, h[block].next)
                EXCEPT ![block].next = new_block]

heap_block_merge_down(h, block) ==
    [a \in DOMAIN h \ {h[block].next} |->
        IF a = block THEN [h[a] EXCEPT !.next = h[h[block].next].next] ELSE h[a]]

\* The size becomes the intptr_t argument of sbrk().
intptr_t(x) == IF x % Width >= Width \div 2 THEN (x % Width) - Width ELSE x % Width

(***************************************************************************)
(* kmalloc                                                                 *)
(***************************************************************************)
\* Enter kmalloc(size) at this nesting of the lock, to return to r.
CallKmalloc(size, nesting, r) ==
    /\ pc' = "kmalloc"
    /\ locks' = nesting
    /\ then' = r
    /\ node' = HeapStart
    /\ aligned_size' = ALIGN(size)
    /\ ret' = NULL

\* The call is over and its locals are gone.
Idle ==
    /\ pc' = "idle"
    /\ then' = "idle" /\ node' = NULL /\ aligned_size' = 0
    /\ want' = 0 /\ ptr' = NULL /\ ret' = NULL

\* kmalloc unlocks and returns v.
KmallocReturns(v) ==
    /\ locks' = locks - 1
    /\ live' = IF v = NULL THEN live ELSE live \cup {[ptr |-> v, size |-> want]}
    /\ IF then = "idle"
       THEN Idle
       ELSE /\ pc' = then
            /\ ret' = v
            /\ UNCHANGED <<then, node, aligned_size, want, ptr>>

kmalloc(size) ==
    /\ pc = "idle"
    /\ CallKmalloc(size, locks + 1, "idle")
    /\ want' = size
    /\ UNCHANGED <<heap, break, ptr, live>>

Fits(block) ==
    /\ heap[block].free
    /\ internal_heap_block_get_available_space(heap, block) >= aligned_size

\* Defect: the loop does not advance.
kmalloc_walk_stuck ==
    /\ pc = "kmalloc"
    /\ ~heap[node].EOM /\ ~Fits(node)
    /\ UNCHANGED vars

kmalloc_walk ==
    /\ pc = "kmalloc"
    /\ ~heap[node].EOM /\ ~Fits(node)
    /\ node' = heap[node].next
    /\ UNCHANGED <<heap, break, locks, pc, then, aligned_size, want, ptr, ret, live>>

\* Defect: the block found is not marked used.
kmalloc_fit_unmarked ==
    /\ pc = "kmalloc"
    /\ ~heap[node].EOM /\ Fits(node)
    /\ heap' = heap_block_split(heap, node, aligned_size)
    /\ KmallocReturns(node + HEADER)
    /\ UNCHANGED break

kmalloc_fit ==
    /\ pc = "kmalloc"
    /\ ~heap[node].EOM /\ Fits(node)
    /\ heap' = [heap_block_split(heap, node, aligned_size) EXCEPT ![node].free = FALSE]
    /\ KmallocReturns(node + HEADER)
    /\ UNCHANGED break

\* The break wrapped or shrank: the new EOM block is written where the heap has no
\* page.  That is a page fault, or it overwrites other memory of the kernel (the
\* first 4 MB, the page directory); what follows is not modelled.
WriteOutside == pc' = "outside" /\ UNCHANGED <<heap, locks, locals, live>>

\* Defect: the old end of the list is left without a successor.
kmalloc_extend_unlinked ==
    /\ pc = "kmalloc"
    /\ heap[node].EOM
    /\ UNCHANGED <<grown, resized>>
    /\ \E r \in sbrk(program_break_point, intptr_t(aligned_size + HEADER)) :
        /\ program_break_point' = r.brk
        /\ IF r.ret = NULL
           THEN KmallocReturns(NULL) /\ UNCHANGED heap
           ELSE IF r.brk \notin program_break_point .. MaxBreak
           THEN WriteOutside
           ELSE LET end == r.brk - HEADER
                    old == internal_heap_block_set_metadata(heap, node, FALSE, FALSE, NULL)
                IN  /\ heap' = internal_heap_block_set_metadata(old, end, TRUE, FALSE, NULL)
                    /\ KmallocReturns(node + HEADER)

\* No block fits: the old EOM block becomes the new region, and a new EOM
\* block is written at the end of what sbrk() added.
kmalloc_extend ==
    /\ pc = "kmalloc"
    /\ heap[node].EOM
    /\ UNCHANGED <<grown, resized>>
    /\ \E r \in sbrk(program_break_point, intptr_t(aligned_size + HEADER)) :
        /\ program_break_point' = r.brk
        /\ IF r.ret = NULL
           THEN KmallocReturns(NULL) /\ UNCHANGED heap
           ELSE IF r.brk \notin program_break_point .. MaxBreak
           THEN WriteOutside
           ELSE LET end == r.brk - HEADER
                    old == internal_heap_block_set_metadata(heap, node, FALSE, FALSE, end)
                    new == internal_heap_block_set_metadata(old, end, TRUE, FALSE, NULL)
                IN  /\ heap' = [new EXCEPT ![node].next = end]
                    /\ KmallocReturns(node + HEADER)

(***************************************************************************)
(* kcalloc: kmalloc of the product, then memset of the product.            *)
(***************************************************************************)
kcalloc(nmemb, size) ==
    /\ pc = "idle"
    /\ CallKmalloc((nmemb * size) % Width, locks + 2, "kcalloc")
    /\ want' = nmemb * size
    /\ UNCHANGED <<heap, break, ptr, live>>

kcalloc_return ==
    /\ pc = "kcalloc"
    /\ locks' = locks - 1
    /\ Idle
    /\ UNCHANGED <<heap, break, live>>

(***************************************************************************)
(* kfree                                                                   *)
(***************************************************************************)
\* Enter kfree(p) at this nesting of the lock, to return to r.
CallKfree(p, nesting, r) ==
    /\ pc' = "kfree"
    /\ locks' = nesting
    /\ then' = r
    /\ ptr' = p
    /\ live' = {s \in live : s.ptr # p}

KfreeReturns ==
    /\ locks' = locks - 1
    /\ IF then = "idle"
       THEN Idle
       ELSE pc' = then /\ UNCHANGED locals

kfree(p) ==
    /\ pc = "idle"
    /\ CallKfree(p, locks + 1, "idle")
    /\ UNCHANGED <<heap, break, node, aligned_size, want, ret>>

kfree_mark ==
    /\ pc = "kfree"
    /\ LET heap_block == ptr - HEADER
           freed == [heap EXCEPT ![heap_block].free = TRUE]
       IN  /\ heap' = IF freed[freed[heap_block].next].free
                      THEN heap_block_merge_down(freed, heap_block)
                      ELSE freed
           /\ IF heap_block = HeapStart
              THEN KfreeReturns
              ELSE /\ pc' = "kfree_walk"
                   /\ node' = HeapStart
                   /\ UNCHANGED <<locks, then, aligned_size, want, ptr, ret>>
    /\ UNCHANGED <<break, live>>

kfree_walk ==
    /\ pc = "kfree_walk"
    /\ heap[node].next # ptr - HEADER
    /\ node' = heap[node].next
    /\ UNCHANGED <<heap, break, locks, pc, then, aligned_size, want, ptr, ret, live>>

\* Defect: the parent is found but never merged with the freed block.
kfree_parent_kept ==
    /\ pc = "kfree_walk"
    /\ heap[node].next = ptr - HEADER
    /\ KfreeReturns
    /\ UNCHANGED <<heap, break, live>>

\* The parent of the freed block, merged with it when it is free too.
kfree_parent ==
    /\ pc = "kfree_walk"
    /\ heap[node].next = ptr - HEADER
    /\ heap' = IF heap[node].free THEN heap_block_merge_down(heap, node) ELSE heap
    /\ KfreeReturns
    /\ UNCHANGED <<break, live>>

(***************************************************************************)
(* krealloc                                                                *)
(***************************************************************************)
\* krealloc(NULL, size) has unlocked again before it calls kmalloc.
krealloc_null(size) ==
    /\ pc = "idle"
    /\ CallKmalloc(size, locks + 1, "idle")
    /\ want' = size
    /\ UNCHANGED <<heap, break, ptr, live>>

krealloc_zero(p) ==
    /\ pc = "idle"
    /\ CallKfree(p, locks + 2, "krealloc_unlock")
    /\ UNCHANGED <<heap, break, node, aligned_size, want, ret>>

\* The block is large enough: the tail is split off, at the unaligned size.
krealloc_in_place(r, size) ==
    /\ pc = "idle" /\ size # 0
    /\ internal_heap_block_get_available_space(heap, r.ptr - HEADER) >= size
    /\ heap' = heap_block_split(heap, r.ptr - HEADER, size)
    /\ live' = (live \ {r}) \cup {[r EXCEPT !.size = size]}
    /\ resized' = TRUE
    /\ UNCHANGED <<program_break_point, grown, locks, pc, locals>>

krealloc_move(p, size) ==
    /\ pc = "idle" /\ size # 0
    /\ internal_heap_block_get_available_space(heap, p - HEADER) < size
    /\ CallKmalloc(size, locks + 2, "krealloc")
    /\ want' = size /\ ptr' = p
    /\ UNCHANGED <<heap, break, live>>

\* Defect: on failure the early return forgets to unlock.
krealloc_moved_keeps_lock ==
    /\ pc = "krealloc"
    /\ IF ret = NULL
       THEN Idle /\ UNCHANGED <<locks, live>>
       ELSE /\ CallKfree(ptr, locks + 1, "krealloc_unlock")
            /\ UNCHANGED <<node, aligned_size, want, ret>>
    /\ UNCHANGED <<heap, break>>

\* Defect: the old block is not freed.
krealloc_moved_leaks ==
    /\ pc = "krealloc"
    /\ locks' = locks - 1
    /\ Idle
    /\ live' = IF ret = NULL THEN live ELSE {s \in live : s.ptr # ptr}
    /\ UNCHANGED <<heap, break>>

\* kmalloc returned: give up, or memmove into the new region and free the old.
krealloc_moved ==
    /\ pc = "krealloc"
    /\ IF ret = NULL
       THEN locks' = locks - 1 /\ Idle /\ UNCHANGED live
       ELSE /\ CallKfree(ptr, locks + 1, "krealloc_unlock")
            /\ UNCHANGED <<node, aligned_size, want, ret>>
    /\ UNCHANGED <<heap, break>>

krealloc_return ==
    /\ pc = "krealloc_unlock"
    /\ locks' = locks - 1
    /\ Idle
    /\ UNCHANGED <<heap, break, live>>

\* A caller moves the program break itself, as test_sbrk does.
sbrk_call(increment) ==
    /\ pc = "idle"
    /\ \E r \in sbrk(program_break_point, increment) :
        /\ program_break_point' = r.brk
        /\ grown' = IF r.ret = NULL \/ increment <= 0
                    THEN grown
                    ELSE grown \cup {[ptr |-> r.ret, size |-> increment]}
    /\ UNCHANGED <<heap, locks, pc, locals, live, resized>>

(***************************************************************************)
(* heap_init: one free block between heap_start and the EOM block.         *)
(***************************************************************************)
heap_init ==
    LET end == internal_heap_block_set_metadata(<< >>, HardLimit - HEADER, TRUE, FALSE, NULL)
    IN  /\ program_break_point = HardLimit
        /\ heap = internal_heap_block_set_metadata(end, HeapStart, FALSE, TRUE,
                                                   HardLimit - HEADER)

Init ==
    /\ heap_init
    /\ locks = 0 /\ pc = "idle" /\ live = {} /\ grown = {}
    /\ resized = FALSE
    /\ then = "idle" /\ node = NULL /\ aligned_size = 0
    /\ want = 0 /\ ptr = NULL /\ ret = NULL

Call ==
    \/ \E size \in Sizes : kmalloc(size) \/ \E nmemb \in Counts : kcalloc(nmemb, size)
    \/ \E r \in live : kfree(r.ptr)
    \/ \E size \in ReallocSizes :
        \/ krealloc_null(size)
        \/ \E r \in live : krealloc_in_place(r, size) \/ krealloc_move(r.ptr, size)
    \/ 0 \in ReallocSizes /\ \E r \in live : krealloc_zero(r.ptr)
    \/ \E increment \in Increments : sbrk_call(increment)

\* The rest of the call in progress, which no interrupt can delay.
Step ==
    \/ kmalloc_walk \/ kmalloc_fit \/ kmalloc_extend
    \/ kcalloc_return
    \/ kfree_mark \/ kfree_walk \/ kfree_parent
    \/ krealloc_moved \/ krealloc_return

Next == Call \/ Step

Spec == Init /\ [][Next]_vars
FairSpec == Spec /\ WF_vars(Step)

(***************************************************************************)
(* Properties                                                              *)
(***************************************************************************)
Location == {"idle", "kmalloc", "kcalloc", "kfree", "kfree_walk", "krealloc", "krealloc_unlock",
             "outside"}
Region == [ptr : Address, size : Nat]

\* Every variable has its type; a header's next is an address of the heap.
TypeOK ==
    /\ DOMAIN heap \subseteq Address
    /\ \A a \in DOMAIN heap : heap[a] \in Header
    /\ program_break_point \in Address
    /\ locks \in Nat
    /\ pc \in Location /\ then \in {"idle", "kcalloc", "krealloc", "krealloc_unlock"}
    /\ {node, ptr, ret} \subseteq Address \cup {NULL}
    /\ aligned_size \in Nat /\ want \in Nat
    /\ live \subseteq Region /\ grown \subseteq Region
    /\ resized \in BOOLEAN

\* The headers tile the heap: the list runs upwards from heap_start without
\* leaving a header out, its blocks do not overlap, and it ends in the one EOM
\* header right below the program break.  The walks of kmalloc and kfree, and
\* heap_block_merge_down, rely on it after any mix of splits, merges and
\* extensions.
BlocksTile ==
    /\ HeapStart \in DOMAIN heap
    /\ \A a \in DOMAIN heap :
        /\ heap[a].EOM <=> a = program_break_point - HEADER
        /\ heap[a].EOM => ~heap[a].free
        /\ ~heap[a].EOM =>
            /\ heap[a].next \in DOMAIN heap
            /\ a + HEADER <= heap[a].next
            /\ \A b \in DOMAIN heap : b <= a \/ heap[a].next <= b

\* Every region a caller holds is the payload of a used block of the list that
\* is large enough for it: no split, merge or resize cut it short.
RegionsHeld ==
    \A r \in live :
        LET block == r.ptr - HEADER IN
        /\ block \in DOMAIN heap
        /\ ~heap[block].free /\ ~heap[block].EOM
        /\ r.size <= heap[block].next - r.ptr

\* "pointer to start of newly allocated region of memory" (heap.h): no two
\* regions that callers of kmalloc, kcalloc, krealloc and sbrk hold share a byte.
RegionsDisjoint ==
    \A r, s \in live \cup grown :
        r # s => r.ptr + r.size <= s.ptr \/ s.ptr + s.size <= r.ptr

\* Between calls every used block belongs to a caller: no path of krealloc or
\* of a failed call leaves a block used that nobody can free.
NoLeak ==
    pc = "idle" =>
        {a + HEADER : a \in {b \in DOMAIN heap : ~heap[b].free /\ ~heap[b].EOM}}
            = {r.ptr : r \in live}

\* Every path through a call, nested calls and early returns included, gives
\* back the scheduler lock as often as it took it.
LockBalanced ==
    locks = CASE pc = "idle" -> 0
              [] pc \in {"kcalloc", "krealloc", "krealloc_unlock"} -> 1
              [] OTHER -> IF then = "idle" THEN 1 ELSE 2

\* Until krealloc first splits a region in place (its tail is not merged), no two
\* neighbouring blocks are both free between calls: kfree merges in both
\* directions, so freeing everything gives back one block.
Coalesced ==
    (pc = "idle" /\ ~resized) =>
        \A a \in DOMAIN heap :
            heap[a].free => ~heap[heap[a].next].free

\* "all heap blocks be aligned" (README.md): headers, hence payloads, lie on
\* multiples of ALIGNMENT, until krealloc first splits at a size it did not round.
BlocksAligned == ~resized => \A a \in DOMAIN heap : a % ALIGNMENT = 0

\* The heap hands out regions as heap.h promises.
Abstract == INSTANCE Allocator WITH Place <- Address
ImplementsAllocator == Abstract!Spec

\* Every call returns: the walks of kmalloc and kfree reach the block they look
\* for or the end of the list.
CallsReturn == pc # "idle" ~> pc = "idle"
=============================================================================
