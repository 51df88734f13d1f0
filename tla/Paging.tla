------------------------------- MODULE Paging -------------------------------
(***************************************************************************)
(* Memory below the heap: the bitmap of page frames and the batch          *)
(* pmm_alloc_page hands out from (paging/), the page tables (vmm.c), and   *)
(* the program break that brk() and sbrk() move (brk.c).                   *)
(*                                                                         *)
(* Virtual addresses count from KERNEL_VIRT_OFFSET, so P2V and V2P are the *)
(* identity: virtual page v is the one V2P turns into frame v.  Callers    *)
(* run one at a time; one action is one turn of a loop of brk.c.           *)
(***************************************************************************)
EXTENDS Integers, FiniteSets

CONSTANTS
    NULL,
    PAGE_SIZE,                 \* 4096
    PAGES_PER_TABLE,           \* entries of a page table (1024)
    KERNEL_VIRT_OFFSET,        \* where the kernel's addresses begin (0xC0000000)
    Width,                     \* size of addresses (2^32)
    BATCH_PAGES_ALLOCED_MAX,   \* frames per batch (20)
    MaxFrame,                  \* bound: frames 0..MaxFrame
    MaxTable,                  \* bound: page tables 0..MaxTable
    LowFrames,                 \* frames of low memory, never handed out (256)
    KernelStart, KernelEnd,    \* the kernel image, physical addresses
    MemoryMaps,                \* memory maps grub may pass
    TestPages,                 \* virtual pages the tests map (0xD0000000, 0xE0000000)
    MaxHeld,                   \* bound: pages the tests allocate
    Increments,                \* arguments of sbrk()
    Targets                    \* arguments of brk()

Frame == 0 .. MaxFrame
Table == 0 .. MaxTable
VPage == 0 .. (MaxTable + 1) * PAGES_PER_TABLE - 1
\* The memory the first page table maps; the program break starts at its end.
HardLimit == PAGES_PER_TABLE * PAGE_SIZE
\* Bound: the heap stays below the tests' pages and the last page, and growth
\* beyond is not asked for; addresses wrap only there.
HeapTop == (MaxTable * PAGES_PER_TABLE) * PAGE_SIZE

ASSUME SizesAssumption ==
    /\ {PAGE_SIZE, PAGES_PER_TABLE, BATCH_PAGES_ALLOCED_MAX, MaxTable} \subseteq Nat \ {0}
    /\ {MaxFrame, LowFrames, KernelStart, KernelEnd, MaxHeld} \subseteq Nat
    /\ KernelStart <= KernelEnd /\ KernelEnd < (MaxFrame + 1) * PAGE_SIZE
    /\ Increments \subseteq Int /\ Targets \subseteq Nat
    /\ TestPages \subseteq VPage
    /\ NULL \notin Int /\ NULL \notin [increment : Int, ret : Int \cup {NULL}]
ASSUME TestPagesAssumption == \A v \in TestPages : HeapTop <= v * PAGE_SIZE
ASSUME AddressAssumption ==
    /\ {KERNEL_VIRT_OFFSET, Width} \subseteq Nat
    /\ KERNEL_VIRT_OFFSET + HeapTop + PAGE_SIZE <= Width
    /\ \A n \in Increments : -n <= KERNEL_VIRT_OFFSET
ASSUME MapsAssumption ==
    \A map \in MemoryMaps : map \subseteq [addr : Nat, len : Nat, available : BOOLEAN]

VARIABLES
    page_frames_state_bitmap,  \* the frames marked used
    pre_frames, pframe, allocate,  \* pmm_alloc_page's batch
    directory,                 \* frame of the page directory
    pde,                       \* frame of each page table, NULL: not present
    pte,                       \* frame of each virtual page, NULL: not present
    program_break_point,
    pc,
    old_break, new_break,      \* locals of increment_brk and decrement_brk
    vaddr, page,
    result,                    \* what sbrk() returned
    goal,                      \* argument of the brk() call that called sbrk()
    held,                      \* frames the tests hold
    mmap,                      \* the memory map of this machine
    shrunk                     \* has the break ever been lowered?

pmm == <<page_frames_state_bitmap, pre_frames, pframe, allocate>>
tables == <<directory, pde, pte>>
locals == <<old_break, new_break, vaddr, page, result, goal>>
vars == <<pmm, tables, program_break_point, pc, locals, held, mmap, shrunk>>

\* (a + PAGE_SIZE - 1) & ~(PAGE_SIZE - 1), as a page number.
PageUp(addr) == (addr + PAGE_SIZE - 1) \div PAGE_SIZE
PageDown(addr) == addr \div PAGE_SIZE
TableOf(v) == v \div PAGES_PER_TABLE

(***************************************************************************)
(* The frame bitmap and the batch.                                         *)
(***************************************************************************)
\* pmm_alloc_frame_int takes the lowest free frame: the i-th of a row of calls
\* takes the i-th lowest, counted from 0.
pmm_alloc_frame_int(used, i) ==
    CHOOSE f \in Frame \ used : Cardinality({g \in Frame \ used : g < f}) = i

\* Defect: the frames taken are not marked used.
bitmap_set_forgets(bits) == UNCHANGED page_frames_state_bitmap

internal_page_frames_state_bitmap_set(bits) ==
    page_frames_state_bitmap' = page_frames_state_bitmap \cup bits

\* Hand out the next frame of the batch, after refilling an empty batch; a
\* refill that runs out of frames keeps the ones it took and returns NULL.
pmm_alloc_page(ret) ==
    LET free == Frame \ page_frames_state_bitmap
        refill == allocate = 1 \/ pframe = BATCH_PAGES_ALLOCED_MAX
        got == [i \in DOMAIN pre_frames |->
                   IF i < Cardinality(free)
                   THEN pmm_alloc_frame_int(page_frames_state_bitmap, i) ELSE pre_frames[i]]
        taken == {got[i] : i \in {j \in DOMAIN got : j < Cardinality(free)}}
    IN  \/ /\ refill /\ Cardinality(free) >= BATCH_PAGES_ALLOCED_MAX
           /\ pre_frames' = got
           /\ internal_page_frames_state_bitmap_set(taken)
           /\ pframe' = 1 /\ allocate' = 0
           /\ ret = got[0]
        \/ /\ refill /\ Cardinality(free) < BATCH_PAGES_ALLOCED_MAX
           /\ pre_frames' = got
           /\ internal_page_frames_state_bitmap_set(taken)
           /\ allocate' = 1
           /\ ret = NULL
           /\ UNCHANGED pframe
        \/ /\ ~refill
           /\ ret = pre_frames[pframe]
           /\ pframe' = pframe + 1
           /\ UNCHANGED <<page_frames_state_bitmap, pre_frames, allocate>>

pmm_free_page(f) == page_frames_state_bitmap' = page_frames_state_bitmap \ {f}

(***************************************************************************)
(* Page tables.  vmm_page_map returns an error when it needs a new page    *)
(* table and there is no frame for it; a new table starts out empty.       *)
(***************************************************************************)
\* Defect: the frame for a new table is not checked.
vmm_page_map_unchecked(phys, v, err) ==
    LET t == TableOf(v) IN
    IF pde[t] # NULL
    THEN pte' = [pte EXCEPT ![v] = phys] /\ err = 0 /\ UNCHANGED <<pmm, pde>>
    ELSE \E table \in Frame \cup {NULL} :
            /\ pmm_alloc_page(table)
            /\ pde' = [pde EXCEPT ![t] = table]
            /\ pte' = [pte EXCEPT ![v] = phys]
            /\ err = 0

vmm_page_map(phys, v, err) ==
    LET t == TableOf(v) IN
    IF pde[t] # NULL
    THEN pte' = [pte EXCEPT ![v] = phys] /\ err = 0 /\ UNCHANGED <<pmm, pde>>
    ELSE \E table \in Frame \cup {NULL} :
            /\ pmm_alloc_page(table)
            /\ IF table = NULL
               THEN err = 12 /\ UNCHANGED <<pde, pte>>
               ELSE /\ pde' = [pde EXCEPT ![t] = table]
                    /\ pte' = [w \in VPage |-> IF w = v THEN phys
                                               ELSE IF TableOf(w) = t THEN NULL ELSE pte[w]]
                    /\ err = 0

vmm_page_unmap(v) ==
    pte' = IF pde[TableOf(v)] = NULL THEN pte ELSE [pte EXCEPT ![v] = NULL]

(***************************************************************************)
(* Start-up: pmm_frames_init, pmm_directory_init and heap_init.            *)
(***************************************************************************)
\* Defect: a frame that is only partly RAM counts as available.
available_rounded_out(e) ==
    {f \in Frame : PageDown(e.addr) <= f /\ f < PageUp(e.addr + e.len)}

\* The frames that lie wholly inside an entry of the memory map.
available_frames(e) ==
    {f \in Frame : PageUp(e.addr) <= f /\ f < PageDown(e.addr + e.len)}

\* Frames marked used: all but the available ones, the kernel, low memory.
pmm_frames_init(map) ==
    LET available == UNION {available_frames(e) : e \in {x \in map : x.available}}
        kernel == PageDown(KernelStart) .. PageDown(KernelEnd)
    IN  (Frame \ available) \cup kernel \cup {f \in Frame : f < LowFrames}

heap_start == PageUp(KernelEnd) * PAGE_SIZE

\* The page directory and the first page table take the two lowest frames.
\* Table 0 stands for the directory entry 768; entry 0 names the same table.
pmm_directory_init ==
    LET used == pmm_frames_init(mmap)
        page_directory_phys == pmm_alloc_frame_int(used, 0)
        first_page_table == pmm_alloc_frame_int(used, 1)
    IN  /\ pc = "boot"
        /\ Cardinality(Frame \ used) >= 2 /\ heap_start < HardLimit
        /\ page_frames_state_bitmap' = used \cup {page_directory_phys, first_page_table}
        /\ directory' = page_directory_phys
        /\ pde' = [t \in Table |-> IF t = 0 THEN first_page_table ELSE NULL]
        /\ pte' = [v \in VPage |-> IF TableOf(v) = 0 THEN v ELSE NULL]
        /\ program_break_point' = HardLimit
        /\ pc' = "idle"
        /\ UNCHANGED <<pre_frames, pframe, allocate, locals, held, mmap, shrunk>>

\* No frame for the directory or for its table, or a kernel of 4 MB: abort().
boot_abort ==
    /\ pc = "boot"
    /\ Cardinality(Frame \ pmm_frames_init(mmap)) < 2 \/ heap_start >= HardLimit
    /\ pc' = "abort"
    /\ UNCHANGED <<pmm, tables, program_break_point, locals, held, mmap, shrunk>>

abort_loop == pc = "abort" /\ UNCHANGED vars

(***************************************************************************)
(* brk and sbrk                                                            *)
(***************************************************************************)
Returned(value) == pc' = "returned" /\ result' = value

increment_brk(increment) ==
    /\ increment > 0
    /\ program_break_point + increment <= HeapTop
    /\ old_break' = program_break_point
    /\ new_break' = program_break_point + increment
    /\ vaddr' = PageUp(program_break_point)
    /\ pc' = "grow"
    /\ UNCHANGED result

decrement_brk(decrement) ==
    /\ decrement > 0
    /\ old_break' = program_break_point
    /\ new_break' = program_break_point - decrement
    /\ IF program_break_point - decrement < heap_start
       THEN Returned(-1)
       ELSE pc' = "shrink" /\ UNCHANGED result
    /\ UNCHANGED vaddr

query_brk ==
    /\ Returned(program_break_point)
    /\ old_break' = program_break_point
    /\ new_break' = program_break_point
    /\ UNCHANGED vaddr

sbrk(increment) ==
    /\ \/ increment = 0 /\ query_brk
       \/ increment_brk(increment)
       \/ decrement_brk(-increment)
    /\ UNCHANGED <<pmm, tables, program_break_point, page, held, mmap, shrunk>>

\* A caller shrinks the heap only from a page boundary, as test_sbrk does.
sbrk_call(increment) ==
    /\ pc = "idle"
    /\ increment < 0 => program_break_point % PAGE_SIZE = 0
    /\ sbrk(increment)
    /\ UNCHANGED goal

brk(addr) ==
    /\ pc = "idle"
    /\ sbrk(addr - program_break_point)
    /\ goal' = addr

\* Defect: the break moves before the pages below it are there.
grow_alloc_early ==
    /\ pc = "grow" /\ vaddr < PageUp(new_break)
    /\ program_break_point' = new_break
    /\ \E f \in Frame \cup {NULL} :
        /\ pmm_alloc_page(f)
        /\ IF f = NULL
           THEN Returned(-1) /\ UNCHANGED page
           ELSE pc' = "map" /\ page' = f /\ UNCHANGED result
    /\ UNCHANGED <<tables, old_break, new_break, vaddr, goal, held, mmap, shrunk>>

grow_alloc ==
    /\ pc = "grow" /\ vaddr < PageUp(new_break)
    /\ \E f \in Frame \cup {NULL} :
        /\ pmm_alloc_page(f)
        /\ IF f = NULL
           THEN Returned(-1) /\ UNCHANGED page
           ELSE pc' = "map" /\ page' = f /\ UNCHANGED result
    /\ UNCHANGED <<tables, program_break_point, old_break, new_break, vaddr, goal, held,
                   mmap, shrunk>>

grow_map ==
    /\ pc = "map"
    /\ \E err \in {0, 12} :
        /\ vmm_page_map(page, vaddr, err)
        /\ IF err = 0
           THEN pc' = "grow" /\ vaddr' = vaddr + 1 /\ page' = NULL
           ELSE pc' = "unmapped" /\ UNCHANGED <<vaddr, page>>
    /\ UNCHANGED <<directory, program_break_point, old_break, new_break, result, goal, held,
                   mmap, shrunk>>

\* The frame just allocated goes back; the pages mapped before it stay mapped.
grow_fail ==
    /\ pc = "unmapped"
    /\ pmm_free_page(page)
    /\ page' = NULL
    /\ Returned(-1)
    /\ UNCHANGED <<pre_frames, pframe, allocate, tables, program_break_point, old_break,
                   new_break, vaddr, goal, held, mmap, shrunk>>

grow_done ==
    /\ pc = "grow" /\ vaddr >= PageUp(new_break)
    /\ program_break_point' = new_break
    /\ Returned(old_break)
    /\ UNCHANGED <<pmm, tables, old_break, new_break, vaddr, page, goal, held, mmap, shrunk>>

\* One page less.  The frame given back is V2P(page_addr), whatever frame the
\* page table had there.
shrink_page ==
    LET page_addr == program_break_point - PAGE_SIZE IN
    /\ pc = "shrink" /\ page_addr >= new_break
    /\ pmm_free_page(PageDown(page_addr))
    /\ vmm_page_unmap(PageDown(page_addr))
    /\ program_break_point' = page_addr
    /\ shrunk' = TRUE
    /\ UNCHANGED <<pre_frames, pframe, allocate, directory, pde, pc, locals, held, mmap>>

shrink_done ==
    /\ pc = "shrink" /\ program_break_point - PAGE_SIZE < new_break
    /\ Returned(old_break)
    /\ UNCHANGED <<pmm, tables, program_break_point, old_break, new_break, vaddr, page,
                   goal, held, mmap, shrunk>>

\* The caller has the result.
sbrk_return ==
    /\ pc = "returned"
    /\ pc' = "idle"
    /\ old_break' = 0 /\ new_break' = 0 /\ vaddr' = 0
    /\ page' = NULL /\ result' = 0 /\ goal' = NULL
    /\ UNCHANGED <<pmm, tables, program_break_point, held, mmap, shrunk>>

(***************************************************************************)
(* test_vmm_aliasing and test_vmm_unmap_virt: pages of their own, mapped   *)
(* in several places.                                                      *)
(***************************************************************************)
test_alloc_page ==
    /\ pc = "idle" /\ Cardinality(held) < MaxHeld
    /\ \E f \in Frame \cup {NULL} : pmm_alloc_page(f) /\ held' = held \cup ({f} \ {NULL})
    /\ UNCHANGED <<tables, program_break_point, pc, locals, mmap, shrunk>>

test_map(f, v) ==
    /\ pc = "idle"
    /\ \E err \in {0, 12} : vmm_page_map(f, v, err)
    /\ UNCHANGED <<directory, program_break_point, pc, locals, held, mmap, shrunk>>

test_unmap(v) ==
    /\ pc = "idle"
    /\ vmm_page_unmap(v)
    /\ UNCHANGED <<pmm, directory, pde, program_break_point, pc, locals, held, mmap, shrunk>>

Init ==
    /\ page_frames_state_bitmap = {}
    /\ pre_frames = [i \in 0 .. BATCH_PAGES_ALLOCED_MAX - 1 |-> NULL]
    /\ pframe = 0 /\ allocate = 1
    /\ directory = NULL
    /\ pde = [t \in Table |-> NULL] /\ pte = [v \in VPage |-> NULL]
    /\ program_break_point = 0
    /\ pc = "boot"
    /\ old_break = 0 /\ new_break = 0 /\ vaddr = 0
    /\ page = NULL /\ result = 0 /\ goal = NULL
    /\ held = {}
    /\ mmap \in MemoryMaps
    /\ shrunk = FALSE

Boot == pmm_directory_init \/ boot_abort \/ abort_loop
Sbrk ==
    \/ \E increment \in Increments : sbrk_call(increment)
    \/ \E addr \in Targets : brk(addr)
    \/ grow_alloc \/ grow_map \/ grow_fail \/ grow_done
    \/ shrink_page \/ shrink_done
    \/ sbrk_return
Test ==
    \/ test_alloc_page
    \/ \E v \in TestPages : test_unmap(v) \/ \E f \in held : test_map(f, v)

Next == Boot \/ Sbrk \/ Test

Spec == Init /\ [][Next]_vars

(***************************************************************************)
(* Properties                                                              *)
(***************************************************************************)
\* Every variable has its type, and the batch index stays inside the batch.
TypeOK ==
    /\ page_frames_state_bitmap \subseteq Frame
    /\ pre_frames \in [0 .. BATCH_PAGES_ALLOCED_MAX - 1 -> Frame \cup {NULL}]
    /\ pframe \in 0 .. BATCH_PAGES_ALLOCED_MAX /\ allocate \in {0, 1}
    /\ allocate = 0 => pframe > 0
    /\ directory \in Frame \cup {NULL}
    /\ pde \in [Table -> Frame \cup {NULL}]
    /\ pte \in [VPage -> Nat \cup {NULL}]
    /\ program_break_point \in 0 .. HeapTop
    /\ pc \in {"boot", "abort", "idle", "grow", "map", "unmapped", "shrink", "returned"}
    /\ {old_break, new_break} \subseteq Int /\ vaddr \in Nat
    /\ page \in Frame \cup {NULL} /\ result \in Int /\ goal \in Nat \cup {NULL}
    /\ held \subseteq Frame /\ mmap \in MemoryMaps /\ shrunk \in BOOLEAN

HeapPages == {v \in VPage : heap_start <= v * PAGE_SIZE /\ v * PAGE_SIZE < program_break_point}

\* What each frame taken from the bitmap is used for.
Uses ==
    {<<"directory", 0, directory>>}
    \cup {<<"table", t, pde[t]>> : t \in {u \in Table : pde[u] # NULL}}
    \cup {<<"batch", i, pre_frames[i]>> :
            i \in {j \in DOMAIN pre_frames : allocate = 0 /\ pframe <= j}}
    \cup {<<"heap", v, pte[v]>> :
            v \in {w \in VPage \ TestPages : TableOf(w) # 0 /\ pte[w] # NULL}}
    \cup {<<"test", f, f>> : f \in held}
    \cup {<<"page", 0, f>> : f \in {page} \ {NULL}}

\* As long as the break was never lowered, a frame has one use: the page
\* directory, a page table, a frame waiting in the batch, a heap page or a
\* test's page; it is marked used.  Refills that run dry, page tables that
\* cannot be allocated and retried growth included.
FramesExclusive ==
    (pc \notin {"boot", "abort"} /\ ~shrunk) =>
        /\ \A x, y \in Uses : x[3] = y[3] => x = y
        /\ \A x \in Uses : x[3] \in page_frames_state_bitmap

\* As long as the break was never lowered, only whole frames of available RAM
\* that hold neither the kernel nor low memory may be handed out.
OnlyRamIsFree ==
    (pc \notin {"boot", "abort"} /\ ~shrunk) =>
        \A f \in Frame \ page_frames_state_bitmap :
            /\ \E e \in mmap :
                e.available /\ e.addr <= f * PAGE_SIZE /\ (f + 1) * PAGE_SIZE <= e.addr + e.len
            /\ f >= LowFrames
            /\ (f + 1) * PAGE_SIZE <= KernelStart \/ KernelEnd < f * PAGE_SIZE

\* Between calls every heap page below the break is mapped, through a page
\* table that is present, after any mix of growth, failed growth and shrinking.
BreakMapped ==
    pc \in {"idle", "returned"} =>
        \A v \in HeapPages : pte[v] # NULL /\ pde[TableOf(v)] # NULL

\* "On success, returns the previous program break", "On error, (void *) -1"
\* (heap.h), and a failed call leaves the break where it was (test_sbrk): brk()
\* and sbrk(), page by page and with every way they fail, do what the heap
\* assumes of them.  A shrink shows its effect when it returns.
Abstract == INSTANCE BreakSpec WITH
    HeapStart <- heap_start,
    MaxBreak <- HeapTop,
    break <- CASE pc \in {"boot", "abort"} -> NULL
               [] pc = "shrink" -> old_break
               [] OTHER -> program_break_point,
    answer <- IF pc = "returned"
              THEN [increment |-> new_break - old_break,
                    ret |-> IF result = -1 THEN NULL ELSE result]
              ELSE NULL
ImplementsBreak == Abstract!Spec

\* "brk() sets the end of the data segment to the value specified by addr"
\* (heap.h): when brk() reports success the break is where it was asked for.
BrkSetsBreak ==
    (pc = "returned" /\ goal # NULL /\ result # -1) => program_break_point = goal

\* "a pointer to the start of the newly allocated memory" (heap.h): no two heap
\* pages below the break are the same physical memory.
HeapPagesDistinct ==
    pc = "idle" => \A v, w \in HeapPages : pte[v] = pte[w] => v = w
=============================================================================
