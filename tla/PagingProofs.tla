---------------------------- MODULE PagingProofs ----------------------------
(***************************************************************************)
(* Proofs about page frames, page tables and the program break, for any    *)
(* page size, batch size, number of frames and memory map.                 *)
(***************************************************************************)
EXTENDS Paging, NumberLemmas, FiniteSetTheorems, TLAPS

(***************************************************************************)
(* The inductive invariant, in four parts.                                 *)
(***************************************************************************)
Booted == pc \notin {"boot", "abort"}

\* The bitmap, the batch and the tables.  A batch is used only after a refill that
\* got all its frames, so no handed out frame is NULL.
PmmInv ==
    /\ page_frames_state_bitmap \subseteq Frame
    /\ pre_frames \in [0 .. BATCH_PAGES_ALLOCED_MAX - 1 -> Frame \cup {NULL}]
    /\ pframe \in 0 .. BATCH_PAGES_ALLOCED_MAX /\ allocate \in {0, 1}
    /\ allocate = 0 => \A i \in DOMAIN pre_frames : pre_frames[i] \in Frame
    /\ pde \in [Table -> Frame \cup {NULL}]
    /\ pte \in [VPage -> Nat \cup {NULL}]
    /\ held \subseteq Frame
    /\ IF pc \in {"map", "unmapped"} THEN page \in Frame ELSE page = NULL
    /\ Booted => directory \in Frame
    /\ pc = "boot" => allocate = 1 /\ held = {}

\* The frames that pmm_frames_init marked used.
Reserved == pmm_frames_init(mmap)

Batch == {<<"batch", i, pre_frames[i]>> :
            i \in {j \in DOMAIN pre_frames : allocate = 0 /\ pframe <= j}}

\* Each use has a frame of its own, which is marked used.
Exclusive(uses, used) ==
    /\ \A x, y \in uses : x[3] = y[3] => x = y
    /\ \A x \in uses : x[3] \in used

\* A frame that grow_fail gives back came from the free ones.
FrameInv ==
    (Booted /\ ~shrunk) =>
        /\ Exclusive(Uses, page_frames_state_bitmap)
        /\ Reserved \subseteq page_frames_state_bitmap
        /\ \A x \in Batch : x[3] \notin Reserved
        /\ page \notin Reserved

\* The call in progress: how far the break has moved and how far it will.
BreakInv ==
    /\ pc \in {"boot", "abort", "idle", "grow", "map", "unmapped", "shrink", "returned"}
    /\ Booted => program_break_point \in heap_start .. HeapTop
    /\ pc \in {"grow", "map", "unmapped"} =>
        /\ old_break = program_break_point
        /\ new_break \in program_break_point + 1 .. HeapTop
        /\ vaddr \in PageUp(old_break) .. PageUp(new_break)
    /\ pc \in {"map", "unmapped"} => vaddr < PageUp(new_break)
    /\ pc = "shrink" =>
        /\ old_break \in heap_start .. HeapTop
        /\ new_break \in heap_start .. program_break_point
        /\ \E k \in Nat : old_break = program_break_point + PAGE_SIZE * k

Mapped(v) == pte[v] # NULL /\ pde[TableOf(v)] # NULL

\* The pages below the break are mapped, and so are those that the growth in
\* progress has been through.
MapInv ==
    Booted =>
        /\ \A v \in HeapPages : Mapped(v)
        /\ pc \in {"grow", "map", "unmapped"} =>
            \A v \in PageUp(old_break) .. vaddr - 1 : Mapped(v)

\* brk() is called with page boundaries only, where it is called at all, and then
\* sbrk() moves by whole pages; sbrk() alone may move by any amount.
WholePages == Targets = {} \/ \A n \in Increments \cup Targets : n % PAGE_SIZE = 0

\* A shrink starts from a page boundary.
AlignInv ==
    /\ (Booted /\ Targets # {}) => program_break_point % PAGE_SIZE = 0
    /\ (pc \in {"grow", "map", "unmapped"} /\ Targets # {}) => new_break % PAGE_SIZE = 0
    /\ pc = "shrink" => program_break_point % PAGE_SIZE = 0

IInv == PmmInv /\ FrameInv /\ BreakInv /\ (WholePages => MapInv /\ AlignInv)

(***************************************************************************)
(* Pages and tables.                                                       *)
(***************************************************************************)
LEMMA Sizes ==
  /\ PAGE_SIZE \in Nat \ {0} /\ PAGES_PER_TABLE \in Nat \ {0}
  /\ BATCH_PAGES_ALLOCED_MAX \in Nat \ {0} /\ MaxTable \in Nat \ {0}
  /\ MaxFrame \in Nat /\ KernelStart \in Nat /\ KernelEnd \in Nat
  /\ NULL \notin Int
BY SizesAssumption

\* PageUp counts the pages that begin below an address.
LEMMA PageUpBelow ==
  ASSUME NEW v \in Nat, NEW a \in Nat
  PROVE  PageUp(a) \in Nat /\ (v * PAGE_SIZE < a <=> v < PageUp(a))
<1>1. PAGE_SIZE \in Nat \ {0} /\ PAGE_SIZE \in Int
  BY Sizes
<1> DEFINE b == a + PAGE_SIZE - 1
           q == b \div PAGE_SIZE
           r == b % PAGE_SIZE
<1>2. b \in Int /\ b >= a /\ b = a + PAGE_SIZE - 1
  BY <1>1
<1> HIDE DEF b
<1>3. q \in Int /\ r \in 0 .. PAGE_SIZE - 1 /\ b = PAGE_SIZE * q + r
  BY <1>1, <1>2, DivBound
<1>4. PageUp(a) = q
  BY DEF PageUp, b
<1> HIDE DEF q, r
<1>5. v * PAGE_SIZE = PAGE_SIZE * v /\ PAGE_SIZE * v \in Int /\ PAGE_SIZE * q \in Int
      /\ v \in Int /\ PAGE_SIZE * 0 = 0
  BY <1>1, <1>3
<1>6. v < q => PAGE_SIZE * v + PAGE_SIZE <= PAGE_SIZE * q
  BY <1>1, <1>3, <1>5, MulStep
<1>7. q < v => PAGE_SIZE * q + PAGE_SIZE <= PAGE_SIZE * v
  BY <1>1, <1>3, <1>5, MulStep
<1>8. q = v => PAGE_SIZE * q = PAGE_SIZE * v
  OBVIOUS
<1>9. q < 0 => PAGE_SIZE * q + PAGE_SIZE <= PAGE_SIZE * 0
  BY <1>1, <1>3, MulStep
<1>10. v * PAGE_SIZE < a <=> v < q
  BY <1>1, <1>2, <1>3, <1>5, <1>6, <1>7, <1>8
<1>11. q \in Nat
  BY <1>1, <1>2, <1>3, <1>5, <1>9
<1> QED
  BY <1>4, <1>10, <1>11

\* PageDown is the page an address lies in.
LEMMA PageDownAt ==
  ASSUME NEW v \in Int, NEW a \in Nat
  PROVE  PageDown(a) \in Nat /\ (v * PAGE_SIZE <= a <=> v <= PageDown(a))
<1>1. PAGE_SIZE \in Nat \ {0} /\ PAGE_SIZE \in Int /\ a \in Int
  BY Sizes
<1> DEFINE q == a \div PAGE_SIZE
           r == a % PAGE_SIZE
<1>3. q \in Int /\ r \in 0 .. PAGE_SIZE - 1 /\ a = PAGE_SIZE * q + r
  BY <1>1, DivBound
<1>4. PageDown(a) = q
  BY DEF PageDown
<1> HIDE DEF q, r
<1>5. v * PAGE_SIZE = PAGE_SIZE * v /\ PAGE_SIZE * v \in Int /\ PAGE_SIZE * q \in Int
      /\ PAGE_SIZE * 0 = 0
  BY <1>1, <1>3
<1>6. v < q => PAGE_SIZE * v + PAGE_SIZE <= PAGE_SIZE * q
  BY <1>1, <1>3, <1>5, MulStep
<1>7. q < v => PAGE_SIZE * q + PAGE_SIZE <= PAGE_SIZE * v
  BY <1>1, <1>3, <1>5, MulStep
<1>8. q = v => PAGE_SIZE * q = PAGE_SIZE * v
  OBVIOUS
<1>9. q < 0 => PAGE_SIZE * q + PAGE_SIZE <= PAGE_SIZE * 0
  BY <1>1, <1>3, MulStep
<1>10. v * PAGE_SIZE <= a <=> v <= q
  BY <1>1, <1>3, <1>5, <1>6, <1>7, <1>8
<1>11. q \in Nat
  BY <1>1, <1>3, <1>5, <1>9
<1> QED
  BY <1>4, <1>10, <1>11

\* The page of a page boundary.
LEMMA PageDownExact ==
  ASSUME NEW a \in Nat, a % PAGE_SIZE = 0
  PROVE  PageDown(a) * PAGE_SIZE = a
<1>1. PAGE_SIZE \in Nat \ {0} /\ a \in Int
  BY Sizes
<1>2. a = PAGE_SIZE * (a \div PAGE_SIZE) + (a % PAGE_SIZE) /\ a \div PAGE_SIZE \in Int
  BY <1>1, DivBound
<1>3. a = PAGE_SIZE * (a \div PAGE_SIZE)
  BY <1>1, <1>2
<1> QED
  BY <1>1, <1>2, <1>3 DEF PageDown

\* The table of a virtual page is one of the tables.
LEMMA TableRange ==
  ASSUME NEW v \in VPage
  PROVE  v \in Nat /\ TableOf(v) \in Table
<1> DEFINE n == PAGES_PER_TABLE
           q == v \div n
           r == v % n
<1>1. n \in Nat \ {0} /\ MaxTable \in Nat /\ n \in Int /\ n * MaxTable \in Int /\ n * 0 = 0
      /\ (MaxTable + 1) * n = n * MaxTable + n
  BY Sizes
<1>2. v \in Int /\ 0 <= v /\ v < n * MaxTable + n
  BY <1>1 DEF VPage
<1>3. q \in Int /\ r \in 0 .. n - 1 /\ v = n * q + r /\ TableOf(v) = q
  BY <1>1, <1>2, DivBound DEF TableOf
<1> HIDE DEF n, q, r
<1>4. n * q \in Int
  BY <1>1, <1>3
<1>5. q < 0 => n * q + n <= n * 0
  BY <1>1, <1>3, MulStep
<1>6. MaxTable < q => n * MaxTable + n <= n * q
  BY <1>1, <1>3, MulStep
<1> QED
  BY <1>1, <1>2, <1>3, <1>4, <1>5, <1>6 DEF Table

\* The first page table is the one below the initial break, and the heap's pages
\* are pages of the page tables.
LEMMA Limits ==
  /\ HardLimit \in Nat /\ HeapTop \in Nat /\ HardLimit <= HeapTop /\ HardLimit % PAGE_SIZE = 0
  /\ heap_start \in Nat
  /\ \A v \in Nat : v < PageUp(HeapTop) => v \in VPage
  /\ \A v \in Nat : v * PAGE_SIZE < HardLimit => TableOf(v) = 0
<1> DEFINE n == PAGES_PER_TABLE
<1>1. /\ n \in Nat \ {0} /\ PAGE_SIZE \in Nat \ {0} /\ MaxTable \in Nat \ {0} /\ n \in Int
      /\ PAGE_SIZE \in Int
  BY Sizes
<1>2. /\ HardLimit = PAGE_SIZE * n /\ HeapTop = (MaxTable * n) * PAGE_SIZE
      /\ n * PAGE_SIZE = PAGE_SIZE * n
  BY <1>1 DEF HardLimit, HeapTop
<1>3. MaxTable * n \in Nat /\ n <= MaxTable * n /\ (MaxTable + 1) * n = MaxTable * n + n
  BY <1>1
<1> HIDE DEF n
<1> DEFINE m == MaxTable * n
<1>4. m \in Nat /\ n <= m /\ (MaxTable + 1) * n = m + n /\ HeapTop = m * PAGE_SIZE
      /\ m * PAGE_SIZE = PAGE_SIZE * m /\ m \in Int
  BY <1>1, <1>2, <1>3
<1> HIDE DEF m
<1>5. HardLimit \in Nat /\ HeapTop \in Nat
  BY <1>1, <1>2, <1>4
<1>6. HardLimit <= HeapTop
  <2>1. n < m => PAGE_SIZE * n + PAGE_SIZE <= PAGE_SIZE * m
    BY <1>1, <1>4, MulStep
  <2>2. n = m => PAGE_SIZE * n = PAGE_SIZE * m
    OBVIOUS
  <2> QED
    BY <2>1, <2>2, <1>1, <1>2, <1>4, <1>5
<1>7. HardLimit % PAGE_SIZE = 0
  BY <1>1, <1>2, ModMul
<1>8. heap_start \in Nat
  <2>1. PageUp(KernelEnd) \in Nat
    BY Sizes, PageUpBelow
  <2> QED
    BY <2>1, <1>1 DEF heap_start
<1>9. ASSUME NEW v \in Nat, v < PageUp(HeapTop)
      PROVE  v \in VPage
  <2>1. v * PAGE_SIZE < m * PAGE_SIZE
    BY <1>4, <1>5, <1>9, PageUpBelow
  <2>2. v < m
    <3>1. m < v => PAGE_SIZE * m + PAGE_SIZE <= PAGE_SIZE * v
      BY <1>1, <1>4, MulStep
    <3>2. m = v => PAGE_SIZE * m = PAGE_SIZE * v
      OBVIOUS
    <3>3. v * PAGE_SIZE = PAGE_SIZE * v /\ PAGE_SIZE * v \in Int /\ PAGE_SIZE * m \in Int
      BY <1>1, <1>4
    <3> QED
      BY <3>1, <3>2, <3>3, <2>1, <1>1, <1>4
  <2> QED
    BY <2>2, <1>1, <1>4 DEF VPage, n
<1>10. ASSUME NEW v \in Nat, v * PAGE_SIZE < HardLimit
       PROVE  TableOf(v) = 0
  <2>1. v < n
    <3>1. n < v => PAGE_SIZE * n + PAGE_SIZE <= PAGE_SIZE * v
      BY <1>1, MulStep
    <3>2. n = v => PAGE_SIZE * n = PAGE_SIZE * v
      OBVIOUS
    <3>3. v * PAGE_SIZE = PAGE_SIZE * v /\ PAGE_SIZE * v \in Int /\ PAGE_SIZE * n \in Int
      BY <1>1
    <3> QED
      BY <3>1, <3>2, <3>3, <1>1, <1>2, <1>10
  <2>2. v \in Int /\ 0 \in Int /\ v \in 0 .. n - 1 /\ v = n * 0 + v
    BY <2>1, <1>1
  <2>3. v \div n = 0
    BY <2>2, <1>1, DivUnique
  <2> QED
    BY <2>3 DEF TableOf, n
<1> QED
  BY <1>5, <1>6, <1>7, <1>8, <1>9, <1>10

(***************************************************************************)
(* Frames.                                                                 *)
(***************************************************************************)
\* pmm_alloc_frame_int finds a free frame as long as there is one.
LEMMA FreeFrame ==
  ASSUME NEW used, NEW i \in Nat, i < Cardinality(Frame \ used)
  PROVE  /\ pmm_alloc_frame_int(used, i) \in Frame \ used
         /\ Cardinality({g \in Frame \ used : g < pmm_alloc_frame_int(used, i)}) = i
<1> DEFINE free == Frame \ used
<1>1. free \in SUBSET Nat /\ IsFiniteSet(Frame)
  BY Sizes, FS_Interval DEF Frame
<1>2. IsFiniteSet(free)
  BY <1>1, FS_Subset
<1> HIDE DEF free
<1>3. i < Cardinality(free)
  BY DEF free
<1>4. \E f \in free : Cardinality({g \in free : g < f}) = i
  BY <1>1, <1>2, <1>3, NthLowest
<1> QED
  BY <1>4 DEF pmm_alloc_frame_int, free

\* The free frames can be counted.
LEMMA FreeCount ==
  ASSUME NEW used
  PROVE  Cardinality(Frame \ used) \in Nat
<1>1. IsFiniteSet(Frame)
  BY Sizes, FS_Interval DEF Frame
<1> QED
  BY <1>1, FS_Subset, FS_CardinalityType

\* pmm_alloc_page: what a refill takes was free, and each of its frames comes once.
LEMMA Refill ==
  ASSUME PmmInv, NEW ret, pmm_alloc_page(ret), allocate = 1 \/ pframe = BATCH_PAGES_ALLOCED_MAX
  PROVE  \E taken \in SUBSET (Frame \ page_frames_state_bitmap) :
           /\ page_frames_state_bitmap' = page_frames_state_bitmap \cup taken
           /\ pre_frames' \in [0 .. BATCH_PAGES_ALLOCED_MAX - 1 -> Frame \cup {NULL}]
           /\ \/ /\ allocate' = 1 /\ ret = NULL /\ pframe' = pframe
              \/ /\ allocate' = 0 /\ pframe' = 1 /\ ret = pre_frames'[0]
                 /\ \A i \in 0 .. BATCH_PAGES_ALLOCED_MAX - 1 : pre_frames'[i] \in taken
                 /\ \A i, j \in 0 .. BATCH_PAGES_ALLOCED_MAX - 1 :
                      pre_frames'[i] = pre_frames'[j] => i = j
<1> DEFINE B == 0 .. BATCH_PAGES_ALLOCED_MAX - 1
           used == page_frames_state_bitmap
           count == Cardinality(Frame \ used)
           nth(i) == pmm_alloc_frame_int(used, i)
           got == [i \in B |-> IF i < count THEN nth(i) ELSE pre_frames[i]]
           taken == {got[i] : i \in {j \in B : j < count}}
<1>1. DOMAIN pre_frames = B /\ B \subseteq Nat /\ count \in Nat
      /\ BATCH_PAGES_ALLOCED_MAX \in Nat \ {0}
  <2>1. count \in Nat
    BY FreeCount
  <2>2. BATCH_PAGES_ALLOCED_MAX \in Nat \ {0}
    BY Sizes
  <2> HIDE DEF count
  <2> QED
    BY <2>1, <2>2 DEF PmmInv
<1>2. \A i \in B : i < count => nth(i) \in Frame \ used
                     /\ Cardinality({g \in Frame \ used : g < nth(i)}) = i
  <2> SUFFICES ASSUME NEW i \in B, i < count
               PROVE  nth(i) \in Frame \ used
                      /\ Cardinality({g \in Frame \ used : g < nth(i)}) = i
    OBVIOUS
  <2>1. i \in Nat
    BY <1>1
  <2> QED
    BY <2>1, FreeFrame
<1>3. /\ pre_frames' = got /\ page_frames_state_bitmap' = used \cup taken
      /\ \/ count < BATCH_PAGES_ALLOCED_MAX /\ allocate' = 1 /\ ret = NULL /\ pframe' = pframe
         \/ count >= BATCH_PAGES_ALLOCED_MAX /\ allocate' = 0 /\ pframe' = 1 /\ ret = got[0]
  BY <1>1 DEF pmm_alloc_page, internal_page_frames_state_bitmap_set
<1> HIDE DEF count, used, nth
<1>4. \A i \in B : got[i] = IF i < count THEN nth(i) ELSE pre_frames[i]
  OBVIOUS
<1>5. \A i, j \in B : (i < count /\ j < count /\ nth(i) = nth(j)) => i = j
  BY <1>2
<1>6. taken \in SUBSET (Frame \ used)
  BY <1>2
<1>7. got \in [B -> Frame \cup {NULL}]
  BY <1>2 DEF PmmInv
<1>8. ASSUME count >= BATCH_PAGES_ALLOCED_MAX
      PROVE  /\ \A i \in B : got[i] \in taken
             /\ \A i, j \in B : got[i] = got[j] => i = j
  <2>1. \A i \in B : i < count
    BY <1>1, <1>8
  <2> QED
    BY <2>1, <1>4, <1>5
<1> HIDE DEF got, taken
<1>9. 0 \in B
  BY <1>1
<1> QED
  BY <1>3, <1>6, <1>7, <1>8 DEF used

\* pmm_alloc_page only marks frames as used, and keeps the types of the batch.
LEMMA AllocTypes ==
  ASSUME PmmInv, NEW ret, pmm_alloc_page(ret)
  PROVE  /\ page_frames_state_bitmap \subseteq page_frames_state_bitmap'
         /\ page_frames_state_bitmap' \subseteq Frame
         /\ pre_frames' \in [0 .. BATCH_PAGES_ALLOCED_MAX - 1 -> Frame \cup {NULL}]
         /\ pframe' \in 0 .. BATCH_PAGES_ALLOCED_MAX /\ allocate' \in {0, 1}
         /\ allocate' = 0 => \A i \in DOMAIN pre_frames' : pre_frames'[i] \in Frame
         /\ ret \in Frame \cup {NULL}
<1>1. BATCH_PAGES_ALLOCED_MAX \in Nat \ {0} /\ 0 \in 0 .. BATCH_PAGES_ALLOCED_MAX - 1
  BY Sizes
<1>2. CASE allocate = 1 \/ pframe = BATCH_PAGES_ALLOCED_MAX
  BY <1>1, <1>2, Refill DEF PmmInv
<1>3. CASE ~(allocate = 1 \/ pframe = BATCH_PAGES_ALLOCED_MAX)
  <2>1. /\ ret = pre_frames[pframe] /\ pframe' = pframe + 1
        /\ UNCHANGED <<page_frames_state_bitmap, pre_frames, allocate>>
    BY <1>3 DEF pmm_alloc_page
  <2>2. allocate = 0 /\ pframe \in 0 .. BATCH_PAGES_ALLOCED_MAX - 1
    BY <1>1, <1>3 DEF PmmInv
  <2>3. pframe + 1 \in 0 .. BATCH_PAGES_ALLOCED_MAX
    BY <2>2, <1>1
  <2> QED
    BY <2>1, <2>2, <2>3 DEF PmmInv
<1> QED
  BY <1>2, <1>3

\* Fewer uses of frames, or more frames marked, are exclusive too.
LEMMA ExclusiveSub ==
  ASSUME NEW U, NEW V, NEW B, NEW C, Exclusive(U, B), V \subseteq U, B \subseteq C
  PROVE  Exclusive(V, C)
BY DEF Exclusive

\* A use of a frame that nothing else uses may be added.
LEMMA ExclusiveAdd ==
  ASSUME NEW U, NEW B, NEW u, Exclusive(U, B), u[3] \in B, \A x \in U : x[3] # u[3]
  PROVE  Exclusive(U \cup {u}, B)
BY DEF Exclusive

Tables == {<<"table", t, pde[t]>> : t \in {u \in Table : pde[u] # NULL}}
HeapUses == {<<"heap", v, pte[v]>> :
               v \in {w \in VPage \ TestPages : TableOf(w) # 0 /\ pte[w] # NULL}}

\* The uses of frames that are not waiting in the batch.
HandedOut ==
    {<<"directory", 0, directory>>} \cup Tables \cup HeapUses
    \cup {<<"test", f, f>> : f \in held}
    \cup {<<"page", 0, f>> : f \in {page} \ {NULL}}

\* A frame in use is handed out or in the batch.
LEMMA UsesSplit == Uses = HandedOut \cup Batch
BY DEF Uses, HandedOut, Tables, HeapUses, Batch

\* The same in the next state.
LEMMA UsesSplitNext == Uses' = HandedOut' \cup Batch'
BY DEF Uses, HandedOut, Tables, HeapUses, Batch

\* A frame that pmm_alloc_page returns has no other use, and is not a reserved one.
LEMMA AllocExclusive ==
  ASSUME PmmInv, NEW ret, pmm_alloc_page(ret),
         Exclusive(HandedOut \cup Batch, page_frames_state_bitmap),
         Reserved \subseteq page_frames_state_bitmap,
         \A x \in Batch : x[3] \notin Reserved
  PROVE  /\ Exclusive(HandedOut \cup Batch', page_frames_state_bitmap')
         /\ \A x \in Batch' : x[3] \notin Reserved
         /\ ret # NULL => /\ ret \in page_frames_state_bitmap' \ Reserved
                          /\ \A x \in HandedOut \cup Batch' : x[3] # ret
<1> DEFINE B == 0 .. BATCH_PAGES_ALLOCED_MAX - 1
<1>1. BATCH_PAGES_ALLOCED_MAX \in Nat \ {0} /\ 0 \in B /\ B \subseteq Nat
  BY Sizes
<1>2. DOMAIN pre_frames = B /\ DOMAIN pre_frames' = B
  BY AllocTypes DEF PmmInv
<1>3. CASE allocate = 1 \/ pframe = BATCH_PAGES_ALLOCED_MAX
  <2>1. PICK taken \in SUBSET (Frame \ page_frames_state_bitmap) :
           /\ page_frames_state_bitmap' = page_frames_state_bitmap \cup taken
           /\ \/ /\ allocate' = 1 /\ ret = NULL
              \/ /\ allocate' = 0 /\ pframe' = 1 /\ ret = pre_frames'[0]
                 /\ \A i \in B : pre_frames'[i] \in taken
                 /\ \A i, j \in B : pre_frames'[i] = pre_frames'[j] => i = j
    BY <1>3, Refill
  <2>2. \A x \in HandedOut : x[3] \in page_frames_state_bitmap /\ x[3] \notin taken
    BY DEF Exclusive
  <2>3. \A x, y \in HandedOut : x[3] = y[3] => x = y
    BY DEF Exclusive
  <2>4. CASE allocate' = 1 /\ ret = NULL
    <3>1. Batch' = {}
      BY <2>4 DEF Batch
    <3> QED
      BY <3>1, <2>1, <2>2, <2>3, <2>4 DEF Exclusive
  <2>5. CASE /\ allocate' = 0 /\ pframe' = 1 /\ ret = pre_frames'[0]
             /\ \A i \in B : pre_frames'[i] \in taken
             /\ \A i, j \in B : pre_frames'[i] = pre_frames'[j] => i = j
    <3>1. \A x \in Batch' : \E i \in B : i # 0 /\ x = <<"batch", i, pre_frames'[i]>>
      BY <2>5, <1>2 DEF Batch
    <3>2. \A x \in Batch' : x[3] \in taken /\ x[3] # ret
      BY <3>1, <2>5, <1>1
    <3>3. \A x, y \in Batch' : x[3] = y[3] => x = y
      BY <3>1, <2>5
    <3>4. ret \in taken
      BY <2>5, <1>1
    <3>5. taken \cap Reserved = {}
      OBVIOUS
    <3>6. Exclusive(HandedOut \cup Batch', page_frames_state_bitmap')
      BY <3>2, <3>3, <2>1, <2>2, <2>3 DEF Exclusive
    <3>7. \A x \in HandedOut \cup Batch' : x[3] # ret
      BY <3>2, <3>4, <2>2
    <3> QED
      BY <3>2, <3>4, <3>5, <3>6, <3>7, <2>1
  <2> QED
    BY <2>1, <2>4, <2>5
<1>4. CASE ~(allocate = 1 \/ pframe = BATCH_PAGES_ALLOCED_MAX)
  <2>1. /\ ret = pre_frames[pframe] /\ pframe' = pframe + 1
        /\ UNCHANGED <<page_frames_state_bitmap, pre_frames, allocate>>
    BY <1>4 DEF pmm_alloc_page
  <2>2. allocate = 0 /\ pframe \in B
    BY <1>1, <1>4 DEF PmmInv
  <2>3. <<"batch", pframe, ret>> \in Batch
    BY <2>1, <2>2, <1>1, <1>2 DEF Batch
  <2>4. Batch' \subseteq Batch /\ \A x \in Batch' : x[2] # pframe
    <3> SUFFICES ASSUME NEW x \in Batch' PROVE x \in Batch /\ x[2] # pframe
      OBVIOUS
    <3>1. PICK i \in B : pframe + 1 <= i /\ x = <<"batch", i, pre_frames[i]>>
      BY <2>1, <1>2 DEF Batch
    <3>2. pframe <= i /\ i # pframe
      BY <3>1, <2>2, <1>1
    <3> QED
      BY <3>1, <3>2, <2>2, <1>2 DEF Batch
  <2>5. \A x \in HandedOut : x[1] # "batch"
    BY DEF HandedOut, Tables, HeapUses
  <2>6. \A x \in HandedOut \cup Batch' : x \in HandedOut \cup Batch /\ x # <<"batch", pframe, ret>>
    BY <2>4, <2>5
  <2>7. \A x \in HandedOut \cup Batch' : x[3] # ret
    BY <2>3, <2>6 DEF Exclusive
  <2>8. ret \in page_frames_state_bitmap /\ ret \notin Reserved
    BY <2>3 DEF Exclusive
  <2> QED
    BY <2>1, <2>4, <2>6, <2>7, <2>8 DEF Exclusive
<1> QED
  BY <1>3, <1>4

(***************************************************************************)
(* vmm_page_map.                                                           *)
(***************************************************************************)
\* A page stays mapped when another is, and a new page table hides no mapped page.
LEMMA MapStep ==
  ASSUME PmmInv, NEW v \in VPage, NEW phys \in Frame, NEW err, vmm_page_map(phys, v, err)
  PROVE  /\ page_frames_state_bitmap \subseteq page_frames_state_bitmap'
         /\ page_frames_state_bitmap' \subseteq Frame
         /\ pre_frames' \in [0 .. BATCH_PAGES_ALLOCED_MAX - 1 -> Frame \cup {NULL}]
         /\ pframe' \in 0 .. BATCH_PAGES_ALLOCED_MAX /\ allocate' \in {0, 1}
         /\ allocate' = 0 => \A i \in DOMAIN pre_frames' : pre_frames'[i] \in Frame
         /\ pde' \in [Table -> Frame \cup {NULL}]
         /\ pte' \in [VPage -> Nat \cup {NULL}]
         /\ err = 0 => Mapped(v)'
         /\ \A w \in VPage : Mapped(w) => Mapped(w)'
<1> DEFINE t == TableOf(v)
<1>1. t \in Table /\ phys \in Nat /\ \A f \in Frame : f # NULL
  BY Sizes, TableRange DEF Frame
<1>2. CASE pde[t] # NULL
  <2>1. pte' = [pte EXCEPT ![v] = phys] /\ UNCHANGED <<pmm, pde>>
    BY <1>2 DEF vmm_page_map
  <2>2. UNCHANGED <<page_frames_state_bitmap, pre_frames, pframe, allocate>>
    BY <2>1 DEF pmm
  <2> QED
    BY <1>1, <1>2, <2>1, <2>2 DEF PmmInv, Mapped
<1>3. CASE pde[t] = NULL
  <2>1. PICK table \in Frame \cup {NULL} :
            /\ pmm_alloc_page(table)
            /\ IF table = NULL
               THEN err = 12 /\ UNCHANGED <<pde, pte>>
               ELSE /\ pde' = [pde EXCEPT ![t] = table]
                    /\ pte' = [w \in VPage |-> IF w = v THEN phys
                                               ELSE IF TableOf(w) = t THEN NULL ELSE pte[w]]
                    /\ err = 0
    BY <1>3 DEF vmm_page_map
  <2>2. /\ pde' \in [Table -> Frame \cup {NULL}] /\ pte' \in [VPage -> Nat \cup {NULL}]
        /\ err = 0 => Mapped(v)'
    BY <2>1, <1>1 DEF PmmInv, Mapped
  <2>3. ASSUME NEW w \in VPage, Mapped(w) PROVE Mapped(w)'
    <3>1. TableOf(w) # t /\ w # v /\ TableOf(w) \in Table
      BY <1>3, <2>3, TableRange DEF Mapped
    <3> QED
      BY <3>1, <2>1, <2>3, <1>1 DEF Mapped, PmmInv
  <2> QED
    BY <2>1, <2>2, <2>3, AllocTypes
<1> QED
  BY <1>2, <1>3

\* The frame of a new page table has no other use.
LEMMA MapExclusive ==
  ASSUME PmmInv, NEW v \in VPage, NEW phys \in Frame, NEW err, vmm_page_map(phys, v, err),
         Exclusive(HandedOut \cup Batch, page_frames_state_bitmap),
         Reserved \subseteq page_frames_state_bitmap,
         \A x \in Batch : x[3] \notin Reserved
  PROVE  /\ \A x \in Batch' : x[3] \notin Reserved
         /\ \A x \in HeapUses' : \/ x \in HeapUses
                                 \/ x = <<"heap", v, phys>> /\ v \notin TestPages
         /\ err # 0 => HeapUses' = HeapUses
         /\ \E more \in SUBSET {<<"table", TableOf(v), f>> : f \in Frame} :
              /\ Exclusive(HandedOut \cup Batch' \cup more, page_frames_state_bitmap')
              /\ Tables' \subseteq Tables \cup more
<1> DEFINE t == TableOf(v)
<1>1. t \in Table /\ phys \in Nat /\ \A f \in Frame : f # NULL
  BY Sizes, TableRange DEF Frame
<1>2. CASE pde[t] # NULL
  <2>1. pte' = [pte EXCEPT ![v] = phys] /\ UNCHANGED <<pmm, pde>> /\ err = 0
    BY <1>2 DEF vmm_page_map
  <2>2. UNCHANGED <<page_frames_state_bitmap, pre_frames, pframe, allocate>>
    BY <2>1 DEF pmm
  <2>3. Batch' = Batch /\ Tables' = Tables
    BY <2>1, <2>2 DEF Batch, Tables
  <2>4. \A x \in HeapUses' : x \in HeapUses \/ (x = <<"heap", v, phys>> /\ v \notin TestPages)
    <3> SUFFICES ASSUME NEW w \in VPage \ TestPages, TableOf(w) # 0, pte'[w] # NULL
                 PROVE  \/ <<"heap", w, pte'[w]>> \in HeapUses
                        \/ <<"heap", w, pte'[w]>> = <<"heap", v, phys>> /\ v \notin TestPages
      BY DEF HeapUses
    <3>1. CASE w = v
      BY <3>1, <2>1 DEF PmmInv
    <3>2. CASE w # v
      <4>1. pte'[w] = pte[w]
        BY <3>2, <2>1 DEF PmmInv
      <4> QED
        BY <4>1 DEF HeapUses
    <3> QED
      BY <3>1, <3>2
  <2>5. HandedOut \cup Batch' \cup {} = HandedOut \cup Batch /\ Tables' \subseteq Tables \cup {}
    BY <2>3
  <2>6. /\ {} \in SUBSET {<<"table", TableOf(v), f>> : f \in Frame}
        /\ Exclusive(HandedOut \cup Batch' \cup {}, page_frames_state_bitmap')
    BY <2>2, <2>5
  <2>7. \A x \in Batch' : x[3] \notin Reserved
    BY <2>3
  <2> QED
    BY <2>1, <2>4, <2>5, <2>6, <2>7, Zenon
<1>3. CASE pde[t] = NULL
  <2>1. PICK table \in Frame \cup {NULL} :
            /\ pmm_alloc_page(table)
            /\ IF table = NULL
               THEN err = 12 /\ UNCHANGED <<pde, pte>>
               ELSE /\ pde' = [pde EXCEPT ![t] = table]
                    /\ pte' = [w \in VPage |-> IF w = v THEN phys
                                               ELSE IF TableOf(w) = t THEN NULL ELSE pte[w]]
                    /\ err = 0
    BY <1>3 DEF vmm_page_map
  <2>2. /\ Exclusive(HandedOut \cup Batch', page_frames_state_bitmap')
        /\ \A x \in Batch' : x[3] \notin Reserved
        /\ table # NULL => /\ table \in page_frames_state_bitmap'
                           /\ \A x \in HandedOut \cup Batch' : x[3] # table
    BY <2>1, AllocExclusive
  <2>3. CASE table = NULL
    <3>1. Tables' = Tables /\ HeapUses' = HeapUses
      BY <2>1, <2>3 DEF Tables, HeapUses
    <3>2. HandedOut \cup Batch' \cup {} = HandedOut \cup Batch' /\ Tables' \subseteq Tables \cup {}
      BY <3>1
    <3>3. /\ {} \in SUBSET {<<"table", TableOf(v), f>> : f \in Frame}
          /\ Exclusive(HandedOut \cup Batch' \cup {}, page_frames_state_bitmap')
      BY <3>2, <2>2
    <3> QED
      BY <3>1, <3>2, <3>3, <2>2, Zenon
  <2>4. CASE table # NULL
    <3> DEFINE u == <<"table", t, table>>
    <3>1. u[3] = table /\ u \in {<<"table", TableOf(v), f>> : f \in Frame}
      BY <2>4
    <3>2. Tables' \subseteq Tables \cup {u}
      <4> SUFFICES ASSUME NEW s \in Table, pde'[s] # NULL
                   PROVE  <<"table", s, pde'[s]>> \in Tables \cup {u}
        BY DEF Tables
      <4>1. pde'[s] = IF s = t THEN table ELSE pde[s]
        BY <2>1, <2>4 DEF PmmInv
      <4> QED
        BY <4>1 DEF Tables
    <3>3. \A x \in HeapUses' : x \in HeapUses \/ (x = <<"heap", v, phys>> /\ v \notin TestPages)
      <4> SUFFICES ASSUME NEW w \in VPage \ TestPages, TableOf(w) # 0, pte'[w] # NULL
                   PROVE  \/ <<"heap", w, pte'[w]>> \in HeapUses
                          \/ <<"heap", w, pte'[w]>> = <<"heap", v, phys>> /\ v \notin TestPages
        BY DEF HeapUses
      <4>1. pte'[w] = IF w = v THEN phys ELSE pte[w]
        BY <2>1, <2>4
      <4> QED
        BY <4>1 DEF HeapUses
    <3> HIDE DEF u
    <3>4. Exclusive((HandedOut \cup Batch') \cup {u}, page_frames_state_bitmap')
      BY <3>1, <2>2, <2>4, ExclusiveAdd
    <3> QED
      BY <3>1, <3>2, <3>3, <3>4, <2>1, <2>2, <2>4
  <2> QED
    BY <2>3, <2>4
<1> QED
  BY <1>2, <1>3

(***************************************************************************)
(* PmmInv and FrameInv, action by action.                                  *)
(***************************************************************************)
LEMMA Boot0 ==
  ASSUME PmmInv, pmm_directory_init
  PROVE  PmmInv' /\ FrameInv'
<1> DEFINE d == pmm_alloc_frame_int(Reserved, 0)
           ft == pmm_alloc_frame_int(Reserved, 1)
<1>1. /\ pc = "boot" /\ pc' = "idle" /\ Cardinality(Frame \ Reserved) >= 2
      /\ page_frames_state_bitmap' = Reserved \cup {d, ft}
      /\ directory' = d
      /\ pde' = [t \in Table |-> IF t = 0 THEN ft ELSE NULL]
      /\ pte' = [v \in VPage |-> IF TableOf(v) = 0 THEN v ELSE NULL]
      /\ UNCHANGED <<pre_frames, pframe, allocate, page, held, mmap, shrunk>>
  BY DEF pmm_directory_init, Reserved, locals
<1>2. Reserved \subseteq Frame
  <2>1. PageDown(KernelStart) .. PageDown(KernelEnd) \subseteq Frame
    <3>1. KernelStart \in Nat /\ KernelEnd \in Nat /\ MaxFrame \in Nat /\ PAGE_SIZE \in Nat
      BY Sizes
    <3>2. PageDown(KernelStart) \in Nat /\ PageDown(KernelEnd) \in Nat
      BY <3>1, PageDownAt
    <3>3. ~(MaxFrame + 1 <= PageDown(KernelEnd))
      <4>1. MaxFrame + 1 \in Int /\ (MaxFrame + 1) * PAGE_SIZE \in Int
        BY <3>1
      <4>2. ~((MaxFrame + 1) * PAGE_SIZE <= KernelEnd)
        BY <4>1, <3>1, SizesAssumption
      <4> QED
        BY <4>1, <4>2, <3>1, PageDownAt
    <3> QED
      BY <3>1, <3>2, <3>3 DEF Frame
  <2> QED
    BY <2>1 DEF Reserved, pmm_frames_init
<1>3. d \in Frame \ Reserved /\ ft \in Frame \ Reserved /\ d # ft
  <2>1. Cardinality(Frame \ Reserved) \in Nat
    BY FreeCount
  <2>2. 0 < Cardinality(Frame \ Reserved) /\ 1 < Cardinality(Frame \ Reserved)
    BY <2>1, <1>1
  <2>3. /\ d \in Frame \ Reserved /\ Cardinality({g \in Frame \ Reserved : g < d}) = 0
        /\ ft \in Frame \ Reserved /\ Cardinality({g \in Frame \ Reserved : g < ft}) = 1
    BY <2>2, FreeFrame
  <2> QED
    BY <2>3
<1> HIDE DEF d, ft
<1>4. page = NULL /\ held = {} /\ allocate = 1 /\ Reserved' = Reserved
  BY <1>1 DEF PmmInv, Reserved
<1>5. PmmInv'
  <2>1. \A v \in VPage : v \in Nat
    BY TableRange
  <2>2. pde' \in [Table -> Frame \cup {NULL}] /\ pte' \in [VPage -> Nat \cup {NULL}]
    BY <2>1, <1>1, <1>3
  <2> QED
    BY <2>2, <1>1, <1>2, <1>3, <1>4 DEF PmmInv
<1>6. Batch' = {}
  BY <1>1, <1>4 DEF Batch
<1>7. Uses' \subseteq {<<"directory", 0, d>>, <<"table", 0, ft>>}
  <2>1. Tables' \subseteq {<<"table", 0, ft>>}
    BY <1>1 DEF Tables
  <2>2. HeapUses' = {}
    BY <1>1 DEF HeapUses
  <2> QED
    BY <2>1, <2>2, <1>1, <1>4, <1>6, UsesSplitNext DEF HandedOut
<1>8. Exclusive({<<"directory", 0, d>>, <<"table", 0, ft>>}, page_frames_state_bitmap')
  BY <1>1, <1>3 DEF Exclusive
<1>9. Exclusive(Uses', page_frames_state_bitmap')
  BY <1>7, <1>8, ExclusiveSub
<1>10. NULL \notin Reserved
  <2>1. NULL \notin Frame
    BY Sizes DEF Frame
  <2> QED
    BY <2>1, <1>2
<1>11. /\ Reserved' \subseteq page_frames_state_bitmap'
       /\ \A x \in Batch' : x[3] \notin Reserved'
       /\ page' \notin Reserved'
  BY <1>1, <1>4, <1>6, <1>10
<1> QED
  BY <1>5, <1>9, <1>11 DEF FrameInv

\* Steps that leave the frames alone.
LEMMA QuietFrames ==
  ASSUME PmmInv, FrameInv, UNCHANGED <<pmm, tables, held, page, mmap, shrunk>>,
         pc \notin {"boot", "abort", "map", "unmapped"},
         pc' \notin {"boot", "abort", "map", "unmapped"}
  PROVE  PmmInv' /\ FrameInv'
<1> USE DEF pmm, tables
<1>1. PmmInv'
  BY DEF PmmInv, Booted
<1>2. Uses' = Uses /\ Reserved' = Reserved /\ Batch' = Batch
  BY DEF Uses, Reserved, Batch
<1> QED
  BY <1>1, <1>2 DEF FrameInv, Booted

\* A frame that pmm_alloc_page hands out had no other use.
LEMMA AllocFrames ==
  ASSUME PmmInv, FrameInv, grow_alloc \/ test_alloc_page
  PROVE  PmmInv' /\ FrameInv'
<1>1. PICK f \in Frame \cup {NULL} :
        /\ pmm_alloc_page(f)
        /\ \/ /\ pc = "grow"
              /\ IF f = NULL THEN pc' = "returned" /\ page' = page ELSE pc' = "map" /\ page' = f
              /\ held' = held
           \/ pc = "idle" /\ held' = held \cup ({f} \ {NULL}) /\ UNCHANGED <<pc, page>>
  BY DEF grow_alloc, test_alloc_page, Returned, locals
<1>2. UNCHANGED <<directory, pde, pte, mmap, shrunk>>
  BY DEF grow_alloc, test_alloc_page, tables
<1>3. page = NULL /\ \A g \in Frame : g # NULL
  BY <1>1, Sizes DEF PmmInv, Frame
<1>4. PmmInv'
  BY <1>1, <1>2, <1>3, AllocTypes DEF PmmInv, Booted
<1>5. ASSUME Booted', ~shrunk'
      PROVE  /\ Exclusive(Uses', page_frames_state_bitmap')
             /\ Reserved' \subseteq page_frames_state_bitmap'
             /\ \A x \in Batch' : x[3] \notin Reserved'
             /\ page' \notin Reserved'
  <2>1. /\ Exclusive(HandedOut \cup Batch, page_frames_state_bitmap)
        /\ Reserved \subseteq page_frames_state_bitmap
        /\ \A x \in Batch : x[3] \notin Reserved
        /\ page \notin Reserved
    BY <1>1, <1>2, <1>5, UsesSplit DEF FrameInv, Booted
  <2>2. /\ Exclusive(HandedOut \cup Batch', page_frames_state_bitmap')
        /\ \A x \in Batch' : x[3] \notin Reserved
        /\ f # NULL => /\ f \in page_frames_state_bitmap' \ Reserved
                       /\ \A x \in HandedOut \cup Batch' : x[3] # f
    BY <2>1, <1>1, AllocExclusive
  <2>3. Reserved' = Reserved /\ page_frames_state_bitmap \subseteq page_frames_state_bitmap'
    BY <1>1, <1>2, AllocTypes DEF Reserved
  <2>4. Tables' = Tables /\ HeapUses' = HeapUses
    BY <1>2 DEF Tables, HeapUses
  <2>5. page' \notin Reserved
    BY <2>1, <2>2, <1>1, <1>3
  <2>6. CASE f = NULL
    <3>1. HandedOut' = HandedOut
      BY <2>4, <2>6, <1>1, <1>2 DEF HandedOut
    <3>2. Uses' = HandedOut \cup Batch'
      BY <3>1, UsesSplitNext
    <3> QED
      BY <3>2, <2>1, <2>2, <2>3, <2>5
  <2>7. CASE f # NULL
    <3>1. PICK u \in {<<"page", 0, f>>, <<"test", f, f>>} : HandedOut' \subseteq HandedOut \cup {u}
      <4>1. CASE pc = "grow"
        <5>1. HandedOut' \subseteq HandedOut \cup {<<"page", 0, f>>}
          BY <4>1, <2>4, <2>7, <1>1, <1>2, <1>3 DEF HandedOut
        <5> QED
          BY <5>1
      <4>2. CASE pc = "idle"
        <5>1. HandedOut' \subseteq HandedOut \cup {<<"test", f, f>>}
          BY <4>2, <2>4, <2>7, <1>1, <1>2, <1>3 DEF HandedOut
        <5> QED
          BY <5>1
      <4> QED
        BY <4>1, <4>2, <1>1
    <3>2. u[3] = f
      OBVIOUS
    <3>3. Exclusive((HandedOut \cup Batch') \cup {u}, page_frames_state_bitmap')
      BY <3>2, <2>2, <2>7, ExclusiveAdd
    <3>4. Uses' \subseteq (HandedOut \cup Batch') \cup {u}
      BY <3>1, UsesSplitNext
    <3>5. Exclusive(Uses', page_frames_state_bitmap')
      BY <3>3, <3>4, ExclusiveSub
    <3> QED
      BY <3>5, <2>1, <2>2, <2>3, <2>5
  <2> QED
    BY <2>6, <2>7
<1> QED
  BY <1>4, <1>5 DEF FrameInv

\* vmm_page_map gives a new table a frame of its own.
LEMMA MapFrames ==
  ASSUME PmmInv, FrameInv,
         \/ grow_map /\ vaddr \in VPage
         \/ \E v \in TestPages, f \in held : test_map(f, v)
  PROVE  PmmInv' /\ FrameInv'
<1>1. PICK v \in VPage, phys \in Frame, err \in {0, 12} :
        /\ vmm_page_map(phys, v, err)
        /\ \/ /\ pc = "map" /\ phys = page
              /\ IF err = 0 THEN pc' = "grow" /\ page' = NULL ELSE pc' = "unmapped" /\ page' = page
           \/ pc = "idle" /\ v \in TestPages /\ UNCHANGED <<pc, page>>
  <2>1. CASE grow_map /\ vaddr \in VPage
    BY <2>1 DEF grow_map, PmmInv
  <2>2. CASE \E v \in TestPages, f \in held : test_map(f, v)
    BY <2>2, SizesAssumption DEF test_map, PmmInv, locals
  <2> QED
    BY <2>1, <2>2
<1>2. UNCHANGED <<directory, held, mmap, shrunk>>
  BY DEF grow_map, test_map
<1>3. \A g \in Frame : g # NULL
  BY Sizes DEF Frame
<1>4. PmmInv'
  BY <1>1, <1>2, <1>3, MapStep DEF PmmInv, Booted
<1>5. ASSUME Booted', ~shrunk'
      PROVE  /\ Exclusive(Uses', page_frames_state_bitmap')
             /\ Reserved' \subseteq page_frames_state_bitmap'
             /\ \A x \in Batch' : x[3] \notin Reserved'
             /\ page' \notin Reserved'
  <2>1. /\ Exclusive(HandedOut \cup Batch, page_frames_state_bitmap)
        /\ Reserved \subseteq page_frames_state_bitmap
        /\ \A x \in Batch : x[3] \notin Reserved
        /\ page \notin Reserved
    BY <1>1, <1>2, <1>5, UsesSplit DEF FrameInv, Booted
  <2>2. Reserved' = Reserved /\ page_frames_state_bitmap \subseteq page_frames_state_bitmap'
    BY <1>1, <1>2, MapStep DEF Reserved
  <2>3. /\ \A x \in Batch' : x[3] \notin Reserved
        /\ \A x \in HeapUses' : x \in HeapUses \/ (x = <<"heap", v, phys>> /\ v \notin TestPages)
        /\ err # 0 => HeapUses' = HeapUses
        /\ \E more \in SUBSET {<<"table", TableOf(v), f>> : f \in Frame} :
             /\ Exclusive(HandedOut \cup Batch' \cup more, page_frames_state_bitmap')
             /\ Tables' \subseteq Tables \cup more
    BY <2>1, <1>1, MapExclusive
  <2>4. PICK more \in SUBSET {<<"table", TableOf(v), f>> : f \in Frame} :
             /\ Exclusive(HandedOut \cup Batch' \cup more, page_frames_state_bitmap')
             /\ Tables' \subseteq Tables \cup more
    BY <2>3
  <2> DEFINE U == HandedOut \cup Batch' \cup more
  <2>5. CASE pc = "idle" \/ err # 0
    <3>1. HeapUses' \subseteq HeapUses /\ page' = page
      BY <2>3, <2>5, <1>1
    <3>2. HandedOut' \subseteq HandedOut \cup more
      BY <3>1, <2>4, <1>2 DEF HandedOut
    <3>3. Uses' \subseteq U
      BY <3>2, UsesSplitNext
    <3>4. Exclusive(Uses', page_frames_state_bitmap')
      BY <3>3, <2>4, ExclusiveSub
    <3> QED
      BY <3>1, <3>4, <2>1, <2>2, <2>3
  <2>6. CASE pc = "map" /\ err = 0
    <3> DEFINE p == <<"page", 0, page>>
               u == <<"heap", v, page>>
               W == U \ {p}
    <3>1. page' = NULL /\ phys = page /\ page \in Frame /\ page # NULL
      BY <2>6, <1>1, <1>3
    <3>2. p \in U /\ p[3] = page /\ u[3] = page
      BY <3>1 DEF HandedOut
    <3>3. HandedOut' \subseteq (HandedOut \ {p}) \cup more \cup {u}
      <4>1. Tables' \subseteq Tables \cup more /\ p \notin Tables /\ p \notin HeapUses
        BY <2>4 DEF Tables, HeapUses
      <4>2. HeapUses' \subseteq HeapUses \cup {u}
        BY <2>3, <3>1
      <4>3. \A f \in held : <<"test", f, f>> # p
        OBVIOUS
      <4>4. <<"directory", 0, directory>> # p
        OBVIOUS
      <4> HIDE DEF p, u
      <4> QED
        BY <4>1, <4>2, <4>3, <4>4, <3>1, <1>2 DEF HandedOut
    <3>4. p \notin Batch' /\ p \notin more
      BY DEF Batch
    <3>5. Uses' \subseteq W \cup {u}
      <4> HIDE DEF p, u
      <4> QED
        BY <3>3, <3>4, UsesSplitNext
    <3>6. \A x \in W : x[3] # u[3]
      BY <2>4, <3>2 DEF Exclusive
    <3>7. u[3] \in page_frames_state_bitmap'
      BY <2>4, <3>2 DEF Exclusive
    <3>8. Exclusive(W, page_frames_state_bitmap')
      BY <2>4, ExclusiveSub
    <3> HIDE DEF W, u
    <3>9. Exclusive(W \cup {u}, page_frames_state_bitmap')
      BY <3>6, <3>7, <3>8, ExclusiveAdd
    <3>10. Exclusive(Uses', page_frames_state_bitmap')
      BY <3>5, <3>9, ExclusiveSub
    <3>11. NULL \notin Reserved
      BY <2>1, <1>3 DEF PmmInv
    <3> QED
      BY <3>1, <3>10, <3>11, <2>1, <2>2, <2>3
  <2> QED
    BY <2>5, <2>6, <1>1
<1> QED
  BY <1>4, <1>5 DEF FrameInv

\* grow_fail gives back the one frame that has no use any more.
LEMMA FailFrames ==
  ASSUME PmmInv, FrameInv, grow_fail
  PROVE  PmmInv' /\ FrameInv'
<1>1. /\ pc = "unmapped" /\ pc' = "returned" /\ page' = NULL
      /\ page_frames_state_bitmap' = page_frames_state_bitmap \ {page}
      /\ UNCHANGED <<pre_frames, pframe, allocate, directory, pde, pte, held, mmap, shrunk>>
  BY DEF grow_fail, pmm_free_page, Returned, tables
<1>2. page \in Frame /\ \A g \in Frame : g # NULL
  BY <1>1, Sizes DEF PmmInv, Frame
<1>3. PmmInv'
  BY <1>1 DEF PmmInv, Booted
<1>4. Reserved' = Reserved /\ Batch' = Batch
  BY <1>1 DEF Reserved, Batch
<1>5. ASSUME Booted', ~shrunk'
      PROVE  /\ Exclusive(Uses', page_frames_state_bitmap')
             /\ Reserved' \subseteq page_frames_state_bitmap'
             /\ \A x \in Batch' : x[3] \notin Reserved'
             /\ page' \notin Reserved'
  <2>1. /\ Exclusive(Uses, page_frames_state_bitmap)
        /\ Reserved \subseteq page_frames_state_bitmap
        /\ \A x \in Batch : x[3] \notin Reserved
        /\ page \notin Reserved
    BY <1>1, <1>5 DEF FrameInv, Booted
  <2> DEFINE p == <<"page", 0, page>>
  <2>2. p \in Uses /\ p[3] = page
    BY <1>2, UsesSplit DEF HandedOut
  <2>3. Uses' \subseteq Uses \ {p}
    <3>1. Tables' = Tables /\ HeapUses' = HeapUses
      BY <1>1 DEF Tables, HeapUses
    <3>2. p \notin Tables /\ p \notin HeapUses /\ p \notin Batch /\ p # <<"directory", 0, directory>>
          /\ \A f \in held : <<"test", f, f>> # p
      BY DEF Tables, HeapUses, Batch
    <3> HIDE DEF p
    <3> QED
      BY <3>1, <3>2, <1>1, <1>4, UsesSplit, UsesSplitNext DEF HandedOut
  <2>4. \A x \in Uses \ {p} : x[3] # page
    BY <2>1, <2>2 DEF Exclusive
  <2>5. Exclusive(Uses', page_frames_state_bitmap')
    BY <2>1, <2>3, <2>4, <1>1 DEF Exclusive
  <2>6. NULL \notin Reserved
    BY <2>1, <1>2 DEF PmmInv
  <2> QED
    BY <2>1, <2>5, <2>6, <1>1, <1>4
<1> QED
  BY <1>3, <1>5 DEF FrameInv

\* Unmapping a page adds no use of a frame.
LEMMA UnmapFrames ==
  ASSUME PmmInv, FrameInv, shrink_page \/ \E v \in TestPages : test_unmap(v)
  PROVE  PmmInv' /\ FrameInv'
<1>1. CASE shrink_page
  <2>1. /\ pc = "shrink" /\ pc' = "shrink" /\ shrunk' = TRUE
        /\ page_frames_state_bitmap' \subseteq page_frames_state_bitmap
        /\ pte' \in {pte, [pte EXCEPT ![PageDown(program_break_point - PAGE_SIZE)] = NULL]}
        /\ UNCHANGED <<pre_frames, pframe, allocate, directory, pde, held, page>>
    BY <1>1 DEF shrink_page, pmm_free_page, vmm_page_unmap, locals
  <2>2. pte' \in [VPage -> Nat \cup {NULL}]
    BY <2>1 DEF PmmInv
  <2> QED
    BY <2>1, <2>2 DEF PmmInv, FrameInv, Booted
<1>2. CASE \E v \in TestPages : test_unmap(v)
  <2>1. PICK v \in TestPages : test_unmap(v)
    BY <1>2
  <2>2. /\ pc = "idle" /\ pc' = "idle" /\ pte' \in {pte, [pte EXCEPT ![v] = NULL]}
        /\ UNCHANGED <<page_frames_state_bitmap, pre_frames, pframe, allocate, directory, pde, held,
                       page, mmap, shrunk>>
    BY <2>1 DEF test_unmap, vmm_page_unmap, locals, pmm
  <2>3. PmmInv'
    BY <2>2 DEF PmmInv, Booted
  <2>4. Tables' = Tables /\ Batch' = Batch /\ Reserved' = Reserved
    BY <2>2 DEF Tables, Batch, Reserved
  <2>5. HeapUses' \subseteq HeapUses
    <3>1. \A w \in VPage \ TestPages : pte'[w] = pte[w]
      BY <2>2 DEF PmmInv
    <3> QED
      BY <3>1 DEF HeapUses
  <2>6. Uses' \subseteq Uses
    BY <2>2, <2>4, <2>5, UsesSplit, UsesSplitNext DEF HandedOut
  <2> QED
    BY <2>2, <2>3, <2>4, <2>6, ExclusiveSub DEF FrameInv, Booted
<1> QED
  BY <1>1, <1>2

(***************************************************************************)
(* The break and the pages below it.                                       *)
(***************************************************************************)
Growing == {"grow", "map", "unmapped"}

\* How a call of sbrk() begins.
LEMMA SbrkCases ==
  ASSUME pc = "idle", NEW increment \in Int, sbrk(increment), program_break_point \in Nat
  PROVE  /\ UNCHANGED <<pmm, tables, program_break_point, page, held, mmap, shrunk>>
         /\ old_break' = program_break_point /\ new_break' = program_break_point + increment
         /\ \/ /\ pc' = "returned" /\ increment = 0 /\ result' = program_break_point
            \/ /\ pc' = "returned" /\ increment < 0 /\ result' = -1
               /\ program_break_point + increment < heap_start
            \/ /\ pc' = "grow" /\ increment > 0 /\ program_break_point + increment <= HeapTop
               /\ vaddr' = PageUp(program_break_point)
            \/ /\ pc' = "shrink" /\ increment < 0
               /\ ~(program_break_point + increment < heap_start)
<1>1. CASE increment = 0 /\ query_brk
  BY <1>1 DEF sbrk, query_brk, Returned
<1>2. CASE increment_brk(increment)
  BY <1>2 DEF sbrk, increment_brk
<1>3. CASE decrement_brk(-increment)
  <2>1. program_break_point - (-increment) = program_break_point + increment /\ increment < 0
    BY <1>3 DEF decrement_brk
  <2> QED
    BY <1>3, <2>1 DEF sbrk, decrement_brk, Returned
<1> QED
  BY <1>1, <1>2, <1>3 DEF sbrk

\* Rounding up to a page is monotone.
LEMMA Grows ==
  ASSUME NEW a \in Nat, NEW b \in Nat, a <= b
  PROVE  PageUp(a) \in Nat /\ PageUp(b) \in Nat /\ PageUp(a) <= PageUp(b)
<1>1. PageUp(a) \in Nat /\ PageUp(b) \in Nat
  BY PageUpBelow
<1>2. ~(PageUp(b) < PageUp(a))
  <2> SUFFICES ASSUME PageUp(b) < PageUp(a) PROVE FALSE
    OBVIOUS
  <2>1. PageUp(b) * PAGE_SIZE < a /\ ~(PageUp(b) * PAGE_SIZE < b)
    BY <1>1, PageUpBelow
  <2>2. PageUp(b) * PAGE_SIZE \in Int
    BY <1>1, Sizes
  <2> QED
    BY <2>1, <2>2
<1> QED
  BY <1>1, <1>2

\* The page that a growth is about to map is a page of the page tables.
LEMMA GrowingPage ==
  ASSUME BreakInv, pc \in Growing
  PROVE  /\ program_break_point \in Nat /\ new_break \in Nat /\ vaddr \in Nat
         /\ PageUp(program_break_point) \in Nat /\ PageUp(new_break) \in Nat
         /\ vaddr < PageUp(new_break) => vaddr \in VPage
         /\ \A v \in PageUp(old_break) .. vaddr - 1 : v \in VPage
<1>1. /\ HeapTop \in Nat /\ heap_start \in Nat
      /\ \A v \in Nat : v < PageUp(HeapTop) => v \in VPage
  BY Limits
<1>2. /\ program_break_point \in heap_start .. HeapTop
      /\ old_break = program_break_point
      /\ new_break \in program_break_point + 1 .. HeapTop
      /\ vaddr \in PageUp(old_break) .. PageUp(new_break)
  BY DEF BreakInv, Growing, Booted
<1>3. /\ program_break_point \in Nat /\ new_break \in Nat /\ new_break <= HeapTop
  BY <1>1, <1>2
<1>4. /\ PageUp(program_break_point) \in Nat /\ PageUp(new_break) \in Nat /\ PageUp(HeapTop) \in Nat
      /\ PageUp(new_break) <= PageUp(HeapTop)
  BY <1>1, <1>3, Grows
<1>5. vaddr \in Nat /\ vaddr <= PageUp(new_break) /\ PageUp(old_break) \in Nat
  BY <1>2, <1>4
<1>6. vaddr < PageUp(new_break) => vaddr < PageUp(HeapTop)
  BY <1>4, <1>5
<1>7. \A v \in PageUp(old_break) .. vaddr - 1 : v \in Nat /\ v < PageUp(HeapTop)
  BY <1>4, <1>5
<1> QED
  BY <1>1, <1>3, <1>4, <1>5, <1>6, <1>7

\* The break starts where the first page table ends.
LEMMA BootBreak ==
  ASSUME pmm_directory_init
  PROVE  BreakInv'
<1>1. /\ pc' = "idle" /\ program_break_point' = HardLimit /\ heap_start < HardLimit
  BY DEF pmm_directory_init
<1>2. HardLimit \in heap_start .. HeapTop
  BY <1>1, Limits
<1> QED
  BY <1>1, <1>2 DEF BreakInv

\* sbrk sets out to grow or to shrink, or answers at once.
LEMMA CallBreak ==
  ASSUME BreakInv, pc = "idle", NEW increment \in Int, sbrk(increment)
  PROVE  BreakInv'
<1>1. program_break_point \in heap_start .. HeapTop /\ program_break_point \in Nat
      /\ heap_start \in Nat /\ HeapTop \in Nat
  BY Limits DEF BreakInv, Booted
<1>2. program_break_point' = program_break_point /\ old_break' = program_break_point
      /\ new_break' = program_break_point + increment
  BY <1>1, SbrkCases
<1>3. CASE pc' = "returned"
  BY <1>1, <1>2, <1>3 DEF BreakInv
<1>4. CASE pc' = "grow" /\ increment > 0 /\ program_break_point + increment <= HeapTop
           /\ vaddr' = PageUp(program_break_point)
  <2>1. new_break' \in program_break_point + 1 .. HeapTop /\ new_break' \in Nat
        /\ program_break_point <= new_break'
    BY <1>1, <1>2, <1>4
  <2>2. vaddr' \in PageUp(program_break_point) .. PageUp(new_break')
    BY <2>1, <1>1, <1>4, Grows
  <2>3. PageUp(old_break)' = PageUp(program_break_point) /\ PageUp(new_break)' = PageUp(new_break')
    BY <1>2 DEF PageUp
  <2> QED
    BY <2>1, <2>2, <2>3, <1>1, <1>2, <1>4 DEF BreakInv
<1>5. CASE pc' = "shrink" /\ increment < 0 /\ ~(program_break_point + increment < heap_start)
  <2>1. new_break' \in heap_start .. program_break_point
    BY <1>1, <1>2, <1>5
  <2>2. program_break_point = program_break_point + PAGE_SIZE * 0 /\ 0 \in Nat
    BY <1>1, Sizes
  <2>3. \E k \in Nat : old_break' = program_break_point' + PAGE_SIZE * k
    BY <2>2, <1>2
  <2> QED
    BY <2>1, <2>3, <1>1, <1>2, <1>5 DEF BreakInv
<1> QED
  BY <1>1, <1>3, <1>4, <1>5, SbrkCases

\* Each step of growth, with its failures, keeps track of the break.
LEMMA GrowBreak ==
  ASSUME BreakInv, grow_alloc \/ grow_map \/ grow_fail \/ grow_done
  PROVE  BreakInv'
<1>1. pc \in Growing
  BY DEF grow_alloc, grow_map, grow_fail, grow_done, Growing
<1>2. /\ program_break_point \in heap_start .. HeapTop
      /\ old_break = program_break_point
      /\ new_break \in program_break_point + 1 .. HeapTop
      /\ vaddr \in PageUp(old_break) .. PageUp(new_break)
  BY <1>1 DEF BreakInv, Growing, Booted
<1>3. vaddr \in Nat /\ PageUp(new_break) \in Nat /\ PageUp(old_break) \in Nat
  BY <1>1, <1>2, GrowingPage
<1>4. CASE grow_alloc \/ grow_fail
  <2>1. /\ UNCHANGED <<program_break_point, old_break, new_break, vaddr>>
        /\ pc' \in {"map", "returned"}
        /\ pc' = "map" => vaddr < PageUp(new_break)
    BY <1>4 DEF grow_alloc, grow_fail, Returned
  <2> QED
    BY <2>1, <1>2 DEF BreakInv, PageUp
<1>5. CASE grow_map
  <2>1. /\ UNCHANGED <<program_break_point, old_break, new_break>>
        /\ \/ pc' = "grow" /\ vaddr' = vaddr + 1
           \/ pc' = "unmapped" /\ vaddr' = vaddr
        /\ vaddr < PageUp(new_break)
    BY <1>5 DEF grow_map, BreakInv
  <2>2. vaddr' \in PageUp(old_break) .. PageUp(new_break)
    BY <2>1, <1>2, <1>3
  <2> QED
    BY <2>1, <2>2, <1>2 DEF BreakInv, PageUp
<1>6. CASE grow_done
  <2>1. program_break_point' = new_break /\ pc' = "returned"
    BY <1>6 DEF grow_done, Returned
  <2>2. new_break \in heap_start .. HeapTop
    BY <1>2, Limits
  <2> QED
    BY <2>1, <2>2 DEF BreakInv
<1> QED
  BY <1>4, <1>5, <1>6

\* Each page given back moves the break by what is left to go.
LEMMA ShrinkBreak ==
  ASSUME BreakInv, shrink_page \/ shrink_done
  PROVE  BreakInv'
<1>1. /\ pc = "shrink"
      /\ program_break_point \in heap_start .. HeapTop
      /\ old_break \in heap_start .. HeapTop
      /\ new_break \in heap_start .. program_break_point
  BY DEF BreakInv, Booted, shrink_page, shrink_done
<1>2. PICK k \in Nat : old_break = program_break_point + PAGE_SIZE * k
  BY <1>1 DEF BreakInv
<1>3. PAGE_SIZE \in Nat \ {0} /\ heap_start \in Nat /\ HeapTop \in Nat
  BY Sizes, Limits
<1>4. CASE shrink_page
  <2>1. /\ pc' = "shrink" /\ program_break_point' = program_break_point - PAGE_SIZE
        /\ program_break_point - PAGE_SIZE >= new_break
        /\ UNCHANGED <<old_break, new_break>>
    BY <1>4 DEF shrink_page, locals
  <2>2. /\ program_break_point' \in heap_start .. HeapTop
        /\ new_break \in heap_start .. program_break_point'
    BY <2>1, <1>1, <1>3
  <2>3. k + 1 \in Nat /\ PAGE_SIZE * (k + 1) = PAGE_SIZE * k + PAGE_SIZE /\ PAGE_SIZE * k \in Int
    BY <1>3
  <2>4. old_break' = program_break_point' + PAGE_SIZE * (k + 1)
    BY <2>1, <2>3, <1>1, <1>2, <1>3
  <2>5. \E j \in Nat : old_break' = program_break_point' + PAGE_SIZE * j
    BY <2>3, <2>4
  <2> QED
    BY <2>1, <2>2, <2>5, <1>1 DEF BreakInv
<1>5. CASE shrink_done
  BY <1>1, <1>5 DEF BreakInv, shrink_done, Returned
<1> QED
  BY <1>4, <1>5

(***************************************************************************)
(* AlignInv.                                                               *)
(***************************************************************************)
LEMMA CallAlign ==
  ASSUME WholePages, BreakInv, AlignInv,
         \/ \E increment \in Increments : sbrk_call(increment)
         \/ \E addr \in Targets : brk(addr)
  PROVE  AlignInv'
<1>1. pc = "idle"
  BY DEF sbrk_call, brk
<1>2. program_break_point \in Nat /\ program_break_point \in Int /\ PAGE_SIZE \in Nat \ {0}
  BY <1>1, Limits, Sizes DEF BreakInv, Booted
<1>3. PICK increment \in Int :
        /\ sbrk(increment)
        /\ Targets # {} => increment % PAGE_SIZE = 0
        /\ increment < 0 => program_break_point % PAGE_SIZE = 0
  <2>1. CASE \E i \in Increments : sbrk_call(i)
    <3>1. PICK i \in Increments : sbrk_call(i)
      BY <2>1
    <3>2. i \in Int /\ (Targets # {} => i % PAGE_SIZE = 0)
      BY SizesAssumption DEF WholePages
    <3> QED
      BY <3>1, <3>2 DEF sbrk_call
  <2>2. CASE \E addr \in Targets : brk(addr)
    <3>1. PICK addr \in Targets : brk(addr)
      BY <2>2
    <3>2. addr \in Int /\ addr % PAGE_SIZE = 0 /\ program_break_point % PAGE_SIZE = 0
      BY <1>1, SizesAssumption DEF WholePages, AlignInv, Booted
    <3>3. (addr - program_break_point) % PAGE_SIZE = 0
      BY <3>2, <1>2, ModSub
    <3>4. addr - program_break_point \in Int
      BY <3>2, <1>2
    <3> QED
      BY <3>1, <3>2, <3>3, <3>4 DEF brk
  <2> QED
    BY <2>1, <2>2
<1>4. /\ program_break_point' = program_break_point
      /\ new_break' = program_break_point + increment
      /\ pc' \in {"returned", "grow", "shrink"}
      /\ pc' = "shrink" => increment < 0
  BY <1>1, <1>2, <1>3, SbrkCases
<1>5. Targets # {} => program_break_point % PAGE_SIZE = 0
                      /\ (program_break_point + increment) % PAGE_SIZE = 0
  BY <1>1, <1>2, <1>3, ModAdd DEF AlignInv, Booted
<1> QED
  BY <1>3, <1>4, <1>5 DEF AlignInv

\* Moves by whole pages keep the break on a page boundary.
LEMMA MoveAlign ==
  ASSUME BreakInv, AlignInv,
         grow_alloc \/ grow_map \/ grow_fail \/ grow_done \/ shrink_page \/ shrink_done
  PROVE  AlignInv'
<1>1. CASE grow_alloc \/ grow_map \/ grow_fail
  <2>1. /\ pc \in {"grow", "map", "unmapped"} /\ UNCHANGED <<program_break_point, new_break>>
        /\ pc' \in {"grow", "map", "unmapped", "returned"}
    BY <1>1 DEF grow_alloc, grow_map, grow_fail, Returned
  <2> QED
    BY <2>1 DEF AlignInv, Booted
<1>2. CASE grow_done
  <2>1. pc = "grow" /\ pc' = "returned" /\ program_break_point' = new_break
    BY <1>2 DEF grow_done, Returned
  <2> QED
    BY <2>1 DEF AlignInv, Booted
<1>3. CASE shrink_page
  <2>1. /\ pc = "shrink" /\ pc' = "shrink"
        /\ program_break_point' = program_break_point - PAGE_SIZE
    BY <1>3 DEF shrink_page
  <2>2. program_break_point \in Int /\ PAGE_SIZE \in Nat \ {0} /\ PAGE_SIZE \in Int
        /\ PAGE_SIZE % PAGE_SIZE = 0
    BY <2>1, Sizes, Limits DEF BreakInv, Booted
  <2>3. (program_break_point - PAGE_SIZE) % PAGE_SIZE = 0
    BY <2>1, <2>2, ModSub DEF AlignInv
  <2> QED
    BY <2>1, <2>3 DEF AlignInv
<1>4. CASE shrink_done
  <2>1. pc = "shrink" /\ pc' = "returned" /\ program_break_point' = program_break_point
    BY <1>4 DEF shrink_done, Returned
  <2> QED
    BY <2>1 DEF AlignInv, Booted
<1> QED
  BY <1>1, <1>2, <1>3, <1>4

(***************************************************************************)
(* MapInv.                                                                 *)
(***************************************************************************)
LEMMA BootMap ==
  ASSUME PmmInv', pmm_directory_init
  PROVE  MapInv'
<1>1. /\ pc' = "idle" /\ program_break_point' = HardLimit
      /\ pde' = [t \in Table |-> IF t = 0 THEN pmm_alloc_frame_int(Reserved, 1) ELSE NULL]
      /\ pte' = [v \in VPage |-> IF TableOf(v) = 0 THEN v ELSE NULL]
      /\ Cardinality(Frame \ Reserved) >= 2
  BY DEF pmm_directory_init, Reserved
<1>2. pmm_alloc_frame_int(Reserved, 1) \in Frame /\ NULL \notin Frame
  <2>1. Cardinality(Frame \ Reserved) \in Nat
    BY FreeCount
  <2>2. 1 < Cardinality(Frame \ Reserved) /\ 1 \in Nat
    BY <2>1, <1>1
  <2>3. NULL \notin Frame
    BY Sizes DEF Frame
  <2> QED
    BY <2>2, <2>3, FreeFrame
<1>3. ASSUME NEW v \in HeapPages' PROVE Mapped(v)'
  <2>1. v \in VPage /\ v * PAGE_SIZE < HardLimit
    BY <1>1 DEF HeapPages
  <2>2. v \in Nat /\ TableOf(v) \in Table /\ TableOf(v) = 0 /\ v # NULL
    BY <2>1, TableRange, Limits, Sizes
  <2> QED
    BY <2>1, <2>2, <1>1, <1>2 DEF Mapped
<1> QED
  BY <1>1, <1>3 DEF MapInv

\* A call of sbrk maps and unmaps nothing yet.
LEMMA CallMap ==
  ASSUME BreakInv, MapInv, pc = "idle", NEW increment \in Int, sbrk(increment)
  PROVE  MapInv'
<1>1. program_break_point \in Nat
  BY Limits DEF BreakInv, Booted
<1>2. /\ UNCHANGED <<pte, pde, program_break_point>> /\ old_break' = program_break_point
      /\ pc' \in {"returned", "grow", "shrink"}
      /\ pc' = "grow" => vaddr' = PageUp(program_break_point)
  BY <1>1, SbrkCases DEF tables
<1>3. \A v \in HeapPages' : Mapped(v)'
  BY <1>2 DEF MapInv, Booted, HeapPages, Mapped
<1>4. pc' = "grow" => PageUp(old_break)' .. vaddr' - 1 = {}
  <2>1. PageUp(program_break_point) \in Nat
    BY <1>1, PageUpBelow
  <2>2. PageUp(program_break_point) .. PageUp(program_break_point) - 1 = {}
    BY <2>1
  <2> QED
    BY <2>2, <1>2 DEF PageUp
<1> QED
  BY <1>2, <1>3, <1>4 DEF MapInv

\* What growth has mapped so far reaches up to the page in hand.
LEMMA GrowMap ==
  ASSUME PmmInv, BreakInv, MapInv, grow_alloc \/ grow_map \/ grow_fail \/ grow_done
  PROVE  MapInv'
<1>1. pc \in Growing
  BY DEF grow_alloc, grow_map, grow_fail, grow_done, Growing
<1>2. /\ \A v \in HeapPages : Mapped(v)
      /\ \A v \in PageUp(old_break) .. vaddr - 1 : Mapped(v)
  BY <1>1 DEF MapInv, Growing, Booted
<1>3. /\ program_break_point \in Nat /\ new_break \in Nat /\ vaddr \in Nat
      /\ PageUp(program_break_point) \in Nat /\ PageUp(new_break) \in Nat
      /\ vaddr < PageUp(new_break) => vaddr \in VPage
      /\ \A v \in PageUp(old_break) .. vaddr - 1 : v \in VPage
      /\ old_break = program_break_point
  BY <1>1, GrowingPage DEF BreakInv, Growing
<1>4. CASE grow_alloc \/ grow_fail
  <2>1. UNCHANGED <<pte, pde, program_break_point, old_break, vaddr>>
    BY <1>4 DEF grow_alloc, grow_fail, tables
  <2> QED
    BY <2>1, <1>2 DEF MapInv, HeapPages, Mapped, PageUp
<1>5. CASE grow_map
  <2>1. PICK err \in {0, 12} :
          /\ vmm_page_map(page, vaddr, err)
          /\ IF err = 0 THEN vaddr' = vaddr + 1 ELSE vaddr' = vaddr
    BY <1>5 DEF grow_map
  <2>2. UNCHANGED <<program_break_point, old_break>> /\ pc = "map"
    BY <1>5 DEF grow_map
  <2>3. page \in Frame /\ vaddr \in VPage
    BY <2>2, <1>3 DEF PmmInv, BreakInv
  <2>4. \A w \in VPage : Mapped(w) => Mapped(w)'
    <3>1. PICK v \in VPage : v = vaddr
      BY <2>3
    <3>2. vmm_page_map(page, v, err)
      BY <3>1, <2>1
    <3> QED
      BY <3>2, <2>3, MapStep
  <2>5. \A v \in HeapPages' : Mapped(v)'
    BY <2>2, <2>4, <1>2 DEF HeapPages
  <2>6. \A v \in PageUp(old_break) .. vaddr - 1 : Mapped(v)'
    BY <2>4, <1>2, <1>3
  <2>7. err = 0 => pte'[vaddr] # NULL /\ pde'[TableOf(vaddr)] # NULL
    <3>1. PICK v \in VPage : v = vaddr
      BY <2>3
    <3>2. vmm_page_map(page, v, err)
      BY <3>1, <2>1
    <3>3. err = 0 => Mapped(v)'
      BY <3>2, <2>3, MapStep
    <3> QED
      BY <3>1, <3>3 DEF Mapped
  <2>8. \A v \in PageUp(old_break) .. vaddr' - 1 :
           v \in PageUp(old_break) .. vaddr - 1 \/ (v = vaddr /\ err = 0)
    BY <2>1, <1>3
  <2>9. \A v \in PageUp(old_break) .. vaddr' - 1 : Mapped(v)'
    BY <2>6, <2>7, <2>8 DEF Mapped
  <2>10. PageUp(old_break)' = PageUp(old_break)
    BY <2>2 DEF PageUp
  <2> QED
    BY <2>5, <2>9, <2>10 DEF MapInv
<1>6. CASE grow_done
  <2>1. /\ program_break_point' = new_break /\ pc' = "returned" /\ UNCHANGED <<pte, pde>>
        /\ vaddr >= PageUp(new_break)
    BY <1>6 DEF grow_done, Returned, tables
  <2>2. ASSUME NEW v \in HeapPages' PROVE Mapped(v)
    <3>1. v \in VPage /\ heap_start <= v * PAGE_SIZE /\ v * PAGE_SIZE < new_break /\ v \in Nat
      BY <2>1, TableRange DEF HeapPages
    <3>2. v < PageUp(new_break)
      BY <3>1, <1>3, PageUpBelow
    <3>3. CASE v * PAGE_SIZE < program_break_point
      BY <3>1, <3>3, <1>2 DEF HeapPages
    <3>4. CASE ~(v * PAGE_SIZE < program_break_point)
      <4>1. ~(v < PageUp(program_break_point))
        BY <3>1, <3>4, <1>3, PageUpBelow
      <4>2. v \in PageUp(old_break) .. vaddr - 1
        BY <4>1, <3>1, <3>2, <2>1, <1>3
      <4> QED
        BY <4>2, <1>2
    <3> QED
      BY <3>3, <3>4
  <2> QED
    BY <2>1, <2>2 DEF MapInv, Mapped
<1> QED
  BY <1>4, <1>5, <1>6

\* A shrink from a page boundary unmaps the page above the new break only.
LEMMA ShrinkMap ==
  ASSUME PmmInv, BreakInv, AlignInv, AlignInv', MapInv, shrink_page \/ shrink_done
  PROVE  MapInv'
<1>1. CASE shrink_page
  <2> DEFINE addr == program_break_point - PAGE_SIZE
             u == PageDown(addr)
  <2>1. /\ pc = "shrink" /\ pc' = "shrink" /\ program_break_point' = addr
        /\ pte' \in {pte, [pte EXCEPT ![u] = NULL]} /\ pde' = pde /\ addr >= new_break
    BY <1>1 DEF shrink_page, vmm_page_unmap
  <2>2. addr \in Nat /\ addr % PAGE_SIZE = 0 /\ addr <= program_break_point
        /\ program_break_point \in Nat
    <3>1. program_break_point \in Nat /\ new_break \in Nat /\ PAGE_SIZE \in Nat
      BY <2>1, Limits, Sizes DEF BreakInv, Booted
    <3>2. program_break_point' % PAGE_SIZE = 0
      BY <2>1 DEF AlignInv
    <3>3. addr % PAGE_SIZE = 0
      BY <3>2, <2>1
    <3> HIDE DEF u
    <3> QED
      BY <3>1, <3>3, <2>1
  <2>3. u * PAGE_SIZE = addr
    BY <2>2, PageDownExact
  <2> HIDE DEF addr, u
  <2>4. ASSUME NEW v \in HeapPages' PROVE Mapped(v)'
    <3>1. v \in VPage /\ heap_start <= v * PAGE_SIZE /\ v * PAGE_SIZE < addr
      BY <2>1 DEF HeapPages
    <3>2. v # u
      BY <3>1, <2>2, <2>3
    <3>3. v \in Nat /\ v * PAGE_SIZE \in Nat
      BY <3>1, TableRange, Sizes
    <3>4. v \in HeapPages
      BY <3>1, <3>3, <2>2 DEF HeapPages
    <3>5. Mapped(v)
      BY <3>4, <2>1 DEF MapInv, Booted
    <3> QED
      BY <3>1, <3>2, <3>5, <2>1 DEF Mapped, PmmInv
  <2> QED
    BY <2>1, <2>4 DEF MapInv
<1>2. CASE shrink_done
  <2>1. pc = "shrink" /\ pc' = "returned" /\ UNCHANGED <<pte, pde, program_break_point>>
    BY <1>2 DEF shrink_done, Returned, tables
  <2> QED
    BY <2>1 DEF MapInv, Booted, HeapPages, Mapped
<1> QED
  BY <1>1, <1>2

\* The tests' pages lie above the heap.
LEMMA TestMap ==
  ASSUME PmmInv, BreakInv, MapInv, pc = "idle", pc' = "idle",
         UNCHANGED program_break_point,
         \/ UNCHANGED <<pte, pde>>
         \/ \E v \in TestPages : test_unmap(v) \/ \E f \in held : test_map(f, v)
  PROVE  MapInv'
<1>1. HeapPages' = HeapPages /\ \A w \in HeapPages : Mapped(w) /\ w \in VPage
  BY DEF HeapPages, MapInv, Booted
<1>2. CASE UNCHANGED <<pte, pde>>
  BY <1>1, <1>2 DEF MapInv, Mapped
<1>3. CASE \E v \in TestPages : test_unmap(v)
  <2>1. PICK v \in TestPages : test_unmap(v)
    BY <1>3
  <2>2. pte' \in {pte, [pte EXCEPT ![v] = NULL]} /\ pde' = pde
    BY <2>1 DEF test_unmap, vmm_page_unmap
  <2>3. ASSUME NEW w \in HeapPages PROVE w # v
    <3>1. w * PAGE_SIZE < program_break_point /\ program_break_point <= HeapTop
          /\ HeapTop <= v * PAGE_SIZE
      BY TestPagesAssumption DEF HeapPages, BreakInv, Booted
    <3>2. w \in Nat /\ w * PAGE_SIZE \in Nat /\ HeapTop \in Nat /\ program_break_point \in Nat
      BY <1>1, TableRange, Sizes, Limits DEF BreakInv, Booted
    <3> QED
      BY <3>1, <3>2
  <2> QED
    BY <2>2, <2>3, <1>1 DEF MapInv, Mapped, PmmInv
<1>4. CASE \E v \in TestPages, f \in held : test_map(f, v)
  <2>1. PICK v \in TestPages, f \in held : test_map(f, v)
    BY <1>4
  <2>2. v \in VPage /\ f \in Frame
    BY SizesAssumption DEF PmmInv
  <2>3. PICK err \in {0, 12} : vmm_page_map(f, v, err)
    BY <2>1 DEF test_map
  <2>4. \A w \in VPage : Mapped(w) => Mapped(w)'
    BY <2>2, <2>3, MapStep
  <2> QED
    BY <2>4, <1>1 DEF MapInv
<1> QED
  BY <1>2, <1>3, <1>4

(***************************************************************************)
(* The inductive invariant holds.                                          *)
(***************************************************************************)
LEMMA InitInv == Init => IInv
<1> SUFFICES ASSUME Init PROVE IInv
  OBVIOUS
<1>1. PmmInv
  <2>1. 0 \in 0 .. BATCH_PAGES_ALLOCED_MAX
    BY Sizes
  <2> QED
    BY <2>1 DEF Init, PmmInv, Booted
<1>2. FrameInv /\ BreakInv /\ MapInv /\ AlignInv
  BY DEF Init, FrameInv, BreakInv, MapInv, AlignInv, Booted
<1> QED
  BY <1>1, <1>2 DEF IInv

\* Steps that change nothing the invariant looks at.
LEMMA StillInv ==
  ASSUME IInv, boot_abort \/ abort_loop \/ UNCHANGED vars
  PROVE  IInv'
<1> USE DEF vars, pmm, tables, locals
<1>1. CASE boot_abort
  <2>1. pc = "boot" /\ pc' = "abort" /\ UNCHANGED <<pmm, tables, held, page>>
    BY <1>1 DEF boot_abort
  <2>2. PmmInv'
    BY <2>1 DEF IInv, PmmInv, Booted
  <2> QED
    BY <2>1, <2>2 DEF IInv, FrameInv, BreakInv, MapInv, AlignInv, Booted
<1>2. CASE UNCHANGED vars
  <2>1. PmmInv' /\ AlignInv = AlignInv'
    BY <1>2 DEF IInv, PmmInv, AlignInv, Booted
  <2>2. FrameInv'
    <3>1. Uses' = Uses /\ Reserved' = Reserved /\ Batch' = Batch
      BY <1>2 DEF Uses, Reserved, Batch
    <3> QED
      BY <3>1, <1>2 DEF IInv, FrameInv, Booted
  <2>3. BreakInv'
    BY <1>2 DEF IInv, BreakInv, Booted, PageUp
  <2>4. MapInv => MapInv'
    BY <1>2 DEF MapInv, Booted, HeapPages, Mapped, PageUp
  <2> QED
    BY <2>1, <2>2, <2>3, <2>4 DEF IInv
<1> QED
  BY <1>1, <1>2 DEF abort_loop

\* Every step preserves the invariant.
LEMMA Inductive == IInv /\ [Next]_vars => IInv'
<1> SUFFICES ASSUME IInv, [Next]_vars PROVE IInv'
  OBVIOUS
<1> USE DEF IInv
<1>1. CASE boot_abort \/ abort_loop \/ UNCHANGED vars
  BY <1>1, StillInv
<1>2. CASE pmm_directory_init
  <2>1. pc' = "idle" /\ program_break_point' = HardLimit
    BY <1>2 DEF pmm_directory_init
  <2>2. AlignInv'
    BY <2>1, Limits DEF AlignInv
  <2> QED
    BY <1>2, <2>2, Boot0, BootBreak, BootMap
<1>3. CASE \/ \E increment \in Increments : sbrk_call(increment)
           \/ \E addr \in Targets : brk(addr)
  <2>1. pc = "idle"
    BY <1>3 DEF sbrk_call, brk
  <2>2. program_break_point \in Nat
    BY <2>1, Limits DEF BreakInv, Booted
  <2>3. PICK increment \in Int : sbrk(increment)
    <3>1. Increments \subseteq Int /\ \A addr \in Targets : addr \in Int
      BY SizesAssumption
    <3>2. \A addr \in Targets : addr - program_break_point \in Int
      BY <3>1, <2>2
    <3> QED
      BY <3>1, <3>2, <1>3 DEF sbrk_call, brk
  <2>4. /\ UNCHANGED <<pmm, tables, held, page, mmap, shrunk>>
        /\ pc' \in {"returned", "grow", "shrink"}
    BY <2>1, <2>2, <2>3, SbrkCases
  <2>5. PmmInv' /\ FrameInv'
    BY <2>1, <2>4, QuietFrames
  <2> QED
    BY <1>3, <2>1, <2>3, <2>5, CallBreak, CallMap, CallAlign
<1>4. CASE grow_alloc
  BY <1>4, AllocFrames, GrowBreak, GrowMap, MoveAlign
<1>5. CASE grow_map
  <2>1. pc = "map"
    BY <1>5 DEF grow_map
  <2>2. vaddr \in VPage
    BY <2>1, GrowingPage DEF BreakInv, Growing
  <2> QED
    BY <1>5, <2>2, MapFrames, GrowBreak, GrowMap, MoveAlign
<1>6. CASE grow_fail
  BY <1>6, FailFrames, GrowBreak, GrowMap, MoveAlign
<1>7. CASE grow_done
  <2>1. /\ UNCHANGED <<pmm, tables, held, page, mmap, shrunk>> /\ pc = "grow" /\ pc' = "returned"
    BY <1>7 DEF grow_done, Returned
  <2> QED
    BY <1>7, <2>1, QuietFrames, GrowBreak, GrowMap, MoveAlign
<1>8. CASE shrink_page
  BY <1>8, UnmapFrames, ShrinkBreak, ShrinkMap, MoveAlign
<1>9. CASE shrink_done
  <2>1. /\ UNCHANGED <<pmm, tables, held, page, mmap, shrunk>> /\ pc = "shrink" /\ pc' = "returned"
    BY <1>9 DEF shrink_done, Returned
  <2> QED
    BY <1>9, <2>1, QuietFrames, ShrinkBreak, ShrinkMap, MoveAlign
<1>10. CASE sbrk_return
  <2>1. /\ UNCHANGED <<pmm, tables, held, mmap, shrunk, program_break_point>> /\ page' = NULL
        /\ pc = "returned" /\ pc' = "idle"
    BY <1>10 DEF sbrk_return
  <2>2. page' = page
    BY <2>1 DEF PmmInv
  <2>3. PmmInv' /\ FrameInv'
    BY <2>1, <2>2, QuietFrames
  <2>4. BreakInv' /\ (MapInv => MapInv') /\ (AlignInv => AlignInv')
    BY <2>1 DEF BreakInv, MapInv, AlignInv, Booted, HeapPages, Mapped, tables
  <2> QED
    BY <2>3, <2>4
<1>11. CASE Test
  <2>1. /\ pc = "idle" /\ pc' = "idle" /\ program_break_point' = program_break_point
    BY <1>11 DEF Test, test_alloc_page, test_map, test_unmap
  <2>2. BreakInv' /\ (AlignInv => AlignInv')
    BY <2>1 DEF BreakInv, AlignInv, Booted
  <2>3. MapInv => MapInv'
    <3>1. CASE test_alloc_page
      BY <3>1, <2>1, TestMap DEF test_alloc_page, tables
    <3>2. CASE \E v \in TestPages : test_unmap(v) \/ \E f \in held : test_map(f, v)
      BY <3>2, <2>1, TestMap
    <3> QED
      BY <3>1, <3>2, <1>11 DEF Test
  <2>4. PmmInv' /\ FrameInv'
    <3>1. CASE test_alloc_page
      BY <3>1, AllocFrames
    <3>2. CASE \E v \in TestPages : test_unmap(v)
      BY <3>2, UnmapFrames
    <3>3. CASE \E v \in TestPages, f \in held : test_map(f, v)
      BY <3>3, MapFrames
    <3> QED
      BY <3>1, <3>2, <3>3, <1>11 DEF Test
  <2> QED
    BY <2>2, <2>3, <2>4
<1> QED
  BY <1>1, <1>2, <1>3, <1>4, <1>5, <1>6, <1>7, <1>8, <1>9, <1>10, <1>11 DEF Next, Boot, Sbrk

\* The invariant holds in every reachable state.
LEMMA Invariance == Spec => []IInv
BY InitInv, Inductive, PTL DEF Spec

(***************************************************************************)
(* The properties follow.                                                  *)
(***************************************************************************)
LEMMA ExclusiveFollows == IInv => FramesExclusive
BY DEF IInv, FrameInv, FramesExclusive, Exclusive, Booted

\* What pmm_frames_init leaves free is RAM from its first byte to its last.
LEMMA FreeIsRam ==
  ASSUME mmap \in MemoryMaps, NEW f \in Frame \ Reserved
  PROVE  /\ \E e \in mmap :
              e.available /\ e.addr <= f * PAGE_SIZE /\ (f + 1) * PAGE_SIZE <= e.addr + e.len
         /\ f >= LowFrames
         /\ (f + 1) * PAGE_SIZE <= KernelStart \/ KernelEnd < f * PAGE_SIZE
<1>1. /\ PAGE_SIZE \in Nat \ {0} /\ KernelStart \in Nat /\ KernelEnd \in Nat /\ LowFrames \in Nat
      /\ MaxFrame \in Nat
  BY SizesAssumption
<1>2. f \in Nat /\ f + 1 \in Nat /\ f + 1 \in Int /\ f * PAGE_SIZE \in Int
      /\ (f + 1) * PAGE_SIZE \in Int
  BY <1>1 DEF Frame
<1>3. PICK e \in mmap : e.available /\ f \in available_frames(e)
  BY DEF Reserved, pmm_frames_init
<1>4. e.addr \in Nat /\ e.len \in Nat /\ e.addr + e.len \in Nat
  BY MapsAssumption
<1>5. PageUp(e.addr) <= f /\ f < PageDown(e.addr + e.len)
  BY <1>3 DEF available_frames
<1>6. e.addr <= f * PAGE_SIZE
  <2>1. ~(f < PageUp(e.addr))
    BY <1>2, <1>4, <1>5, PageUpBelow
  <2>2. ~(f * PAGE_SIZE < e.addr)
    BY <2>1, <1>2, <1>4, PageUpBelow
  <2> QED
    BY <2>2, <1>2, <1>4
<1>7. (f + 1) * PAGE_SIZE <= e.addr + e.len
  <2>1. PageDown(e.addr + e.len) \in Nat
    BY <1>2, <1>4, PageDownAt
  <2>2. f + 1 <= PageDown(e.addr + e.len)
    BY <2>1, <1>2, <1>5
  <2> QED
    BY <2>2, <1>2, <1>4, PageDownAt
<1>8. f \notin PageDown(KernelStart) .. PageDown(KernelEnd) /\ ~(f < LowFrames)
  BY DEF Reserved, pmm_frames_init
<1>9. f >= LowFrames
  BY <1>1, <1>2, <1>8
<1>10. (f + 1) * PAGE_SIZE <= KernelStart \/ KernelEnd < f * PAGE_SIZE
  <2>1. PageDown(KernelStart) \in Nat /\ PageDown(KernelEnd) \in Nat
    BY <1>1, <1>2, PageDownAt
  <2>2. f + 1 <= PageDown(KernelStart) \/ ~(f <= PageDown(KernelEnd))
    BY <2>1, <1>2, <1>8
  <2>3. CASE f + 1 <= PageDown(KernelStart)
    BY <2>3, <1>1, <1>2, PageDownAt
  <2>4. CASE ~(f <= PageDown(KernelEnd))
    <3>1. ~(f * PAGE_SIZE <= KernelEnd)
      BY <2>4, <1>1, <1>2, PageDownAt
    <3> QED
      BY <3>1, <1>1, <1>2
  <2> QED
    BY <2>2, <2>3, <2>4
<1> QED
  BY <1>3, <1>6, <1>7, <1>9, <1>10

\* A frame that is free lies in available RAM.
LEMMA RamFollows == IInv /\ mmap \in MemoryMaps => OnlyRamIsFree
<1> SUFFICES ASSUME IInv, mmap \in MemoryMaps, Booted, ~shrunk,
                    NEW f \in Frame \ page_frames_state_bitmap
             PROVE  /\ \E e \in mmap : /\ e.available /\ e.addr <= f * PAGE_SIZE
                                       /\ (f + 1) * PAGE_SIZE <= e.addr + e.len
                    /\ f >= LowFrames
                    /\ (f + 1) * PAGE_SIZE <= KernelStart \/ KernelEnd < f * PAGE_SIZE
  BY DEF OnlyRamIsFree, Booted
<1>1. f \in Frame \ Reserved
  BY DEF IInv, FrameInv
<1> QED
  BY <1>1, FreeIsRam

\* The memory map never changes.
LEMMA MapFixed == mmap \in MemoryMaps /\ [Next]_vars => (mmap \in MemoryMaps)'
<1>1. [Next]_vars => mmap' = mmap
  BY DEF Next, Boot, Sbrk, Test, vars, pmm_directory_init, boot_abort, abort_loop, sbrk_call, brk, sbrk,
         grow_alloc, grow_map, grow_fail, grow_done, shrink_page, shrink_done, sbrk_return,
         test_alloc_page, test_map, test_unmap
<1> QED
  BY <1>1

\* The memory map is one of those considered.
LEMMA MapKnown == Spec => [](mmap \in MemoryMaps)
<1>1. Init => mmap \in MemoryMaps
  BY DEF Init
<1> QED
  BY <1>1, MapFixed, PTL DEF Spec

\* Between calls what is below the break is mapped.
LEMMA MappedFollows == WholePages /\ IInv => BreakMapped
BY DEF IInv, MapInv, BreakMapped, Mapped, Booted

(***************************************************************************)
(* brk.c implements BreakSpec.                                             *)
(***************************************************************************)
\* The refinement mapping of Abstract.
SpecBreak ==
    CASE pc \in {"boot", "abort"} -> NULL
      [] pc = "shrink" -> old_break
      [] OTHER -> program_break_point
SpecAnswer ==
    IF pc = "returned"
    THEN [increment |-> new_break - old_break, ret |-> IF result = -1 THEN NULL ELSE result]
    ELSE NULL

\* A call ends with one of the outcomes Break.tla allows.
LEMMA CallEnds ==
  ASSUME Booted, pc # "returned", pc' = "returned", SpecBreak \in Int,
         new_break' - old_break' \in Int, result' \in Int,
         [brk |-> program_break_point', ret |-> IF result' = -1 THEN NULL ELSE result']
           \in Abstract!sbrk(SpecBreak, new_break' - old_break')
  PROVE  Abstract!Next
<1>1. SpecBreak # NULL /\ SpecAnswer = NULL
  BY Sizes DEF SpecAnswer
<1>2. /\ SpecBreak' = program_break_point'
      /\ SpecAnswer' = [increment |-> new_break' - old_break',
                        ret |-> IF result' = -1 THEN NULL ELSE result']
  BY DEF SpecBreak, SpecAnswer
<1>3. SpecAnswer' # NULL
  <2>1. SpecAnswer' \in [increment : Int, ret : Int \cup {NULL}]
    BY <1>2
  <2>2. NULL \notin [increment : Int, ret : Int \cup {NULL}]
    BY SizesAssumption
  <2> QED
    BY <2>1, <2>2
<1>4. SpecAnswer'.increment = new_break' - old_break'
  BY <1>2
<1>5. \E r \in Abstract!sbrk(SpecBreak, SpecAnswer'.increment) :
        /\ SpecBreak' = r.brk
        /\ SpecAnswer' = [increment |-> SpecAnswer'.increment, ret |-> r.ret]
  BY <1>2, <1>4
<1>6. Abstract!Sbrk(SpecAnswer'.increment)
  BY <1>1, <1>5 DEF Abstract!Sbrk, SpecBreak, SpecAnswer
<1> QED
  BY <1>3, <1>6 DEF Abstract!Next, SpecAnswer

\* From the lowest address to the end of the heap no address wraps.
LEMMA NoWrap ==
  ASSUME NEW a \in Int, -KERNEL_VIRT_OFFSET <= a, a < HeapTop + PAGE_SIZE
  PROVE  Abstract!vaddr_t(a) = a
<1> DEFINE b == a + KERNEL_VIRT_OFFSET
<1>1. KERNEL_VIRT_OFFSET \in Nat /\ Width \in Nat /\ HeapTop \in Nat /\ PAGE_SIZE \in Nat \ {0}
      /\ KERNEL_VIRT_OFFSET + HeapTop + PAGE_SIZE <= Width
  BY AddressAssumption, Sizes, Limits
<1>2. b \in 0 .. Width - 1 /\ Width \in Nat \ {0} /\ b - KERNEL_VIRT_OFFSET = a
  BY <1>1
<1> HIDE DEF b
<1>3. b % Width = b
  BY <1>2, SMT
<1>4. Abstract!vaddr_t(a) = (b % Width) - KERNEL_VIRT_OFFSET
  BY DEF Abstract!vaddr_t, b
<1> QED
  BY <1>2, <1>3, <1>4

\* The pages below a break are counted alike.
LEMMA TopIsPageUp ==
  ASSUME NEW a \in 0 .. HeapTop
  PROVE  Abstract!MappedTop(a) = PageUp(a)
<1>1. HeapTop \in Nat /\ PAGE_SIZE \in Nat \ {0} /\ KERNEL_VIRT_OFFSET \in Nat
  BY AddressAssumption, Sizes, Limits
<1>2. a + PAGE_SIZE - 1 \in Int /\ -KERNEL_VIRT_OFFSET <= a + PAGE_SIZE - 1
      /\ a + PAGE_SIZE - 1 < HeapTop + PAGE_SIZE
  BY <1>1
<1>3. Abstract!vaddr_t(a + PAGE_SIZE - 1) = a + PAGE_SIZE - 1
  BY <1>2, NoWrap
<1> QED
  BY <1>3 DEF Abstract!MappedTop, PageUp

\* Entering sbrk is a step of BreakSpec only where it answers at once.
LEMMA CallSimulates ==
  ASSUME BreakInv, pc = "idle", NEW increment \in Int, sbrk(increment),
         -KERNEL_VIRT_OFFSET <= program_break_point + increment
  PROVE  Abstract!Next \/ UNCHANGED <<SpecBreak, SpecAnswer>>
<1>1. program_break_point \in Nat /\ program_break_point <= HeapTop
  BY Limits DEF BreakInv, Booted
<1>2. /\ program_break_point' = program_break_point
      /\ old_break' = program_break_point /\ new_break' = program_break_point + increment
      /\ new_break' - old_break' = increment
      /\ SpecBreak = program_break_point
  <2>1. (program_break_point + increment) - program_break_point = increment
    BY <1>1
  <2> QED
    BY <2>1, <1>1, SbrkCases DEF SpecBreak
<1>3. CASE pc' = "grow" \/ pc' = "shrink"
  BY <1>2, <1>3 DEF SpecBreak, SpecAnswer
<1>4. CASE pc' = "returned" /\ increment = 0 /\ result' = program_break_point
  <2>1. result' # -1
    BY <1>1, <1>4
  <2>2. [brk |-> program_break_point, ret |-> program_break_point]
          \in Abstract!sbrk(program_break_point, 0)
    BY DEF Abstract!sbrk, Abstract!Moved
  <2>3. [brk |-> program_break_point', ret |-> IF result' = -1 THEN NULL ELSE result']
           \in Abstract!sbrk(SpecBreak, new_break' - old_break')
    BY <2>1, <2>2, <1>2, <1>4
  <2> QED
    BY <2>3, <1>1, <1>2, <1>4, CallEnds DEF Booted
<1>5. CASE pc' = "returned" /\ increment < 0 /\ result' = -1
           /\ program_break_point + increment < heap_start
  <2>0. /\ program_break_point - (-increment) = program_break_point + increment
        /\ program_break_point + increment < HeapTop + PAGE_SIZE
        /\ program_break_point + increment \in Int /\ increment # 0 /\ ~(increment > 0)
    BY <1>1, <1>5, Sizes, Limits
  <2>1. Abstract!vaddr_t(program_break_point - (-increment)) < heap_start
    BY <2>0, <1>5, NoWrap
  <2>2. [brk |-> program_break_point, ret |-> NULL] \in Abstract!sbrk(program_break_point, increment)
    <3>1. [brk |-> program_break_point, ret |-> NULL]
            \in Abstract!decrement_brk(program_break_point, -increment)
      BY <2>1 DEF Abstract!decrement_brk, Abstract!Failed
    <3> QED
      BY <3>1, <2>0 DEF Abstract!sbrk
  <2>3. [brk |-> program_break_point', ret |-> IF result' = -1 THEN NULL ELSE result']
           \in Abstract!sbrk(SpecBreak, new_break' - old_break')
    BY <2>2, <1>2, <1>5
  <2>4. result' \in Int
    BY <1>5
  <2> QED
    BY <2>3, <2>4, <1>1, <1>2, <1>5, CallEnds DEF Booted
<1> QED
  BY <1>1, <1>3, <1>4, <1>5, SbrkCases

\* Growth is a step of BreakSpec where it returns, and none before.
LEMMA GrowSimulates ==
  ASSUME BreakInv, grow_alloc \/ grow_map \/ grow_fail \/ grow_done
  PROVE  Abstract!Next \/ UNCHANGED <<SpecBreak, SpecAnswer>>
<1>1. pc \in Growing /\ Booted /\ pc # "returned"
  BY DEF grow_alloc, grow_map, grow_fail, grow_done, Growing, Booted
<1>2. /\ program_break_point \in Nat /\ new_break \in Nat /\ old_break = program_break_point
      /\ new_break \in program_break_point + 1 .. HeapTop
      /\ program_break_point \in heap_start .. HeapTop
      /\ heap_start \in Nat /\ HeapTop \in Nat
  BY <1>1, GrowingPage, Limits DEF BreakInv, Growing
<1> DEFINE n == new_break - old_break
<1>3. /\ n \in Int /\ n # 0 /\ n > 0 /\ program_break_point + n = new_break
      /\ new_break \in heap_start .. HeapTop
  BY <1>2
<1> HIDE DEF n
<1>9. /\ Abstract!vaddr_t(program_break_point + n) = new_break
      /\ Abstract!MappedTop(new_break) = PageUp(new_break)
      /\ Abstract!MappedTop(program_break_point) = PageUp(program_break_point)
  <2>1. /\ new_break \in Int /\ -KERNEL_VIRT_OFFSET <= new_break /\ new_break < HeapTop + PAGE_SIZE
        /\ new_break \in 0 .. HeapTop /\ program_break_point \in 0 .. HeapTop
    BY <1>2, Sizes, AddressAssumption
  <2> QED
    BY <2>1, <1>3, NoWrap, TopIsPageUp
<1>10. vaddr \in Int /\ PageUp(program_break_point) \in Int /\ PageUp(new_break) \in Int
       /\ PageUp(program_break_point) <= vaddr
  BY <1>1, <1>2, GrowingPage DEF BreakInv, Growing
<1>4. SpecBreak = program_break_point /\ SpecBreak \in Int
  BY <1>1, <1>2 DEF SpecBreak, Growing
<1>5. CASE pc' \in Growing /\ UNCHANGED program_break_point
  BY <1>1, <1>4, <1>5 DEF SpecBreak, SpecAnswer, Growing
<1>6. CASE /\ pc' = "returned" /\ result' = -1
           /\ UNCHANGED <<program_break_point, old_break, new_break>>
           /\ vaddr < PageUp(new_break)
  <2>0. PageUp(new_break) > PageUp(program_break_point)
    BY <1>6, <1>10
  <2>1. [brk |-> program_break_point, ret |-> NULL] \in Abstract!sbrk(program_break_point, n)
    BY <2>0, <1>3, <1>9 DEF Abstract!sbrk, Abstract!increment_brk, Abstract!Failed
  <2>2. [brk |-> program_break_point', ret |-> IF result' = -1 THEN NULL ELSE result']
           \in Abstract!sbrk(SpecBreak, new_break' - old_break')
    BY <2>1, <1>4, <1>6 DEF n
  <2>3. result' \in Int /\ new_break' - old_break' \in Int
    BY <1>3, <1>6 DEF n
  <2> QED
    BY <2>2, <2>3, <1>1, <1>4, <1>6, CallEnds
<1>7. CASE grow_done
  <2>1. /\ pc' = "returned" /\ result' = old_break /\ program_break_point' = new_break
        /\ UNCHANGED <<old_break, new_break>>
    BY <1>7 DEF grow_done, Returned
  <2>2. result' # -1 /\ result' \in Int
    BY <2>1, <1>2
  <2>3. [brk |-> new_break, ret |-> program_break_point] \in Abstract!sbrk(program_break_point, n)
    <3>1. new_break <= HeapTop
      BY <1>2
    <3>2. [brk |-> new_break, ret |-> program_break_point]
            \in Abstract!increment_brk(program_break_point, n)
      BY <3>1, <1>9 DEF Abstract!increment_brk, Abstract!Moved
    <3> QED
      BY <3>2, <1>3 DEF Abstract!sbrk
  <2>4. [brk |-> program_break_point', ret |-> IF result' = -1 THEN NULL ELSE result']
           \in Abstract!sbrk(SpecBreak, new_break' - old_break')
    BY <2>1, <2>2, <2>3, <1>2, <1>4 DEF n
  <2>5. new_break' - old_break' \in Int
    BY <2>1, <1>3 DEF n
  <2> QED
    BY <2>1, <2>2, <2>4, <2>5, <1>1, <1>4, CallEnds
<1>8. CASE grow_alloc \/ grow_map \/ grow_fail
  <2>1. \/ pc' \in Growing /\ UNCHANGED program_break_point
        \/ /\ pc' = "returned" /\ result' = -1
           /\ UNCHANGED <<program_break_point, old_break, new_break>>
           /\ vaddr < PageUp(new_break)
    BY <1>8 DEF grow_alloc, grow_map, grow_fail, Returned, Growing, BreakInv
  <2> QED
    BY <2>1, <1>5, <1>6
<1> QED
  BY <1>7, <1>8

\* A shrink has moved the break by as many whole pages as fit.
LEMMA ShrinkSimulates ==
  ASSUME BreakInv, shrink_page \/ shrink_done
  PROVE  Abstract!Next \/ UNCHANGED <<SpecBreak, SpecAnswer>>
<1>1. /\ pc = "shrink" /\ Booted
      /\ program_break_point \in heap_start .. HeapTop
      /\ old_break \in heap_start .. HeapTop
      /\ new_break \in heap_start .. program_break_point
  BY DEF BreakInv, Booted, shrink_page, shrink_done
<1>2. PICK k \in Nat : old_break = program_break_point + PAGE_SIZE * k
  BY <1>1 DEF BreakInv
<1>3. PAGE_SIZE \in Nat \ {0} /\ heap_start \in Nat /\ HeapTop \in Nat /\ PAGE_SIZE * k \in Nat
      /\ k \in Int
  BY Sizes, Limits
<1>4. CASE shrink_page
  BY <1>1, <1>4 DEF shrink_page, locals, SpecBreak, SpecAnswer
<1>5. CASE shrink_done
  <2>1. /\ pc' = "returned" /\ result' = old_break
        /\ program_break_point - PAGE_SIZE < new_break
        /\ UNCHANGED <<old_break, new_break, program_break_point>>
    BY <1>5 DEF shrink_done, Returned
  <2> DEFINE d == old_break - new_break
             r == program_break_point - new_break
  <2>2. d \in Int /\ r \in 0 .. PAGE_SIZE - 1 /\ d = PAGE_SIZE * k + r
    BY <2>1, <1>1, <1>2, <1>3
  <2>3. d \div PAGE_SIZE = k
    BY <2>2, <1>3, DivUnique
  <2>4. /\ new_break - old_break \in Int /\ -(new_break - old_break) = d
        /\ new_break - old_break <= 0
        /\ ~(old_break - d < heap_start) /\ old_break - PAGE_SIZE * k = program_break_point
        /\ old_break \in Int /\ old_break # -1
    BY <1>1, <1>2, <1>3
  <2> HIDE DEF d, r
  <2>5. [brk |-> program_break_point, ret |-> old_break]
          \in Abstract!sbrk(old_break, new_break - old_break)
    <3>1. CASE new_break - old_break = 0
      <4>1. program_break_point = old_break
        BY <3>1, <1>1, <1>2, <1>3
      <4> QED
        BY <3>1, <4>1 DEF Abstract!sbrk, Abstract!Moved
    <3>2. CASE new_break - old_break # 0
      <4>1. ~(new_break - old_break > 0)
        BY <2>4
      <4>2. [brk |-> program_break_point, ret |-> old_break] \in Abstract!decrement_brk(old_break, d)
        <5>1. /\ old_break - d \in Int /\ old_break - d = new_break
              /\ -KERNEL_VIRT_OFFSET <= old_break - d /\ old_break - d < HeapTop + PAGE_SIZE
              /\ program_break_point \in Int /\ -KERNEL_VIRT_OFFSET <= program_break_point
              /\ program_break_point < HeapTop + PAGE_SIZE /\ ~(old_break < new_break)
          BY <2>4, <1>1, <1>3, AddressAssumption
        <5>2. Abstract!vaddr_t(old_break - d) = new_break
              /\ Abstract!vaddr_t(old_break - PAGE_SIZE * k) = program_break_point
          BY <5>1, <2>4, NoWrap
        <5> QED
          BY <5>1, <5>2, <2>3, <2>4 DEF Abstract!decrement_brk, Abstract!Moved
      <4> QED
        BY <3>2, <4>1, <4>2, <2>4 DEF Abstract!sbrk
    <3> QED
      BY <3>1, <3>2
  <2>6. SpecBreak = old_break
    BY <1>1 DEF SpecBreak
  <2>7. [brk |-> program_break_point', ret |-> IF result' = -1 THEN NULL ELSE result']
           \in Abstract!sbrk(SpecBreak, new_break' - old_break')
    BY <2>1, <2>4, <2>5, <2>6
  <2>8. new_break' - old_break' \in Int /\ result' \in Int /\ SpecBreak \in Int
    BY <2>1, <2>4, <2>6
  <2> QED
    BY <2>1, <2>7, <2>8, <1>1, CallEnds
<1> QED
  BY <1>4, <1>5

\* Every step is a step of BreakSpec or none.
LEMMA StepSimulates ==
  ASSUME IInv, [Next]_vars
  PROVE  Abstract!Next \/ UNCHANGED <<SpecBreak, SpecAnswer>>
<1> USE DEF IInv
<1>1. CASE pmm_directory_init
  <2>1. pc = "boot" /\ pc' = "idle" /\ program_break_point' = HardLimit /\ heap_start < HardLimit
    BY <1>1 DEF pmm_directory_init
  <2>2. HardLimit \in heap_start .. HeapTop
    BY <2>1, Limits
  <2>3. SpecBreak = NULL /\ SpecBreak' \in heap_start .. HeapTop /\ UNCHANGED SpecAnswer
    BY <2>1, <2>2 DEF SpecBreak, SpecAnswer
  <2>4. Abstract!heap_init
    BY <2>3 DEF Abstract!heap_init, Abstract!Address, SpecBreak, SpecAnswer
  <2> QED
    BY <2>4 DEF Abstract!Next
<1>2. CASE \/ \E increment \in Increments : sbrk_call(increment)
           \/ \E addr \in Targets : brk(addr)
  <2>1. pc = "idle"
    BY <1>2 DEF sbrk_call, brk
  <2>2. program_break_point \in Nat
    BY <2>1, Limits DEF BreakInv, Booted
  <2>3. PICK increment \in Int :
          sbrk(increment) /\ -KERNEL_VIRT_OFFSET <= program_break_point + increment
    <3>1. /\ Increments \subseteq Int /\ \A addr \in Targets : addr \in Nat
          /\ \A n \in Increments : -n <= KERNEL_VIRT_OFFSET
          /\ KERNEL_VIRT_OFFSET \in Nat
      BY SizesAssumption, AddressAssumption
    <3>2. \A addr \in Targets :
            /\ addr - program_break_point \in Int
            /\ -KERNEL_VIRT_OFFSET <= program_break_point + (addr - program_break_point)
      BY <3>1, <2>2
    <3>3. \A n \in Increments : -KERNEL_VIRT_OFFSET <= program_break_point + n
      BY <3>1, <2>2
    <3> QED
      BY <3>1, <3>2, <3>3, <1>2 DEF sbrk_call, brk
  <2> QED
    BY <2>1, <2>3, CallSimulates
<1>3. CASE grow_alloc \/ grow_map \/ grow_fail \/ grow_done
  BY <1>3, GrowSimulates
<1>4. CASE shrink_page \/ shrink_done
  BY <1>4, ShrinkSimulates
<1>5. CASE sbrk_return
  <2>1. SpecAnswer' = NULL /\ UNCHANGED SpecBreak
    BY <1>5 DEF sbrk_return, SpecBreak, SpecAnswer
  <2>2. Abstract!Return
    BY <2>1 DEF Abstract!Return, SpecBreak, SpecAnswer
  <2> QED
    BY <2>2 DEF Abstract!Next
<1>6. CASE Test
  <2>1. pc = "idle" /\ pc' = "idle" /\ UNCHANGED program_break_point
    BY <1>6 DEF Test, test_alloc_page, test_map, test_unmap
  <2> QED
    BY <2>1 DEF SpecBreak, SpecAnswer
<1>7. CASE boot_abort \/ abort_loop \/ UNCHANGED vars
  BY <1>7 DEF boot_abort, abort_loop, vars, locals, SpecBreak, SpecAnswer
<1> QED
  BY <1>1, <1>2, <1>3, <1>4, <1>5, <1>6, <1>7 DEF Next, Boot, Sbrk

(***************************************************************************)
(* Theorems                                                                *)
(***************************************************************************)
\* Until the break is first lowered, each frame has one use and is marked used: page
\* directory, page table, batch, heap page, a test's page; also after refills of
\* pmm_alloc_page's batch that ran dry and growth that failed half way.
THEOREM FramesHaveOneUse == Spec => []FramesExclusive
BY Invariance, ExclusiveFollows, PTL

\* Until the break is first lowered, every frame that pmm_alloc_page may still hand
\* out is RAM from its first byte to its last, and neither kernel nor low memory,
\* for any memory map that grub passes.
THEOREM FreeFramesAreRam == Spec => []OnlyRamIsFree
BY Invariance, MapKnown, RamFollows, PTL

\* Between calls every heap page below the break is mapped through a page table that
\* is present, after any growth, failed growth and shrinking from page boundaries.
THEOREM HeapIsMapped ==
  ASSUME WholePages
  PROVE  Spec => []BreakMapped
BY Invariance, MappedFollows, PTL

\* brk() and sbrk(), page by page and with every way they fail, do what the heap
\* assumes of them.
THEOREM PagingImplementsBreak == Spec => ImplementsBreak
<1>1. Init => Abstract!Init
  BY DEF Init, Abstract!Init
<1>2. IInv /\ [Next]_vars => [Abstract!Next]_<<SpecBreak, SpecAnswer>>
  BY StepSimulates
<1> QED
  BY <1>1, <1>2, Invariance, PTL
     DEF Spec, ImplementsBreak, Abstract!Spec, SpecBreak, SpecAnswer
=============================================================================
