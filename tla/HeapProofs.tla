----------------------------- MODULE HeapProofs -----------------------------
(***************************************************************************)
(* Proofs about the heap, for any layout, alignment and bound of memory    *)
(* and any sequence of calls with sizes so small that no break computed    *)
(* from them wraps (Modest), as long as nobody but the heap moves the      *)
(* program break.  Both conditions are needed: beyond such sizes sbrk()    *)
(* reports success for memory that was never mapped, and the run heap_sbrk *)
(* shows what happens without the second.                                  *)
(***************************************************************************)
EXTENDS Heap, NumberLemmas, TLAPS

\* A size for which neither ALIGN nor the argument of sbrk() wraps, nor the break
\* that increment_brk computes from it: below 1 GB less the memory of the machine.
Fitting(size) ==
    /\ size \in Nat
    /\ size + ALIGNMENT + HEADER < Width \div 2
    /\ KERNEL_VIRT_OFFSET + MaxBreak + size + ALIGNMENT + HEADER + PAGE_SIZE <= Width

Modest ==
    /\ \A size \in Sizes : Fitting(size)
    /\ \A size \in Sizes, nmemb \in Counts : Fitting(nmemb * size)
    /\ \A size \in ReallocSizes : Fitting(size)
    /\ Increments \subseteq {0}

(***************************************************************************)
(* The inductive invariant.                                                *)
(***************************************************************************)
\* The list h tiles the heap up to the break b: BlocksTile, the types of the
\* headers, and the bounds of the list.
Tiled(h, b) ==
    /\ b \in Int
    /\ DOMAIN h \subseteq HeapStart .. b - HEADER
    /\ HeapStart \in DOMAIN h /\ b - HEADER \in DOMAIN h
    /\ \A a \in DOMAIN h :
        /\ h[a] \in [next : Int \cup {NULL}, EOM : BOOLEAN, free : BOOLEAN]
        /\ h[a].EOM <=> a = b - HEADER
        /\ h[a].EOM => ~h[a].free
        /\ ~h[a].EOM =>
            /\ h[a].next \in DOMAIN h
            /\ a + HEADER <= h[a].next
            /\ \A c \in DOMAIN h : c <= a \/ h[a].next <= c

Used == {b \in DOMAIN heap : ~heap[b].free /\ ~heap[b].EOM}

\* Callers hold the used blocks, one region each; the block kfree was called for
\* is nobody's any more and is still used until kfree_mark.
Ownership ==
    /\ live \subseteq [ptr : Int, size : Nat]
    /\ \A r, s \in live : r.ptr = s.ptr => r = s
    /\ \A r \in live :
        /\ r.ptr - HEADER \in Used
        /\ r.size <= heap[r.ptr - HEADER].next - r.ptr
    /\ \A a \in Used : (\E r \in live : r.ptr = a + HEADER) \/ (pc = "kfree" /\ ptr = a + HEADER)

\* Where the call in progress is and what its locals stand for.
Progress ==
    /\ pc = "idle" => then = "idle"
    /\ pc = "kmalloc" =>
        /\ node \in DOMAIN heap
        /\ want \in Nat /\ aligned_size \in Nat /\ want <= aligned_size
        /\ aligned_size + HEADER < Width \div 2 /\ aligned_size + ALIGNMENT < Width
        /\ KERNEL_VIRT_OFFSET + MaxBreak + aligned_size + HEADER + PAGE_SIZE <= Width
        /\ aligned_size % ALIGNMENT = 0
        /\ then \in {"idle", "kcalloc", "krealloc"}
        /\ then = "krealloc" => \E r \in live : r.ptr = ptr
    /\ pc = "kfree" =>
        /\ ptr \in Int /\ ptr - HEADER \in Used
        /\ \A r \in live : r.ptr # ptr
        /\ then \in {"idle", "krealloc_unlock"}
    /\ pc = "kfree_walk" =>
        /\ ptr \in Int /\ ptr - HEADER \in DOMAIN heap /\ heap[ptr - HEADER].free
        /\ node \in DOMAIN heap /\ node < ptr - HEADER
        /\ then \in {"idle", "krealloc_unlock"}
    /\ pc = "krealloc" => \E r \in live : r.ptr = ptr
    /\ pc \in Location

\* Coalesced, with the one pair kfree has yet to merge.
Merged ==
    ~resized =>
        \A a \in DOMAIN heap :
            (heap[a].free /\ heap[heap[a].next].free) =>
                pc = "kfree_walk" /\ heap[a].next = ptr - HEADER

IInv ==
    /\ Tiled(heap, program_break_point)
    /\ program_break_point <= MaxBreak
    /\ grown = {}
    /\ Ownership /\ Progress /\ LockBalanced /\ Merged /\ BlocksAligned

(***************************************************************************)
(* Arithmetic.                                                             *)
(***************************************************************************)
\* ALIGN rounds up to a multiple of ALIGNMENT, by less than ALIGNMENT, when the
\* sum does not wrap.
LEMMA AlignRounds ==
  ASSUME NEW size \in Nat, size + ALIGNMENT <= Width
  PROVE  /\ ALIGN(size) \in Nat
         /\ size <= ALIGN(size) /\ ALIGN(size) < size + ALIGNMENT
         /\ ALIGN(size) % ALIGNMENT = 0
<1> DEFINE padded == size + ALIGNMENT - 1
<1>1. /\ ALIGNMENT \in Nat \ {0} /\ Width \in Nat \ {0}
      /\ padded \in 0 .. Width - 1
  BY LayoutAssumption
<1>2. padded % Width = padded
  BY <1>1
<1>3. ALIGN(size) = padded - (padded % ALIGNMENT)
  BY <1>2 DEF ALIGN
<1>4. padded % ALIGNMENT \in 0 .. ALIGNMENT - 1
  BY <1>1
<1>5. padded - (padded % ALIGNMENT) = ALIGNMENT * (padded \div ALIGNMENT)
  BY <1>1, DivBound
<1>6. (padded - (padded % ALIGNMENT)) % ALIGNMENT = 0
  BY <1>1, <1>5, ModMul
<1> HIDE DEF padded
<1> QED
  BY <1>1, <1>3, <1>4, <1>6 DEF padded

\* The block after one at a multiple of ALIGNMENT, when its payload is a multiple.
LEMMA AfterAligned ==
  ASSUME NEW block \in Int, NEW size \in Int, block % ALIGNMENT = 0, size % ALIGNMENT = 0
  PROVE  (block + HEADER + size) % ALIGNMENT = 0
<1>1. HEADER \in Int /\ HEADER % ALIGNMENT = 0 /\ ALIGNMENT \in Nat \ {0}
  BY LayoutAssumption
<1>2. block + HEADER + size =
        ALIGNMENT * ((block \div ALIGNMENT) + (HEADER \div ALIGNMENT) + (size \div ALIGNMENT))
  BY <1>1, DivBound
<1>3. (block \div ALIGNMENT) + (HEADER \div ALIGNMENT) + (size \div ALIGNMENT) \in Int
  BY <1>1
<1> QED
  BY <1>1, <1>2, <1>3, ModMul

\* A size that fits goes to sbrk() as it is.
LEMMA IntptrFits ==
  ASSUME NEW x \in Nat, x < Width \div 2
  PROVE  intptr_t(x) = x
<1>1. Width \in Nat \ {0}
  BY LayoutAssumption
<1>2. x \in 0 .. Width - 1
  BY <1>1
<1>3. x % Width = x
  BY <1>1, <1>2
<1> QED
  BY <1>1, <1>3 DEF intptr_t

\* What kmalloc rounds a fitting size to fits as well.
LEMMA FittingAligned ==
  ASSUME NEW size, Fitting(size)
  PROVE  /\ ALIGN(size) \in Nat /\ size <= ALIGN(size)
         /\ ALIGN(size) + HEADER < Width \div 2
         /\ ALIGN(size) + ALIGNMENT < Width
         /\ KERNEL_VIRT_OFFSET + MaxBreak + ALIGN(size) + HEADER + PAGE_SIZE <= Width
         /\ ALIGN(size) % ALIGNMENT = 0
<1>1. /\ Width \in Nat \ {0} /\ ALIGNMENT \in Nat \ {0} /\ HEADER \in Nat \ {0}
      /\ KERNEL_VIRT_OFFSET \in Nat /\ MaxBreak \in Nat /\ PAGE_SIZE \in Nat
  BY LayoutAssumption
<1>2. size \in Nat /\ size + ALIGNMENT + HEADER < Width \div 2 /\ size + ALIGNMENT <= Width
      /\ KERNEL_VIRT_OFFSET + MaxBreak + size + ALIGNMENT + HEADER + PAGE_SIZE <= Width
  BY <1>1 DEF Fitting
<1>3. /\ ALIGN(size) \in Nat /\ size <= ALIGN(size) /\ ALIGN(size) < size + ALIGNMENT
      /\ ALIGN(size) % ALIGNMENT = 0
  BY <1>2, AlignRounds
<1> QED
  BY <1>1, <1>2, <1>3

\* An address below the end of the address space is what it is.
LEMMA NoWrap ==
  ASSUME NEW a \in Nat, KERNEL_VIRT_OFFSET + a < Width
  PROVE  vaddr_t(a) = a
<1> DEFINE b == a + KERNEL_VIRT_OFFSET
<1>1. b \in 0 .. Width - 1 /\ Width \in Nat \ {0} /\ b - KERNEL_VIRT_OFFSET = a
  BY LayoutAssumption
<1> HIDE DEF b
<1>2. b % Width = b
  BY <1>1, SMT
<1>3. vaddr_t(a) = (b % Width) - KERNEL_VIRT_OFFSET
  BY DEF vaddr_t, b
<1> QED
  BY <1>1, <1>2, <1>3

\* Growth that needs no new page stays below MaxBreak, which ends a page.
LEMMA SamePageBelow ==
  ASSUME NEW old \in Nat, old <= MaxBreak, NEW new \in Nat,
         KERNEL_VIRT_OFFSET + new + PAGE_SIZE <= Width, ~(MappedTop(new) > MappedTop(old))
  PROVE  new <= MaxBreak
<1>1. /\ PAGE_SIZE \in Nat \ {0} /\ MaxBreak \in Nat /\ MaxBreak % PAGE_SIZE = 0
      /\ KERNEL_VIRT_OFFSET \in Nat /\ Width \in Nat
      /\ KERNEL_VIRT_OFFSET + MaxBreak + PAGE_SIZE <= Width
  BY LayoutAssumption
<1> DEFINE m == MaxBreak \div PAGE_SIZE
           o == old + PAGE_SIZE - 1
           n == new + PAGE_SIZE - 1
<1>2. /\ m \in Int /\ MaxBreak = PAGE_SIZE * m
  BY <1>1, DivBound
<1>3. /\ o \in Nat /\ KERNEL_VIRT_OFFSET + o < Width
      /\ n \in Nat /\ KERNEL_VIRT_OFFSET + n < Width
      /\ o = old + PAGE_SIZE - 1 /\ n = new + PAGE_SIZE - 1
  BY <1>1
<1>4. MappedTop(old) = o \div PAGE_SIZE /\ MappedTop(new) = n \div PAGE_SIZE
  BY <1>3, NoWrap DEF MappedTop
<1> HIDE DEF m, o, n
<1> DEFINE p == o \div PAGE_SIZE
           q == n \div PAGE_SIZE
<1>5. /\ p \in Int /\ q \in Int
      /\ o % PAGE_SIZE \in 0 .. PAGE_SIZE - 1 /\ o = PAGE_SIZE * p + (o % PAGE_SIZE)
      /\ n % PAGE_SIZE \in 0 .. PAGE_SIZE - 1 /\ n = PAGE_SIZE * q + (n % PAGE_SIZE)
  BY <1>1, <1>3, DivBound
<1>6. q <= p
  BY <1>4, <1>5
<1> HIDE DEF p, q
<1>7. PAGE_SIZE * p \in Int /\ PAGE_SIZE * q \in Int /\ PAGE_SIZE * m \in Int
  BY <1>1, <1>2, <1>5
<1>8. ~(m < p)
  BY <1>1, <1>2, <1>3, <1>5, <1>7, MulStep
<1>9. PAGE_SIZE * q <= PAGE_SIZE * m
  <2>1. q < m \/ q = m
    BY <1>2, <1>5, <1>6, <1>8
  <2>2. q < m => PAGE_SIZE * q + PAGE_SIZE <= PAGE_SIZE * m
    BY <1>1, <1>2, <1>5, MulStep
  <2>3. q = m => PAGE_SIZE * q = PAGE_SIZE * m
    OBVIOUS
  <2> QED
    BY <2>1, <2>2, <2>3, <1>1, <1>7
<1> QED
  BY <1>1, <1>2, <1>3, <1>5, <1>7, <1>9

(***************************************************************************)
(* What the operations on headers do to a tiled list.                      *)
(***************************************************************************)
\* Marking a block other than the last one free or used.
LEMMA MarkTiled ==
  ASSUME NEW h, NEW b, Tiled(h, b), NEW block \in DOMAIN h, ~h[block].EOM, NEW f \in BOOLEAN
  PROVE  LET k == [h EXCEPT ![block].free = f] IN
         /\ Tiled(k, b) /\ DOMAIN k = DOMAIN h
         /\ \A a \in DOMAIN h : k[a].next = h[a].next /\ k[a].EOM = h[a].EOM
         /\ \A a \in DOMAIN h : a # block => k[a] = h[a]
         /\ k[block].free = f
<1> DEFINE k == [h EXCEPT ![block].free = f]
<1>1. /\ DOMAIN k = DOMAIN h
      /\ \A a \in DOMAIN h : k[a].next = h[a].next /\ k[a].EOM = h[a].EOM
      /\ \A a \in DOMAIN h : a # block => k[a] = h[a]
      /\ k[block].free = f
      /\ \A a \in DOMAIN h : k[a] \in [next : Int \cup {NULL}, EOM : BOOLEAN, free : BOOLEAN]
  BY DEF Tiled
<1> HIDE DEF k
<1>2. Tiled(k, b)
  BY <1>1 DEF Tiled
<1> QED
  BY <1>1, <1>2 DEF k

\* k is h with block cut at new, or not cut, the rest being too small.
Halved(k, h, b, block, new) ==
    /\ Tiled(k, b)
    /\ block \in DOMAIN k
    /\ k[block].free = h[block].free /\ ~k[block].EOM
    /\ new <= k[block].next
    /\ \A a \in DOMAIN h : a \in DOMAIN k /\ (a # block => k[a] = h[a])
    /\ \/ DOMAIN k = DOMAIN h /\ k[block].next = h[block].next
       \/ /\ DOMAIN k = DOMAIN h \cup {new} /\ new \notin DOMAIN h
          /\ k[block].next = new
          /\ k[new].free /\ ~k[new].EOM /\ k[new].next = h[block].next

\* heap_block_split: a piece of at least size bytes stays with the block, and the
\* rest, if there is one, is a new free block.
LEMMA SplitTiled ==
  ASSUME NEW h, NEW b, Tiled(h, b), NEW block \in DOMAIN h, ~h[block].EOM,
         NEW size \in Nat, size + ALIGNMENT <= Width, size <= h[block].next - block - HEADER
  PROVE  Halved(heap_block_split(h, block, size), h, b, block, block + HEADER + size)
<1> DEFINE k == heap_block_split(h, block, size)
           new == block + HEADER + size
           space == internal_heap_block_get_available_space(h, block)
<1>1. /\ HEADER \in Nat \ {0} /\ MINIMUM_ALLOCATION_BYTES \in Nat /\ HeapStart \in Nat
  BY LayoutAssumption
<1>2. /\ b \in Int /\ block \in Int /\ h[block].next \in Int /\ block >= HeapStart
      /\ h[block].next \in DOMAIN h
  BY <1>1 DEF Tiled
<1>3. space = h[block].next - block - HEADER
  BY DEF internal_heap_block_get_available_space
<1>4. ALIGN(size) \in Nat /\ size <= ALIGN(size)
  BY AlignRounds
<1>5. CASE space < ALIGN(size) + HEADER + MINIMUM_ALLOCATION_BYTES
  <2>1. k = h
    BY <1>5 DEF heap_block_split
  <2> QED
    BY <2>1, <1>1, <1>2 DEF Halved
<1>6. CASE ~(space < ALIGN(size) + HEADER + MINIMUM_ALLOCATION_BYTES)
  <2>1. new \in Int /\ block < new /\ new + HEADER <= h[block].next
    BY <1>1, <1>2, <1>3, <1>4, <1>6
  <2>2. new \notin DOMAIN h
    BY <2>1, <1>1, <1>2 DEF Tiled
  <2> DEFINE g == internal_heap_block_set_metadata(h, new, FALSE, TRUE, h[block].next)
  <2>3. k = [g EXCEPT ![block].next = new]
    BY <1>6 DEF heap_block_split
  <2>4. /\ DOMAIN g = DOMAIN h \cup {new}
        /\ g[new] = [next |-> h[block].next, EOM |-> FALSE, free |-> TRUE]
        /\ \A a \in DOMAIN h : g[a] = h[a]
    BY <2>2 DEF internal_heap_block_set_metadata
  <2> HIDE DEF g
  <2>5. /\ DOMAIN k = DOMAIN h \cup {new}
        /\ k[new] = [next |-> h[block].next, EOM |-> FALSE, free |-> TRUE]
        /\ \A a \in DOMAIN h : a # block => k[a] = h[a]
        /\ k[block] = [h[block] EXCEPT !.next = new]
    BY <2>1, <2>2, <2>3, <2>4, <1>2
  <2>6. /\ k[block].next = new /\ k[block].free = h[block].free /\ k[block].EOM = FALSE
        /\ k[block] \in [next : Int \cup {NULL}, EOM : BOOLEAN, free : BOOLEAN]
    BY <2>5, <2>1 DEF Tiled
  <2>7. /\ k[new].free /\ ~k[new].EOM /\ k[new].next = h[block].next
        /\ k[new] \in [next : Int \cup {NULL}, EOM : BOOLEAN, free : BOOLEAN]
    BY <2>5, <1>2
  <2> HIDE DEF k, new
  <2>8. Tiled(k, b)
    <3>1. /\ b \in Int /\ DOMAIN k \subseteq HeapStart .. b - HEADER
          /\ HeapStart \in DOMAIN k /\ b - HEADER \in DOMAIN k
      BY <2>1, <2>5, <1>1, <1>2 DEF Tiled
    <3>2. ASSUME NEW a \in DOMAIN k
          PROVE  /\ k[a] \in [next : Int \cup {NULL}, EOM : BOOLEAN, free : BOOLEAN]
                 /\ k[a].EOM <=> a = b - HEADER
                 /\ k[a].EOM => ~k[a].free
                 /\ ~k[a].EOM => k[a].next \in DOMAIN k /\ a + HEADER <= k[a].next
      <4>1. CASE a = new
        BY <4>1, <2>1, <2>2, <2>5, <2>7, <1>1, <1>2 DEF Tiled
      <4>2. CASE a = block
        BY <4>2, <2>1, <2>5, <2>6, <1>1, <1>2 DEF Tiled, new
      <4>3. CASE a # new /\ a # block
        BY <4>3, <2>5, <1>1 DEF Tiled
      <4> QED
        BY <4>1, <4>2, <4>3
    <3>3. ASSUME NEW a \in DOMAIN k, ~k[a].EOM, NEW c \in DOMAIN k
          PROVE  c <= a \/ k[a].next <= c
      <4>1. CASE a = new
        BY <4>1, <3>3, <2>1, <2>5, <2>7, <1>1, <1>2 DEF Tiled
      <4>2. CASE a = block
        BY <4>2, <3>3, <2>1, <2>5, <2>6, <1>1, <1>2 DEF Tiled
      <4>3. CASE a # new /\ a # block
        <5>1. a \in DOMAIN h /\ k[a] = h[a] /\ a \in Int /\ h[a].next \in Int
          BY <4>3, <3>3, <2>5, <1>1 DEF Tiled
        <5>2. CASE c \in DOMAIN h
          BY <5>1, <5>2, <3>3 DEF Tiled
        <5>3. CASE c = new
          <6>1. a <= block \/ h[block].next <= a
            BY <5>1 DEF Tiled
          <6>2. a < block => h[a].next <= block
            BY <5>1, <3>3, <1>2 DEF Tiled
          <6> QED
            BY <5>1, <5>3, <6>1, <6>2, <4>3, <2>1, <1>1, <1>2
        <5> QED
          BY <5>2, <5>3, <2>5
      <4> QED
        BY <4>1, <4>2, <4>3
    <3> QED
      BY <3>1, <3>2, <3>3 DEF Tiled
  <2> QED
    <3>1. Halved(k, h, b, block, new)
      BY <2>1, <2>2, <2>5, <2>6, <2>7, <2>8, <1>2 DEF Halved
    <3> QED
      BY <3>1 DEF k, new
<1> QED
  BY <1>5, <1>6

\* heap_block_merge_down: the next block becomes part of this one.
LEMMA MergeTiled ==
  ASSUME NEW h, NEW b, Tiled(h, b), NEW block \in DOMAIN h, ~h[block].EOM,
         ~h[h[block].next].EOM
  PROVE  LET k == heap_block_merge_down(h, block)
             gone == h[block].next
         IN  /\ Tiled(k, b)
             /\ DOMAIN k = DOMAIN h \ {gone}
             /\ block # gone /\ gone \in DOMAIN h
             /\ k[block].next = h[gone].next /\ k[block].free = h[block].free
             /\ k[block].EOM = h[block].EOM
             /\ \A a \in DOMAIN k : a # block => k[a] = h[a] /\ (~k[a].EOM => k[a].next # gone)
<1> DEFINE k == heap_block_merge_down(h, block)
           gone == h[block].next
<1>1. HEADER \in Nat \ {0} /\ HeapStart \in Nat
  BY LayoutAssumption
<1>2. /\ b \in Int /\ block \in Int /\ gone \in Int /\ gone \in DOMAIN h
      /\ HeapStart <= block /\ block + HEADER <= gone
      /\ h[gone].next \in DOMAIN h /\ h[gone].next \in Int /\ gone + HEADER <= h[gone].next
  BY <1>1 DEF Tiled
<1>3. /\ DOMAIN k = DOMAIN h \ {gone}
      /\ k[block] = [h[block] EXCEPT !.next = h[gone].next]
      /\ \A a \in DOMAIN k : a # block => k[a] = h[a]
  BY <1>1, <1>2 DEF heap_block_merge_down
<1>4. /\ k[block].next = h[gone].next /\ k[block].EOM = h[block].EOM
      /\ k[block].free = h[block].free
      /\ k[block] \in [next : Int \cup {NULL}, EOM : BOOLEAN, free : BOOLEAN]
  BY <1>2, <1>3 DEF Tiled
<1> HIDE DEF k, gone
\* No other block has the merged one for its successor.
<1>5. ASSUME NEW a \in DOMAIN k, a # block, ~k[a].EOM
      PROVE  k[a].next # gone
  <2>1. a \in DOMAIN h /\ k[a] = h[a] /\ a \in Int /\ h[a].next \in Int
    BY <1>1, <1>3, <1>5 DEF Tiled
  <2>2. block <= a \/ h[a].next <= block
    BY <2>1, <1>5 DEF Tiled
  <2>3. a <= block \/ gone <= a
    BY <2>1 DEF Tiled, gone
  <2>4. a + HEADER <= h[a].next
    BY <2>1, <1>5 DEF Tiled
  <2> QED
    BY <2>1, <2>2, <2>3, <2>4, <1>1, <1>2, <1>5
<1>6. Tiled(k, b)
  <2>1. /\ b \in Int /\ DOMAIN k \subseteq HeapStart .. b - HEADER
        /\ HeapStart \in DOMAIN k /\ b - HEADER \in DOMAIN k
    BY <1>1, <1>2, <1>3 DEF Tiled, gone
  <2>2. ASSUME NEW a \in DOMAIN k
        PROVE  /\ k[a] \in [next : Int \cup {NULL}, EOM : BOOLEAN, free : BOOLEAN]
               /\ k[a].EOM <=> a = b - HEADER
               /\ k[a].EOM => ~k[a].free
               /\ ~k[a].EOM => k[a].next \in DOMAIN k /\ a + HEADER <= k[a].next
    <3>1. CASE a = block
      BY <3>1, <1>1, <1>2, <1>3, <1>4 DEF Tiled
    <3>2. CASE a # block
      BY <3>2, <1>3, <1>5 DEF Tiled
    <3> QED
      BY <3>1, <3>2
  <2>3. ASSUME NEW a \in DOMAIN k, ~k[a].EOM, NEW c \in DOMAIN k
        PROVE  c <= a \/ k[a].next <= c
    <3>1. CASE a = block
      <4>1. c \in DOMAIN h /\ c # gone /\ c \in Int
        BY <1>1, <1>3 DEF Tiled
      <4>2. c <= block \/ gone <= c
        BY <4>1 DEF Tiled, gone
      <4>3. c <= gone \/ h[gone].next <= c
        BY <4>1, <1>2 DEF Tiled, gone
      <4> QED
        BY <3>1, <4>1, <4>2, <4>3, <1>2, <1>4
    <3>2. CASE a # block
      BY <3>2, <2>3, <1>3 DEF Tiled
    <3> QED
      BY <3>1, <3>2
  <2> QED
    BY <2>1, <2>2, <2>3 DEF Tiled
<1> QED
  BY <1>1, <1>2, <1>3, <1>4, <1>5, <1>6 DEF k, gone

\* The extension of kmalloc: the last block becomes a used one of size bytes, and
\* a new last block follows it.
LEMMA ExtendTiled ==
  ASSUME NEW h, NEW b, Tiled(h, b), NEW size \in Nat
  PROVE  LET last == b - HEADER
             end == b + size
             old == internal_heap_block_set_metadata(h, last, FALSE, FALSE, end)
             new == internal_heap_block_set_metadata(old, end, TRUE, FALSE, NULL)
             k == [new EXCEPT ![last].next = end]
         IN  /\ Tiled(k, b + size + HEADER)
             /\ DOMAIN k = DOMAIN h \cup {end}
             /\ end \notin DOMAIN h
             /\ k[last] = [next |-> end, EOM |-> FALSE, free |-> FALSE]
             /\ k[end] = [next |-> NULL, EOM |-> TRUE, free |-> FALSE]
             /\ \A a \in DOMAIN h : a # last => k[a] = h[a]
<1> DEFINE last == b - HEADER
           end == b + size
           old == internal_heap_block_set_metadata(h, last, FALSE, FALSE, end)
           new == internal_heap_block_set_metadata(old, end, TRUE, FALSE, NULL)
           k == [new EXCEPT ![last].next = end]
<1>1. /\ HEADER \in Nat \ {0} /\ HeapStart \in Nat /\ b \in Int
      /\ last \in DOMAIN h /\ last \in Int /\ end \in Int /\ HeapStart <= last
      /\ last + HEADER <= end
  BY LayoutAssumption DEF Tiled
<1>2. end \notin DOMAIN h
  BY <1>1 DEF Tiled
<1>3. /\ DOMAIN old = DOMAIN h
      /\ old[last] = [next |-> end, EOM |-> FALSE, free |-> FALSE]
      /\ \A a \in DOMAIN h : a # last => old[a] = h[a]
  BY <1>1 DEF internal_heap_block_set_metadata
<1> HIDE DEF old
<1>4. /\ DOMAIN new = DOMAIN h \cup {end}
      /\ new[end] = [next |-> NULL, EOM |-> TRUE, free |-> FALSE]
      /\ \A a \in DOMAIN h : new[a] = old[a]
  BY <1>2, <1>3 DEF internal_heap_block_set_metadata
<1> HIDE DEF new
<1>5. /\ DOMAIN k = DOMAIN h \cup {end}
      /\ k[last] = [next |-> end, EOM |-> FALSE, free |-> FALSE]
      /\ k[end] = [next |-> NULL, EOM |-> TRUE, free |-> FALSE]
      /\ \A a \in DOMAIN h : a # last => k[a] = h[a]
  BY <1>1, <1>2, <1>3, <1>4
<1> HIDE DEF k, end, last
<1>6. Tiled(k, b + size + HEADER)
  <2>1. /\ b + size + HEADER \in Int
        /\ DOMAIN k \subseteq HeapStart .. (b + size + HEADER) - HEADER
        /\ HeapStart \in DOMAIN k /\ (b + size + HEADER) - HEADER \in DOMAIN k
    BY <1>1, <1>5 DEF Tiled, end, last
  <2>2. ASSUME NEW a \in DOMAIN k
        PROVE  /\ k[a] \in [next : Int \cup {NULL}, EOM : BOOLEAN, free : BOOLEAN]
               /\ k[a].EOM <=> a = (b + size + HEADER) - HEADER
               /\ k[a].EOM => ~k[a].free
               /\ ~k[a].EOM => k[a].next \in DOMAIN k /\ a + HEADER <= k[a].next
    <3>1. CASE a = end
      BY <3>1, <1>1, <1>5 DEF end
    <3>2. CASE a = last
      BY <3>2, <1>1, <1>5 DEF end, last
    <3>3. CASE a # end /\ a # last
      BY <3>3, <1>1, <1>2, <1>5 DEF Tiled, end, last
    <3> QED
      BY <3>1, <3>2, <3>3
  <2>3. ASSUME NEW a \in DOMAIN k, ~k[a].EOM, NEW c \in DOMAIN k
        PROVE  c <= a \/ k[a].next <= c
    <3>1. a # end
      BY <2>3, <1>5
    <3>2. CASE a = last
      BY <3>2, <1>1, <1>5 DEF Tiled, last
    <3>3. CASE a # last
      <4>1. a \in DOMAIN h /\ k[a] = h[a] /\ a \in Int /\ h[a].next \in Int /\ h[a].next <= last
        BY <3>1, <3>3, <2>3, <1>1, <1>5 DEF Tiled, last
      <4>2. CASE c = end
        BY <4>1, <4>2, <1>1
      <4>3. CASE c # end
        BY <4>1, <4>3, <2>3, <1>5 DEF Tiled
      <4> QED
        BY <4>2, <4>3
    <3> QED
      BY <3>2, <3>3
  <2> QED
    BY <2>1, <2>2, <2>3 DEF Tiled
<1> QED
  BY <1>1, <1>2, <1>5, <1>6 DEF k, new, old, end, last

(***************************************************************************)
(* Entering and leaving calls.                                             *)
(***************************************************************************)
LEMMA Layout ==
  /\ HEADER \in Nat \ {0} /\ ALIGNMENT \in Nat \ {0} /\ Width \in Nat \ {0}
  /\ HeapStart \in Nat /\ HardLimit \in Nat /\ MaxBreak \in Nat
  /\ MINIMUM_ALLOCATION_BYTES \in Nat
  /\ NULL \notin Int
BY LayoutAssumption

\* Facts about the list that the proofs below use without the rest of Tiled.
LEMMA TiledFacts ==
  ASSUME NEW h, NEW b, Tiled(h, b)
  PROVE  /\ b \in Int /\ HeapStart \in DOMAIN h
         /\ \A a \in DOMAIN h : /\ a \in Int /\ h[a].free \in BOOLEAN /\ h[a].EOM \in BOOLEAN
                                /\ HeapStart <= a /\ a + HEADER <= b
                                /\ h[a].EOM => ~h[a].free
                                /\ h[a].EOM => a = b - HEADER
                                /\ ~h[a].EOM => /\ h[a].next \in DOMAIN h /\ h[a].next \in Int
                                                /\ a + HEADER <= h[a].next
         /\ \A a, c \in DOMAIN h : ~h[a].EOM => c <= a \/ h[a].next <= c
BY Layout DEF Tiled

\* kmalloc, kcalloc and krealloc start the walk of kmalloc.
LEMMA EnterKmalloc ==
  ASSUME IInv, pc = "idle", NEW size, Fitting(size),
         NEW r \in {"idle", "kcalloc", "krealloc"}, NEW nesting,
         nesting = (IF r = "idle" THEN 1 ELSE 2),
         CallKmalloc(size, nesting, r), want' = size,
         r = "krealloc" => \E s \in live : s.ptr = ptr',
         UNCHANGED <<heap, break, live>>
  PROVE  IInv'
<1>1. /\ pc' = "kmalloc" /\ then' = r /\ node' = HeapStart /\ locks' = nesting
      /\ aligned_size' = ALIGN(size)
      /\ heap' = heap /\ live' = live /\ resized' = resized /\ grown' = grown
      /\ program_break_point' = program_break_point
  BY DEF CallKmalloc, break
<1>2. Used' = Used
  BY <1>1 DEF Used
<1>3. Ownership'
  BY <1>1, <1>2 DEF IInv, Ownership
<1>4. Progress'
  <2>1. HeapStart \in DOMAIN heap
    BY DEF IInv, Tiled
  <2>2. size \in Nat
    BY DEF Fitting
  <2> QED
    BY <1>1, <2>1, <2>2, FittingAligned DEF Progress, Location
<1>5. LockBalanced'
  BY <1>1 DEF LockBalanced
<1>6. Merged' /\ BlocksAligned'
  BY <1>1 DEF IInv, Merged, BlocksAligned
<1> QED
  BY <1>1, <1>3, <1>4, <1>5, <1>6 DEF IInv, Tiled

\* kfree and krealloc start kfree for a region that a caller holds.
LEMMA EnterKfree ==
  ASSUME IInv, pc \in {"idle", "krealloc"}, NEW s \in live,
         NEW r \in {"idle", "krealloc_unlock"}, NEW nesting,
         nesting = (IF r = "idle" THEN 1 ELSE 2),
         CallKfree(s.ptr, nesting, r), UNCHANGED <<heap, break>>
  PROVE  IInv'
<1>1. /\ pc' = "kfree" /\ then' = r /\ ptr' = s.ptr /\ locks' = nesting
      /\ live' = {t \in live : t.ptr # s.ptr}
      /\ heap' = heap /\ resized' = resized /\ grown' = grown
      /\ program_break_point' = program_break_point
  BY DEF CallKfree, break
<1>2. Used' = Used
  BY <1>1 DEF Used
<1>3. /\ s.ptr - HEADER \in Used /\ s.ptr \in Int
  BY DEF IInv, Ownership
<1>4. Ownership'
  <2>1. ASSUME NEW a \in Used
        PROVE  (\E t \in live' : t.ptr = a + HEADER) \/ (pc' = "kfree" /\ ptr' = a + HEADER)
    <3>1. PICK t \in live : t.ptr = a + HEADER
      BY DEF IInv, Ownership
    <3> QED
      BY <3>1, <1>1
  <2> QED
    BY <2>1, <1>1, <1>2 DEF IInv, Ownership
<1>5. Progress'
  BY <1>1, <1>2, <1>3 DEF Progress, Location
<1>6. LockBalanced'
  BY <1>1 DEF LockBalanced
<1>7. Merged' /\ BlocksAligned'
  BY <1>1 DEF IInv, Merged, BlocksAligned
<1> QED
  BY <1>1, <1>4, <1>5, <1>6, <1>7 DEF IInv, Tiled

\* A call that held the lock once ends, and the heap stays as it is.
LEMMA EndCall ==
  ASSUME IInv, pc \in {"kcalloc", "krealloc", "krealloc_unlock"},
         locks' = locks - 1, Idle, UNCHANGED <<heap, break, live>>
  PROVE  IInv'
<1>1. /\ pc' = "idle" /\ then' = "idle" /\ locks' = 0
      /\ heap' = heap /\ live' = live /\ resized' = resized /\ grown' = grown
      /\ program_break_point' = program_break_point
  BY DEF Idle, break, IInv, LockBalanced
<1>2. Used' = Used
  BY <1>1 DEF Used
<1>3. Ownership'
  BY <1>1, <1>2 DEF IInv, Ownership
<1>4. Progress' /\ LockBalanced'
  BY <1>1 DEF Progress, Location, LockBalanced
<1>5. Merged' /\ BlocksAligned'
  BY <1>1 DEF IInv, Merged, BlocksAligned
<1> QED
  BY <1>1, <1>3, <1>4, <1>5 DEF IInv, Tiled

\* kmalloc returns the payload of a block it has just marked used.
LEMMA ReturnRegion ==
  ASSUME IInv, pc = "kmalloc", NEW block \in Int, KmallocReturns(block + HEADER),
         block \notin Used, Used' = Used \cup {block},
         want <= heap'[block].next - (block + HEADER),
         \A a \in Used : heap'[a].next = heap[a].next
  PROVE  /\ Ownership' /\ Progress' /\ LockBalanced'
         /\ pc' \in {"idle", "kcalloc", "krealloc"}
<1> DEFINE new == [ptr |-> block + HEADER, size |-> want]
<1>1. /\ block + HEADER \in Int /\ block + HEADER # NULL /\ (block + HEADER) - HEADER = block
  BY Layout
<1>2. /\ live' = live \cup {new} /\ locks' = locks - 1
      /\ pc' = then /\ (then = "idle" => then' = "idle")
      /\ then # "idle" => then' = then /\ ptr' = ptr
  BY <1>1 DEF KmallocReturns, Idle
<1>3. /\ want \in Nat /\ then \in {"idle", "kcalloc", "krealloc"}
      /\ then = "krealloc" => \E r \in live : r.ptr = ptr
  BY DEF IInv, Progress
<1>4. locks = IF then = "idle" THEN 1 ELSE 2
  BY DEF IInv, LockBalanced
<1>5. new \in [ptr : Int, size : Nat] /\ new.ptr = block + HEADER /\ new.size = want
  BY <1>1, <1>3
<1>6. /\ live \subseteq [ptr : Int, size : Nat]
      /\ \A r, s \in live : r.ptr = s.ptr => r = s
      /\ \A r \in live : /\ r.ptr - HEADER \in Used
                         /\ r.size <= heap[r.ptr - HEADER].next - r.ptr
      /\ \A a \in Used : \E r \in live : r.ptr = a + HEADER
  BY DEF IInv, Ownership
<1>7. \A r \in live : r.ptr # new.ptr
  BY <1>1, <1>5, <1>6
<1> HIDE DEF new
<1>8. Ownership'
  <2>1. live' \subseteq [ptr : Int, size : Nat]
    BY <1>2, <1>5, <1>6
  <2>2. \A r, s \in live' : r.ptr = s.ptr => r = s
    BY <1>2, <1>6, <1>7
  <2>3. ASSUME NEW r \in live'
        PROVE  r.ptr - HEADER \in Used' /\ r.size <= heap'[r.ptr - HEADER].next - r.ptr
    <3>1. CASE r = new
      BY <3>1, <1>1, <1>5
    <3>2. CASE r \in live
      BY <3>2, <1>6
    <3> QED
      BY <3>1, <3>2, <1>2
  <2>4. \A a \in Used' : \E r \in live' : r.ptr = a + HEADER
    BY <1>2, <1>5, <1>6
  <2> QED
    BY <2>1, <2>2, <2>3, <2>4 DEF Ownership
<1>9. Progress' /\ LockBalanced'
  BY <1>2, <1>3, <1>4 DEF Progress, LockBalanced, Location
<1> QED
  BY <1>2, <1>3, <1>8, <1>9

\* kfree returns.
LEMMA ReturnFree ==
  ASSUME IInv, pc \in {"kfree", "kfree_walk"}, KfreeReturns
  PROVE  /\ Progress' /\ LockBalanced'
         /\ pc' \in {"idle", "krealloc_unlock"}
<1>1. /\ locks' = locks - 1 /\ pc' = then /\ (then = "idle" => then' = "idle")
  BY DEF KfreeReturns, Idle
<1>2. then \in {"idle", "krealloc_unlock"} /\ locks = IF then = "idle" THEN 1 ELSE 2
  BY DEF IInv, Progress, LockBalanced
<1> QED
  BY <1>1, <1>2 DEF Progress, LockBalanced, Location

(***************************************************************************)
(* Every action keeps the invariant.                                       *)
(***************************************************************************)
LEMMA InitIInv == Init => IInv
<1> SUFFICES ASSUME Init PROVE IInv
  OBVIOUS
<1> DEFINE last == HardLimit - HEADER
           end == internal_heap_block_set_metadata(<< >>, last, TRUE, FALSE, NULL)
<1>0. /\ HEADER \in Int /\ HEADER > 0 /\ ALIGNMENT \in Nat \ {0}
      /\ HeapStart \in Int /\ HardLimit \in Int
  BY LayoutAssumption
<1>1. /\ program_break_point = HardLimit
      /\ heap = internal_heap_block_set_metadata(end, HeapStart, FALSE, TRUE, last)
      /\ locks = 0 /\ pc = "idle" /\ live = {} /\ grown = {} /\ resized = FALSE
      /\ then = "idle"
  BY DEF Init, heap_init
<1>2. /\ HeapStart + HEADER <= last /\ HeapStart # last /\ last \in Int
      /\ HardLimit \in Int /\ HardLimit <= MaxBreak /\ last = HardLimit - HEADER
  BY LayoutAssumption
<1>3. /\ DOMAIN end = {last}
      /\ end[last] = [next |-> NULL, EOM |-> TRUE, free |-> FALSE]
  BY DEF internal_heap_block_set_metadata
<1> HIDE DEF end
<1>4. /\ DOMAIN heap = {last, HeapStart}
      /\ heap[last] = [next |-> NULL, EOM |-> TRUE, free |-> FALSE]
      /\ heap[HeapStart] = [next |-> last, EOM |-> FALSE, free |-> TRUE]
  BY <1>1, <1>2, <1>3 DEF internal_heap_block_set_metadata
<1> HIDE DEF last
<1>5. Tiled(heap, program_break_point)
  <2>1. program_break_point = last + HEADER /\ program_break_point - HEADER = last
    BY <1>0, <1>1, <1>2
  <2>2. /\ program_break_point \in Int
        /\ DOMAIN heap \subseteq HeapStart .. last
        /\ HeapStart \in DOMAIN heap /\ last \in DOMAIN heap
    BY <2>1, <1>0, <1>2, <1>4
  <2>3. \A a \in DOMAIN heap :
            /\ heap[a] \in [next : Int \cup {NULL}, EOM : BOOLEAN, free : BOOLEAN]
            /\ heap[a].EOM <=> a = last
            /\ heap[a].EOM => ~heap[a].free
            /\ ~heap[a].EOM => a = HeapStart /\ heap[a].next = last
    <3>1. heap[last] \in [next : Int \cup {NULL}, EOM : BOOLEAN, free : BOOLEAN]
      BY <1>4
    <3>2. heap[HeapStart] \in [next : Int \cup {NULL}, EOM : BOOLEAN, free : BOOLEAN]
      BY <1>2, <1>4
    <3>3. /\ heap[last].EOM = TRUE /\ heap[last].free = FALSE
          /\ heap[HeapStart].EOM = FALSE /\ heap[HeapStart].next = last
      BY <1>4
    <3> QED
      BY <3>1, <3>2, <3>3, <1>2, <1>4, Zenon
  <2> QED
    BY <2>1, <2>2, <2>3, <1>0, <1>2, <1>4 DEF Tiled
<1>6. Used = {}
  BY <1>4 DEF Used
<1>7. Ownership /\ Progress /\ LockBalanced
  BY <1>1, <1>6 DEF Ownership, Progress, LockBalanced, Location
<1>8. Merged
  BY <1>2, <1>4 DEF Merged
<1>9. BlocksAligned
  <2>1. HeapStart % ALIGNMENT = 0 /\ HardLimit % ALIGNMENT = 0 /\ HEADER % ALIGNMENT = 0
    BY LayoutAssumption
  <2>2. (HardLimit - HEADER) % ALIGNMENT = 0
    BY <2>1, <1>0, ModSub
  <2> QED
    BY <2>1, <2>2, <1>2, <1>4 DEF BlocksAligned
<1> QED
  BY <1>1, <1>2, <1>5, <1>7, <1>8, <1>9 DEF IInv

\* The invariant looks at nothing but the variables.
LEMMA StutterIInv ==
  ASSUME IInv, UNCHANGED vars
  PROVE  IInv'
BY DEF vars, break, locals, IInv, Tiled, Used, Ownership, Progress, LockBalanced, Merged,
       BlocksAligned

\* The tail that krealloc splits off was payload of the block that stays used.
LEMMA ReallocInPlaceIInv ==
  ASSUME Modest, IInv, NEW r \in live, NEW size \in ReallocSizes, krealloc_in_place(r, size)
  PROVE  IInv'
<1> DEFINE block == r.ptr - HEADER
           new == [r EXCEPT !.size = size]
<1>1. /\ pc = "idle" /\ size # 0 /\ pc' = "idle" /\ locks' = locks /\ then' = then
      /\ internal_heap_block_get_available_space(heap, block) >= size
      /\ heap' = heap_block_split(heap, block, size)
      /\ live' = (live \ {r}) \cup {new}
      /\ resized' = TRUE /\ grown' = grown /\ program_break_point' = program_break_point
  BY DEF krealloc_in_place, locals
<1>2. /\ live \subseteq [ptr : Int, size : Nat]
      /\ \A q, s \in live : q.ptr = s.ptr => q = s
      /\ \A s \in live : /\ s.ptr - HEADER \in Used
                         /\ s.size <= heap[s.ptr - HEADER].next - s.ptr
      /\ \A a \in Used : \E s \in live : s.ptr = a + HEADER
  BY <1>1 DEF IInv, Ownership
<1>3. /\ block \in DOMAIN heap /\ ~heap[block].EOM /\ ~heap[block].free /\ block \in Int
      /\ r.ptr \in Int /\ r.ptr = block + HEADER
  BY <1>2, Layout DEF Used
<1>4. /\ size \in Nat /\ size + ALIGNMENT <= Width
  BY Layout DEF Modest, Fitting
<1>5. /\ size <= heap[block].next - block - HEADER /\ heap[block].next \in Int
  BY <1>1, <1>3, TiledFacts DEF internal_heap_block_get_available_space, IInv
<1>6. new \in [ptr : Int, size : Nat] /\ new.ptr = r.ptr /\ new.size = size
  BY <1>2, <1>4
<1> DEFINE piece == block + HEADER + size
<1>7. /\ Tiled(heap', program_break_point)
      /\ block \in DOMAIN heap'
      /\ heap'[block].free = heap[block].free /\ ~heap'[block].EOM
      /\ piece <= heap'[block].next
      /\ \A a \in DOMAIN heap : a \in DOMAIN heap' /\ (a # block => heap'[a] = heap[a])
      /\ \/ DOMAIN heap' = DOMAIN heap
         \/ DOMAIN heap' = DOMAIN heap \cup {piece} /\ piece \notin DOMAIN heap /\ heap'[piece].free
  <2>1. Halved(heap', heap, program_break_point, block, piece)
    BY <1>1, <1>3, <1>4, <1>5, SplitTiled DEF IInv
  <2> HIDE DEF block, piece
  <2> QED
    BY <2>1 DEF Halved
<1> HIDE DEF block, new, piece
<1>8. Used' = Used
  BY <1>3, <1>7 DEF Used
<1>9. Ownership'
  <2>1. live' \subseteq [ptr : Int, size : Nat]
    BY <1>1, <1>2, <1>6
  <2>2. \A q, s \in live' : q.ptr = s.ptr => q = s
    BY <1>1, <1>2, <1>6
  <2>3. ASSUME NEW s \in live'
        PROVE  s.ptr - HEADER \in Used' /\ s.size <= heap'[s.ptr - HEADER].next - s.ptr
    <3>1. CASE s = new
      <4>1. s.ptr - HEADER = block /\ s.ptr = block + HEADER /\ s.size = size
        BY <3>1, <1>3, <1>6, Layout
      <4>2. block + HEADER + size <= heap'[block].next /\ heap'[block].next \in Int
        BY <1>7, TiledFacts DEF piece
      <4>3. block \in Used
        BY <1>3 DEF Used
      <4> QED
        BY <4>1, <4>2, <4>3, <1>3, <1>4, <1>8, Layout
    <3>2. CASE s \in live /\ s # r
      <4>1. s.ptr - HEADER # block
        BY <3>2, <1>2, <1>3, Layout
      <4>2. heap'[s.ptr - HEADER] = heap[s.ptr - HEADER]
        BY <4>1, <3>2, <1>2, <1>7 DEF Used
      <4> QED
        BY <4>2, <3>2, <1>2, <1>8
    <3> QED
      BY <3>1, <3>2, <1>1
  <2>4. ASSUME NEW a \in Used' PROVE \E s \in live' : s.ptr = a + HEADER
    <3>1. PICK s \in live : s.ptr = a + HEADER
      BY <1>2, <1>8
    <3> QED
      BY <3>1, <1>1, <1>6
  <2> QED
    BY <2>1, <2>2, <2>3, <2>4 DEF Ownership
<1>10. Progress' /\ LockBalanced' /\ Merged' /\ BlocksAligned'
  BY <1>1 DEF IInv, Progress, LockBalanced, Merged, BlocksAligned, Location
<1> QED
  BY <1>1, <1>7, <1>9, <1>10 DEF IInv

\* A caller enters kmalloc, kcalloc, krealloc or kfree.
LEMMA CallIInv ==
  ASSUME Modest, IInv, Call
  PROVE  IInv'
<1>1. ASSUME NEW size \in Sizes, kmalloc(size)
      PROVE  IInv'
  <2>1. Fitting(size)
    BY DEF Modest
  <2>2. pc = "idle" /\ locks + 1 = 1
    BY <1>1 DEF kmalloc, IInv, LockBalanced
  <2> QED
    BY <1>1, <2>1, <2>2, EnterKmalloc DEF kmalloc
<1>2. ASSUME NEW size \in Sizes, NEW nmemb \in Counts, kcalloc(nmemb, size)
      PROVE  IInv'
  <2>1. Fitting(nmemb * size)
    BY DEF Modest
  <2>2. (nmemb * size) % Width = nmemb * size
    <3>1. nmemb * size \in 0 .. Width - 1
      BY <2>1, Layout DEF Fitting
    <3> HIDE DEF Modest
    <3> QED
      BY <3>1, Layout
  <2>3. pc = "idle" /\ locks + 2 = 2
    BY <1>2 DEF kcalloc, IInv, LockBalanced
  <2> QED
    BY <1>2, <2>1, <2>2, <2>3, EnterKmalloc DEF kcalloc
<1>3. ASSUME NEW r \in live, kfree(r.ptr)
      PROVE  IInv'
  <2>1. pc = "idle" /\ locks + 1 = 1
    BY <1>3 DEF kfree, IInv, LockBalanced
  <2> QED
    BY <1>3, <2>1, EnterKfree DEF kfree
<1>4. ASSUME NEW size \in ReallocSizes, krealloc_null(size)
      PROVE  IInv'
  <2>1. Fitting(size)
    BY DEF Modest
  <2>2. pc = "idle" /\ locks + 1 = 1
    BY <1>4 DEF krealloc_null, IInv, LockBalanced
  <2> QED
    BY <1>4, <2>1, <2>2, EnterKmalloc DEF krealloc_null
<1>5. ASSUME NEW size \in ReallocSizes, NEW r \in live, krealloc_in_place(r, size)
      PROVE  IInv'
  BY <1>5, ReallocInPlaceIInv
<1>6. ASSUME NEW size \in ReallocSizes, NEW r \in live, krealloc_move(r.ptr, size)
      PROVE  IInv'
  <2>1. Fitting(size)
    BY DEF Modest
  <2>2. /\ pc = "idle" /\ locks + 2 = 2 /\ ptr' = r.ptr
        /\ CallKmalloc(size, locks + 2, "krealloc") /\ want' = size
        /\ UNCHANGED <<heap, break, live>>
    BY <1>6 DEF krealloc_move, IInv, LockBalanced
  <2> QED
    BY <2>1, <2>2, EnterKmalloc
<1>7. ASSUME NEW r \in live, krealloc_zero(r.ptr)
      PROVE  IInv'
  <2>1. pc = "idle" /\ locks + 2 = 2
    BY <1>7 DEF krealloc_zero, IInv, LockBalanced
  <2> QED
    BY <1>7, <2>1, EnterKfree DEF krealloc_zero
<1>8. ASSUME NEW increment \in Increments, sbrk_call(increment)
      PROVE  IInv'
  <2>1. increment = 0
    BY DEF Modest
  <2>2. UNCHANGED vars
    BY <1>8, <2>1 DEF sbrk_call, sbrk, Moved, vars, break
  <2> QED
    BY <2>2, StutterIInv
<1> QED
  BY <1>1, <1>2, <1>3, <1>4, <1>5, <1>6, <1>7, <1>8 DEF Call

\* kmalloc's walk stays on linked headers.
LEMMA WalkIInv ==
  ASSUME IInv, kmalloc_walk
  PROVE  IInv'
<1>1. /\ pc = "kmalloc" /\ ~heap[node].EOM /\ node' = heap[node].next
      /\ UNCHANGED <<heap, program_break_point, grown, resized, locks, pc, then, aligned_size,
                     want, ptr, ret, live>>
  BY DEF kmalloc_walk, break
<1>2. Used' = Used
  BY <1>1 DEF Used
<1>3. node' \in DOMAIN heap
  BY <1>1 DEF IInv, Progress, Tiled
<1> QED
  BY <1>1, <1>2, <1>3 DEF IInv, Ownership, Progress, LockBalanced, Merged, BlocksAligned, Tiled

\* The block found becomes a region; what is left of it is a new free block, whose
\* neighbours are not free.
LEMMA FitIInv ==
  ASSUME IInv, kmalloc_fit
  PROVE  IInv'
<1> DEFINE split == heap_block_split(heap, node, aligned_size)
           piece == node + HEADER + aligned_size
<1>1. /\ pc = "kmalloc" /\ ~heap[node].EOM /\ heap[node].free
      /\ internal_heap_block_get_available_space(heap, node) >= aligned_size
      /\ heap' = [split EXCEPT ![node].free = FALSE]
      /\ KmallocReturns(node + HEADER)
      /\ program_break_point' = program_break_point /\ grown' = grown /\ resized' = resized
  BY DEF kmalloc_fit, Fits, break
<1>2. /\ node \in DOMAIN heap /\ want \in Nat /\ aligned_size \in Nat /\ want <= aligned_size
      /\ aligned_size + ALIGNMENT <= Width /\ aligned_size % ALIGNMENT = 0
  BY <1>1, Layout DEF IInv, Progress
<1>3. /\ node \in Int /\ heap[node].next \in Int /\ heap[node].next \in DOMAIN heap
      /\ node # heap[node].next
      /\ aligned_size <= heap[node].next - node - HEADER
  BY <1>1, <1>2, TiledFacts, Layout DEF IInv, internal_heap_block_get_available_space
<1>4. /\ Tiled(split, program_break_point)
      /\ node \in DOMAIN split /\ ~split[node].EOM
      /\ piece <= split[node].next
      /\ \A a \in DOMAIN heap : a \in DOMAIN split /\ (a # node => split[a] = heap[a])
      /\ \/ DOMAIN split = DOMAIN heap
         \/ /\ DOMAIN split = DOMAIN heap \cup {piece} /\ piece \notin DOMAIN heap
            /\ split[piece].free /\ split[piece].next = heap[node].next
  <2>1. Tiled(heap, program_break_point)
    BY DEF IInv
  <2>2. /\ node \in DOMAIN heap /\ ~heap[node].EOM
        /\ aligned_size \in Nat /\ aligned_size + ALIGNMENT <= Width
        /\ aligned_size <= heap[node].next - node - HEADER
    BY <1>1, <1>2, <1>3
  <2>3. Halved(split, heap, program_break_point, node, piece)
    BY <2>1, <2>2, SplitTiled
  <2> HIDE DEF split, piece
  <2> QED
    BY <2>3 DEF Halved
<1> HIDE DEF split, piece
<1>5. /\ Tiled(heap', program_break_point) /\ DOMAIN heap' = DOMAIN split
      /\ heap'[node].next = split[node].next /\ heap'[node].EOM = split[node].EOM
      /\ \A a \in DOMAIN split : a # node => heap'[a] = split[a]
      /\ heap'[node].free = FALSE
  <2>1. heap' = [split EXCEPT ![node].free = FALSE]
    BY <1>1
  <2>2. Tiled(split, program_break_point) /\ node \in DOMAIN split /\ ~split[node].EOM
    BY <1>4
  <2> QED
    BY <2>1, <2>2, MarkTiled
<1>6. /\ \A a \in DOMAIN heap : a \in DOMAIN heap' /\ (a # node => heap'[a] = heap[a])
      /\ \A a \in DOMAIN heap' \ DOMAIN heap :
            a = piece /\ heap'[a].free /\ heap'[a].next = heap[node].next
  BY <1>2, <1>4, <1>5
<1>7. node \notin Used /\ Used' = Used \cup {node}
  BY <1>1, <1>2, <1>4, <1>5, <1>6 DEF Used
<1>8. want <= heap'[node].next - (node + HEADER)
  <2>1. heap'[node].next \in Int
    BY <1>2, <1>4, <1>5, TiledFacts
  <2>2. node + HEADER + aligned_size <= heap'[node].next
    BY <1>4, <1>5 DEF piece
  <2> QED
    BY <2>1, <2>2, <1>2, <1>3, Layout
<1>9. \A a \in Used : heap'[a].next = heap[a].next
  BY <1>6, <1>7 DEF Used
<1>10. /\ Ownership' /\ Progress' /\ LockBalanced' /\ pc' # "kfree_walk"
  BY <1>1, <1>3, <1>7, <1>8, <1>9, ReturnRegion
<1>11. Merged'
  <2> SUFFICES ASSUME ~resized, NEW a \in DOMAIN heap', heap'[a].free, heap'[heap'[a].next].free
               PROVE  FALSE
    BY <1>1, <1>10 DEF Merged
  <2>1. \A c \in DOMAIN heap : heap[c].free => ~heap[heap[c].next].free
    BY <1>1 DEF IInv, Merged
  <2>2. a # node
    BY <1>5
  <2>3. CASE a \in DOMAIN heap
    <3>1. heap'[a] = heap[a] /\ heap[a].free /\ heap[a].next \in DOMAIN heap
      BY <2>2, <2>3, <1>6, TiledFacts DEF IInv
    <3> QED
      BY <3>1, <2>1, <2>3, <1>5, <1>6
  <2>4. CASE a \notin DOMAIN heap
    BY <2>1, <2>4, <1>1, <1>2, <1>3, <1>5, <1>6
  <2> QED
    BY <2>3, <2>4
<1>12. BlocksAligned'
  <2> SUFFICES ASSUME ~resized, NEW a \in DOMAIN heap'
               PROVE  a % ALIGNMENT = 0
    BY <1>1 DEF BlocksAligned
  <2>1. \A c \in DOMAIN heap : c % ALIGNMENT = 0
    BY DEF IInv, BlocksAligned
  <2>2. piece % ALIGNMENT = 0
    BY <2>1, <1>2, <1>3, AfterAligned DEF piece
  <2> QED
    BY <2>1, <2>2, <1>6
<1> QED
  BY <1>1, <1>5, <1>10, <1>11, <1>12 DEF IInv

\* sbrk() failed, and kmalloc returns NULL.
LEMMA ReturnNull ==
  ASSUME IInv, pc = "kmalloc", KmallocReturns(NULL), UNCHANGED <<heap, break>>
  PROVE  IInv'
<1>1. /\ live' = live /\ locks' = locks - 1
      /\ pc' = then /\ (then = "idle" => then' = "idle")
      /\ then # "idle" => then' = then /\ ptr' = ptr
      /\ UNCHANGED <<heap, program_break_point, grown, resized>>
  BY DEF KmallocReturns, Idle, break
<1>2. /\ then \in {"idle", "kcalloc", "krealloc"}
      /\ then = "krealloc" => \E r \in live : r.ptr = ptr
      /\ locks = IF then = "idle" THEN 1 ELSE 2
  BY DEF IInv, Progress, LockBalanced
<1>3. Used' = Used
  BY <1>1 DEF Used
<1>4. Progress' /\ LockBalanced'
  BY <1>1, <1>2 DEF Progress, LockBalanced, Location
<1>5. Ownership'
  BY <1>1, <1>3 DEF IInv, Ownership
<1>6. Merged' /\ BlocksAligned'
  BY <1>1 DEF IInv, Merged, BlocksAligned
<1> QED
  BY <1>1, <1>4, <1>5, <1>6 DEF IInv, Tiled

\* The last block becomes the region, and a new last block follows it.
LEMMA ExtendIInv ==
  ASSUME IInv, kmalloc_extend
  PROVE  IInv'
<1> DEFINE size == aligned_size + HEADER
           brk == program_break_point
<1>1. /\ pc = "kmalloc" /\ heap[node].EOM /\ grown' = grown /\ resized' = resized
  BY DEF kmalloc_extend
<1>2. /\ node \in DOMAIN heap /\ want \in Nat /\ aligned_size \in Nat /\ want <= aligned_size
      /\ aligned_size + HEADER < Width \div 2 /\ aligned_size % ALIGNMENT = 0
      /\ KERNEL_VIRT_OFFSET + MaxBreak + aligned_size + HEADER + PAGE_SIZE <= Width
  BY <1>1 DEF IInv, Progress
<1>3. /\ brk \in Int /\ node = brk - HEADER /\ node \in Int /\ brk \in HeapStart .. MaxBreak
  BY <1>1, <1>2, TiledFacts, Layout DEF IInv
<1>4. size \in Nat /\ size > 0 /\ intptr_t(size) = size
  BY <1>2, IntptrFits, Layout
<1>5. sbrk(brk, intptr_t(size)) \subseteq
        {Failed(brk)} \cup {Moved(brk, b) : b \in {brk + size} \cap brk .. MaxBreak}
  <2>1. /\ brk \in Nat /\ brk + size \in Nat /\ brk <= brk + size /\ brk <= MaxBreak
        /\ KERNEL_VIRT_OFFSET + (brk + size) + PAGE_SIZE <= Width
        /\ KERNEL_VIRT_OFFSET + (brk + size) < Width
    BY <1>2, <1>3, <1>4, LayoutAssumption
  <2>2. vaddr_t(brk + size) = brk + size
    BY <2>1, NoWrap
  <2> HIDE DEF size, brk
  <2>3. sbrk(brk, intptr_t(size)) = increment_brk(brk, size)
    BY <1>4 DEF sbrk
  <2>4. CASE MappedTop(brk + size) > MappedTop(brk)
    <3>1. increment_brk(brk, size) =
            {Failed(brk)} \cup {Moved(brk, b) : b \in {c \in {brk + size} : c <= MaxBreak}}
      BY <2>2, <2>4 DEF increment_brk
    <3> QED
      BY <3>1, <2>1, <2>3, Layout
  <2>5. CASE ~(MappedTop(brk + size) > MappedTop(brk))
    <3>1. increment_brk(brk, size) = {Moved(brk, brk + size)}
      BY <2>2, <2>5 DEF increment_brk
    <3>2. brk + size <= MaxBreak
      BY <2>1, <2>5, SamePageBelow
    <3> QED
      BY <3>1, <3>2, <2>1, <2>3, Layout
  <2> QED
    BY <2>4, <2>5
<1>6. PICK r \in sbrk(brk, intptr_t(size)) :
        /\ program_break_point' = r.brk
        /\ IF r.ret = NULL
           THEN KmallocReturns(NULL) /\ UNCHANGED heap
           ELSE IF r.brk \notin program_break_point .. MaxBreak
           THEN WriteOutside
           ELSE LET end == r.brk - HEADER
                    old == internal_heap_block_set_metadata(heap, node, FALSE, FALSE, end)
                    new == internal_heap_block_set_metadata(old, end, TRUE, FALSE, NULL)
                IN  /\ heap' = [new EXCEPT ![node].next = end]
                    /\ KmallocReturns(node + HEADER)
  BY DEF kmalloc_extend
<1>7. CASE r = Failed(brk)
  <2>1. r.brk = brk /\ r.ret = NULL
    BY <1>7 DEF Failed
  <2> QED
    BY <2>1, <1>1, <1>6, ReturnNull DEF break
<1>8. CASE r \in {Moved(brk, b) : b \in {brk + size} \cap brk .. MaxBreak}
  <2> DEFINE end == brk + aligned_size
             old == internal_heap_block_set_metadata(heap, node, FALSE, FALSE, end)
             new == internal_heap_block_set_metadata(old, end, TRUE, FALSE, NULL)
  <2>1. /\ r.brk = brk + size /\ r.brk \in brk .. MaxBreak /\ r.ret = brk /\ r.ret # NULL
    BY <1>3, <1>8, Layout DEF Moved
  <2>2. r.brk - HEADER = end /\ r.brk = brk + aligned_size + HEADER /\ end \in Int
    BY <2>1, <1>2, <1>3, Layout
  <2>3. heap' = [new EXCEPT ![node].next = end] /\ KmallocReturns(node + HEADER)
        /\ program_break_point' = brk + aligned_size + HEADER
    BY <2>1, <2>2, <1>6
  <2>4. /\ Tiled(heap', program_break_point')
        /\ DOMAIN heap' = DOMAIN heap \cup {end} /\ end \notin DOMAIN heap
        /\ heap'[node] = [next |-> end, EOM |-> FALSE, free |-> FALSE]
        /\ heap'[end] = [next |-> NULL, EOM |-> TRUE, free |-> FALSE]
        /\ \A a \in DOMAIN heap : a # node => heap'[a] = heap[a]
    <3>1. Tiled(heap, brk)
      BY DEF IInv
    <3>2. node = brk - HEADER /\ aligned_size \in Nat
      BY <1>2, <1>3
    <3>3. LET last == brk - HEADER
              o == internal_heap_block_set_metadata(heap, last, FALSE, FALSE, brk + aligned_size)
              l == internal_heap_block_set_metadata(o, brk + aligned_size, TRUE, FALSE, NULL)
              k == [l EXCEPT ![last].next = brk + aligned_size]
          IN  /\ Tiled(k, brk + aligned_size + HEADER)
              /\ DOMAIN k = DOMAIN heap \cup {brk + aligned_size}
              /\ brk + aligned_size \notin DOMAIN heap
              /\ k[last] = [next |-> brk + aligned_size, EOM |-> FALSE, free |-> FALSE]
              /\ k[brk + aligned_size] = [next |-> NULL, EOM |-> TRUE, free |-> FALSE]
              /\ \A a \in DOMAIN heap : a # last => k[a] = heap[a]
      BY <3>1, <3>2, ExtendTiled, Zenon
    <3> QED
      BY <2>3, <3>2, <3>3, Zenon
  <2>5. program_break_point' <= MaxBreak
    BY <2>1, <2>2, <2>3, Layout DEF Address
  <2>6. /\ heap'[node].next = end /\ heap'[node].EOM = FALSE /\ heap'[node].free = FALSE
        /\ heap'[end].EOM = TRUE /\ heap'[end].free = FALSE
    BY <2>4
  <2>7. end = node + HEADER + aligned_size
    BY <1>2, <1>3, Layout
  <2> HIDE DEF new, old, end, size
  <2>8. node \notin Used /\ Used' = Used \cup {node}
    BY <2>4, <2>6, <1>1, <1>2 DEF Used
  <2>9. want <= heap'[node].next - (node + HEADER)
    BY <2>2, <2>6, <2>7, <1>2, <1>3, Layout
  <2>10. \A a \in Used : heap'[a].next = heap[a].next
    BY <2>4, <2>8 DEF Used
  <2>11. Ownership' /\ Progress' /\ LockBalanced'
    BY <2>3, <2>8, <2>9, <2>10, <1>1, <1>3, ReturnRegion
  <2>12. Merged'
    <3> SUFFICES ASSUME ~resized, NEW a \in DOMAIN heap', heap'[a].free, heap'[heap'[a].next].free
                 PROVE  FALSE
      BY <1>1 DEF Merged
    <3>1. a \in DOMAIN heap /\ a # node /\ heap'[a] = heap[a]
      BY <2>4, <2>6
    <3>2. heap[a].next \in DOMAIN heap
      BY <3>1, TiledFacts DEF IInv
    <3>3. ~heap[heap[a].next].free
      BY <3>1, <1>1 DEF IInv, Merged
    <3> QED
      BY <3>1, <3>2, <3>3, <2>4, <2>6
  <2>13. BlocksAligned'
    <3> SUFFICES ASSUME ~resized
                 PROVE  \A a \in DOMAIN heap' : a % ALIGNMENT = 0
      BY <1>1 DEF BlocksAligned
    <3>1. \A a \in DOMAIN heap : a % ALIGNMENT = 0
      BY DEF IInv, BlocksAligned
    <3>2. end % ALIGNMENT = 0
      BY <3>1, <2>7, <1>2, <1>3, AfterAligned
    <3> QED
      BY <3>1, <3>2, <2>4
  <2> QED
    BY <2>4, <2>5, <2>11, <2>12, <2>13, <1>1 DEF IInv
<1> QED
  BY <1>5, <1>6, <1>7, <1>8

\* kfree marks the block free and merges the next one into it.  Its parent may be
\* free too: the one pair that Merged leaves to kfree_walk.
LEMMA MarkIInv ==
  ASSUME IInv, kfree_mark
  PROVE  IInv'
<1> DEFINE block == ptr - HEADER
           freed == [heap EXCEPT ![block].free = TRUE]
<1>1. /\ pc = "kfree" /\ live' = live
      /\ heap' = IF freed[freed[block].next].free
                 THEN heap_block_merge_down(freed, block) ELSE freed
      /\ IF block = HeapStart
         THEN KfreeReturns
         ELSE pc' = "kfree_walk" /\ node' = HeapStart /\ UNCHANGED <<locks, then, ptr>>
      /\ program_break_point' = program_break_point /\ grown' = grown /\ resized' = resized
  BY DEF kfree_mark, break
<1>2. /\ ptr \in Int /\ block \in Used /\ ptr = block + HEADER /\ block \in Int
      /\ \A r \in live : r.ptr # ptr
      /\ then \in {"idle", "krealloc_unlock"}
      /\ locks = IF then = "idle" THEN 1 ELSE 2
  BY <1>1, Layout DEF IInv, Progress, LockBalanced
<1>3. block \in DOMAIN heap /\ ~heap[block].free /\ ~heap[block].EOM
  BY <1>2 DEF Used
<1>4. /\ heap[block].next \in DOMAIN heap /\ heap[block].next # block
      /\ HeapStart <= block /\ HeapStart \in DOMAIN heap
      /\ \A a \in DOMAIN heap : ~heap[a].EOM => heap[a].next # HeapStart
  BY <1>2, <1>3, TiledFacts, Layout DEF IInv
<1>5. /\ Tiled(freed, program_break_point) /\ DOMAIN freed = DOMAIN heap
      /\ \A a \in DOMAIN heap : freed[a].next = heap[a].next /\ freed[a].EOM = heap[a].EOM
      /\ \A a \in DOMAIN heap : a # block => freed[a] = heap[a]
      /\ freed[block].free = TRUE
  BY <1>3, MarkTiled DEF IInv
<1> HIDE DEF freed, block
<1> DEFINE next == heap[block].next
\* What the merge leaves, if there is one.
<1>6. /\ Tiled(heap', program_break_point) /\ HeapStart \in DOMAIN heap'
      /\ block \in DOMAIN heap' /\ heap'[block].free = TRUE /\ heap'[block].EOM = heap[block].EOM
      /\ DOMAIN heap' \subseteq DOMAIN heap
      /\ \A a \in DOMAIN heap' : a # block => heap'[a] = heap[a]
      /\ \A a \in DOMAIN heap \ DOMAIN heap' : heap[a].free
      /\ ~resized => ~heap'[heap'[block].next].free
  <2>1. CASE freed[next].free
    <3>1. /\ freed[block].next = next /\ heap[next].free /\ freed[next] = heap[next]
          /\ heap' = heap_block_merge_down(freed, block)
      BY <2>1, <1>1, <1>3, <1>4, <1>5
    <3>2. ~freed[block].EOM /\ ~freed[next].EOM
      BY <3>1, <1>3, <1>4, <1>5, TiledFacts
    <3>3. /\ Tiled(heap', program_break_point)
          /\ DOMAIN heap' = DOMAIN heap \ {next}
          /\ heap'[block].next = heap[next].next /\ heap'[block].free = TRUE
          /\ heap'[block].EOM = heap[block].EOM
          /\ \A a \in DOMAIN heap' : a # block => heap'[a] = freed[a]
      BY <3>1, <3>2, <1>3, <1>5, MergeTiled
    <3>6. ASSUME ~resized
          PROVE  ~heap'[heap'[block].next].free
      <4>1. ~heap[heap[next].next].free
        BY <3>1, <3>6, <1>1, <1>4 DEF IInv, Merged
      <4>2. /\ heap[next].next \in DOMAIN heap /\ heap[next].next # next
            /\ heap[next].next # block
        BY <3>1, <1>2, <1>3, <1>4, TiledFacts, Layout DEF IInv
      <4> QED
        BY <4>1, <4>2, <3>3, <1>5
    <3> QED
      BY <3>1, <3>3, <3>6, <1>3, <1>4, <1>5, TiledFacts
  <2>2. CASE ~freed[next].free
    <3>1. heap' = freed
      BY <2>2, <1>1, <1>3, <1>5
    <3> QED
      BY <3>1, <2>2, <1>3, <1>4, <1>5
  <2> QED
    BY <2>1, <2>2
<1> HIDE DEF next
<1>7. Used' = Used \ {block}
  BY <1>3, <1>6 DEF Used
<1>8. Progress' /\ LockBalanced' /\ pc' # "kfree"
      /\ (block # HeapStart => pc' = "kfree_walk" /\ ptr' = ptr)
  <2>1. CASE block = HeapStart
    BY <2>1, <1>1, ReturnFree
  <2>2. CASE block # HeapStart
    <3>1. /\ pc' = "kfree_walk" /\ node' = HeapStart /\ UNCHANGED <<locks, then, ptr>>
      BY <2>2, <1>1
    <3>2. HeapStart < block /\ block = ptr - HEADER
      BY <2>2, <1>2, <1>4, Layout DEF block
    <3> QED
      BY <3>1, <3>2, <2>2, <1>2, <1>6 DEF Progress, LockBalanced, Location
  <2> QED
    BY <2>1, <2>2
<1>9. Ownership'
  <2>1. /\ live \subseteq [ptr : Int, size : Nat]
        /\ \A r, s \in live : r.ptr = s.ptr => r = s
        /\ \A r \in live : /\ r.ptr - HEADER \in Used
                           /\ r.size <= heap[r.ptr - HEADER].next - r.ptr
        /\ \A a \in Used : (\E r \in live : r.ptr = a + HEADER) \/ ptr = a + HEADER
    BY DEF IInv, Ownership
  <2>2. ASSUME NEW r \in live
        PROVE  r.ptr - HEADER \in Used' /\ r.size <= heap'[r.ptr - HEADER].next - r.ptr
    <3>1. r.ptr - HEADER # block
      BY <2>1, <1>2, Layout
    <3>2. r.ptr - HEADER \in Used'
      BY <3>1, <2>1, <1>7
    <3>3. heap'[r.ptr - HEADER] = heap[r.ptr - HEADER]
      BY <3>1, <3>2, <1>6 DEF Used
    <3> QED
      BY <3>2, <3>3, <2>1
  <2>3. ASSUME NEW a \in Used' PROVE \E r \in live : r.ptr = a + HEADER
    <3>1. a \in Used /\ a # block /\ a \in Int
      BY <1>7, TiledFacts DEF Used, IInv
    <3>2. ptr # a + HEADER
      BY <3>1, <1>2, Layout
    <3> QED
      BY <3>1, <3>2, <2>1
  <2> QED
    BY <2>1, <2>2, <2>3, <1>1 DEF Ownership
<1>10. Merged'
  <2> SUFFICES ASSUME ~resized, NEW a \in DOMAIN heap', heap'[a].free, heap'[heap'[a].next].free
               PROVE  pc' = "kfree_walk" /\ heap'[a].next = ptr' - HEADER
    BY <1>1 DEF Merged
  <2>1. a # block /\ heap'[a] = heap[a] /\ a \in DOMAIN heap
    BY <1>6
  <2>2. heap[a].next \in DOMAIN heap' /\ ~heap[heap[a].next].free
    BY <2>1, <1>1, <1>6, TiledFacts DEF IInv, Merged
  <2>3. heap[a].next = block
    BY <2>1, <2>2, <1>6
  <2>4. block # HeapStart
    BY <2>1, <2>3, <1>4, TiledFacts DEF IInv
  <2> QED
    BY <2>1, <2>3, <2>4, <1>8 DEF block
<1>11. BlocksAligned'
  BY <1>1, <1>6 DEF IInv, BlocksAligned
<1> QED
  BY <1>1, <1>6, <1>8, <1>9, <1>10, <1>11 DEF IInv

\* kfree's walk to the freed block's parent stays on linked headers.
LEMMA FreeWalkIInv ==
  ASSUME IInv, kfree_walk
  PROVE  IInv'
<1>1. /\ pc = "kfree_walk" /\ heap[node].next # ptr - HEADER /\ node' = heap[node].next
      /\ UNCHANGED <<heap, program_break_point, grown, resized, locks, pc, then, aligned_size,
                     want, ptr, ret, live>>
  BY DEF kfree_walk, break
<1>2. Used' = Used
  BY <1>1 DEF Used
<1>3. /\ ptr \in Int /\ ptr - HEADER \in DOMAIN heap
      /\ node \in DOMAIN heap /\ node < ptr - HEADER
  BY <1>1 DEF IInv, Progress
\* The walk does not step over the block it looks for.
<1>4. node' \in DOMAIN heap /\ node' < ptr - HEADER
  BY <1>1, <1>3, TiledFacts, Layout DEF IInv
<1> QED
  BY <1>1, <1>2, <1>4 DEF IInv, Ownership, Progress, LockBalanced, Merged, BlocksAligned, Tiled

\* kfree merges the freed block into its parent, if that is free.
LEMMA ParentIInv ==
  ASSUME IInv, kfree_parent
  PROVE  IInv'
<1> DEFINE block == ptr - HEADER
<1>1. /\ pc = "kfree_walk" /\ heap[node].next = block /\ live' = live
      /\ heap' = IF heap[node].free THEN heap_block_merge_down(heap, node) ELSE heap
      /\ KfreeReturns
      /\ program_break_point' = program_break_point /\ grown' = grown /\ resized' = resized
  BY DEF kfree_parent, break
<1>2. /\ block \in DOMAIN heap /\ heap[block].free /\ block \in Int
      /\ node \in DOMAIN heap /\ node < block /\ node \in Int
  BY <1>1, TiledFacts, Layout DEF IInv, Progress
<1>3. /\ ~heap[node].EOM /\ ~heap[block].EOM
      /\ heap[block].next \in DOMAIN heap /\ heap[block].next # block /\ heap[block].next # node
  BY <1>2, TiledFacts, Layout DEF IInv
\* Only this parent has the freed block for its successor.
<1>4. \A a \in DOMAIN heap : ~heap[a].EOM /\ heap[a].next = block => a = node
  BY <1>1, <1>2, <1>3, TiledFacts, Layout DEF IInv
<1>5. Progress' /\ LockBalanced' /\ pc' # "kfree" /\ pc' # "kfree_walk"
  BY <1>1, ReturnFree
<1> HIDE DEF block
<1>6. /\ Tiled(heap', program_break_point)
      /\ DOMAIN heap' \subseteq DOMAIN heap
      /\ \A a \in DOMAIN heap \ DOMAIN heap' : heap[a].free
      /\ \A a \in DOMAIN heap' : heap'[a].free = heap[a].free /\ heap'[a].EOM = heap[a].EOM
      /\ \A a \in DOMAIN heap' : ~heap[a].free => heap'[a].next = heap[a].next
      /\ ~resized => \A a \in DOMAIN heap' : heap'[a].free => ~heap'[heap'[a].next].free
  <2>1. CASE heap[node].free
    <3>1. /\ Tiled(heap', program_break_point)
          /\ DOMAIN heap' = DOMAIN heap \ {block}
          /\ heap'[node].next = heap[block].next /\ heap'[node].free = heap[node].free
          /\ heap'[node].EOM = heap[node].EOM
          /\ \A a \in DOMAIN heap' : a # node => heap'[a] = heap[a]
      <4>1. /\ node \in DOMAIN heap /\ ~heap[node].EOM /\ ~heap[heap[node].next].EOM
            /\ Tiled(heap, program_break_point) /\ heap' = heap_block_merge_down(heap, node)
            /\ heap[node].next = block
        BY <2>1, <1>1, <1>2, <1>3 DEF IInv
      <4> QED
        BY <4>1, MergeTiled
    <3>2. /\ \A a \in DOMAIN heap' : heap'[a].free = heap[a].free /\ heap'[a].EOM = heap[a].EOM
          /\ \A a \in DOMAIN heap' : ~heap[a].free => heap'[a].next = heap[a].next
          /\ \A a \in DOMAIN heap \ DOMAIN heap' : heap[a].free
      BY <3>1, <2>1, <1>2
    <3>3. ASSUME ~resized, NEW a \in DOMAIN heap', heap'[a].free
          PROVE  ~heap'[heap'[a].next].free
      <4>1. CASE a = node
        <5>1. ~heap[heap[block].next].free
          BY <3>3, <1>2, <1>3 DEF IInv, Merged, block
        <5> QED
          BY <4>1, <5>1, <3>1, <3>2, <1>3
      <4>2. CASE a # node
        <5>1. /\ heap'[a] = heap[a] /\ a \in DOMAIN heap /\ heap[a].free
              /\ ~heap[a].EOM /\ heap[a].next \in DOMAIN heap
          BY <4>2, <3>1, <3>3, TiledFacts DEF IInv
        <5>2. heap[a].next # block /\ heap[a].next \in DOMAIN heap'
          BY <4>2, <5>1, <3>1, <1>4
        <5>3. ~heap[heap[a].next].free
          BY <5>1, <5>2, <3>3 DEF IInv, Merged, block
        <5> QED
          BY <5>1, <5>2, <5>3, <3>2
      <4> QED
        BY <4>1, <4>2
    <3> QED
      BY <3>1, <3>2, <3>3
  <2>2. CASE ~heap[node].free
    <3>1. heap' = heap
      BY <2>2, <1>1
    <3>2. ASSUME ~resized, NEW a \in DOMAIN heap, heap[a].free
          PROVE  ~heap[heap[a].next].free
      <4>1. ~heap[a].EOM /\ a # node
        BY <2>2, <3>2, TiledFacts DEF IInv
      <4>2. heap[a].next # block
        BY <4>1, <1>4
      <4> QED
        BY <4>2, <3>2 DEF IInv, Merged, block
    <3> QED
      BY <3>1, <3>2 DEF IInv
  <2> QED
    BY <2>1, <2>2
<1>7. Used' = Used
  BY <1>6 DEF Used
<1>8. \A a \in Used : heap'[a].next = heap[a].next
  BY <1>6, <1>7 DEF Used
<1>9. Ownership'
  BY <1>1, <1>5, <1>7, <1>8 DEF IInv, Ownership
<1>10. Merged' /\ BlocksAligned'
  BY <1>1, <1>6 DEF IInv, Merged, BlocksAligned
<1> QED
  BY <1>1, <1>5, <1>6, <1>9, <1>10 DEF IInv

\* Each step of a call in progress.
LEMMA StepIInv ==
  ASSUME IInv, Step
  PROVE  IInv'
<1>1. CASE kcalloc_return
  BY <1>1, EndCall DEF kcalloc_return
<1>2. CASE krealloc_return
  BY <1>2, EndCall DEF krealloc_return
<1>3. CASE krealloc_moved
  <2>1. pc = "krealloc" /\ UNCHANGED <<heap, break>>
    BY <1>3 DEF krealloc_moved
  <2>2. CASE ret = NULL
    BY <1>3, <2>1, <2>2, EndCall DEF krealloc_moved
  <2>3. CASE ret # NULL
    <3>1. CallKfree(ptr, locks + 1, "krealloc_unlock") /\ locks + 1 = 2
      BY <1>3, <2>1, <2>3 DEF krealloc_moved, IInv, LockBalanced
    <3>2. PICK r \in live : r.ptr = ptr
      BY <2>1 DEF IInv, Progress
    <3> QED
      BY <2>1, <3>1, <3>2, EnterKfree
  <2> QED
    BY <2>2, <2>3
<1> QED
  BY <1>1, <1>2, <1>3, WalkIInv, FitIInv, ExtendIInv, MarkIInv, FreeWalkIInv, ParentIInv DEF Step

\* Every step preserves the invariant.
LEMMA Inductive ==
  ASSUME Modest
  PROVE  IInv /\ [Next]_vars => IInv'
BY CallIInv, StepIInv, StutterIInv DEF Next

\* The invariant holds in every reachable state.
LEMMA Invariance ==
  ASSUME Modest
  PROVE  Spec => []IInv
BY InitIInv, Inductive, PTL DEF Spec

(***************************************************************************)
(* The invariant implies the properties.                                   *)
(***************************************************************************)
Separate ==
    /\ live \subseteq [ptr : Address, size : Nat]
    /\ \A r, s \in live : r # s => Abstract!Apart(r, s)

\* Two regions have different blocks, and a block ends before the next begins.
LEMMA RegionsApart == IInv => Separate
<1> SUFFICES ASSUME IInv PROVE Separate
  OBVIOUS
<1>1. /\ live \subseteq [ptr : Int, size : Nat]
      /\ \A r, s \in live : r.ptr = s.ptr => r = s
      /\ \A r \in live : /\ r.ptr - HEADER \in DOMAIN heap /\ ~heap[r.ptr - HEADER].EOM
                         /\ r.size <= heap[r.ptr - HEADER].next - r.ptr
  BY DEF IInv, Ownership, Used
<1>2. ASSUME NEW r \in live
      PROVE  r.ptr \in Address /\ r.ptr \in Int /\ r.size \in Nat
  <2>1. /\ r.ptr \in Int /\ r.size \in Nat /\ HeapStart <= r.ptr - HEADER
        /\ (r.ptr - HEADER) + HEADER <= program_break_point
        /\ program_break_point \in Int /\ program_break_point <= MaxBreak
    BY <1>1, TiledFacts DEF IInv
  <2> QED
    BY <2>1, Layout DEF Address
<1>3. ASSUME NEW r \in live, NEW s \in live, r.ptr < s.ptr
      PROVE  r.ptr + r.size <= s.ptr
  <2> DEFINE a == r.ptr - HEADER
             b == s.ptr - HEADER
  <2>1. /\ a \in DOMAIN heap /\ b \in DOMAIN heap /\ ~heap[a].EOM
        /\ r.size <= heap[a].next - r.ptr
    BY <1>1
  <2>2. /\ a \in Int /\ b \in Int /\ heap[a].next \in Int /\ (b <= a \/ heap[a].next <= b)
    BY <2>1, TiledFacts DEF IInv
  <2> QED
    BY <2>1, <2>2, <1>2, <1>3, Layout
<1>4. ASSUME NEW r \in live, NEW s \in live, r # s
      PROVE  Abstract!Apart(r, s)
  <2>1. r.ptr < s.ptr \/ s.ptr < r.ptr
    BY <1>1, <1>2, <1>4
  <2> QED
    BY <2>1, <1>2, <1>3 DEF Abstract!Apart
<1>5. live \subseteq [ptr : Address, size : Nat]
  BY <1>1, <1>2
<1> QED
  BY <1>4, <1>5 DEF Separate

\* The same in the next state.
LEMMA RegionsApartNext == IInv' => Separate'
BY RegionsApart, PTL

\* What the invariant says of the lists and of the regions callers hold.
LEMMA IInvImplies ==
  ASSUME IInv
  PROVE  BlocksTile /\ RegionsHeld /\ RegionsDisjoint /\ NoLeak /\ Coalesced
<1>1. BlocksTile
  BY DEF IInv, Tiled, BlocksTile
<1>2. RegionsHeld
  BY DEF IInv, Ownership, Used, RegionsHeld
<1>3. RegionsDisjoint
  BY RegionsApart DEF IInv, Separate, RegionsDisjoint, Abstract!Apart
<1>4. NoLeak
  <2> SUFFICES ASSUME pc = "idle"
               PROVE  {a + HEADER : a \in Used} = {r.ptr : r \in live}
    BY DEF NoLeak, Used
  <2>1. ASSUME NEW a \in Used PROVE \E r \in live : r.ptr = a + HEADER
    BY DEF IInv, Ownership
  <2>2. ASSUME NEW r \in live PROVE \E a \in Used : r.ptr = a + HEADER
    <3>1. r.ptr - HEADER \in Used /\ r.ptr \in Int
      BY DEF IInv, Ownership
    <3>2. r.ptr = (r.ptr - HEADER) + HEADER
      BY <3>1, Layout
    <3> QED
      BY <3>1, <3>2
  <2> QED
    BY <2>1, <2>2
<1>5. Coalesced
  BY DEF IInv, Merged, Coalesced
<1> QED
  BY <1>1, <1>2, <1>3, <1>4, <1>5

\* The headers of kmalloc, kfree and krealloc always tile the heap, whatever mix of
\* splits, merges and extensions built the list.
THEOREM HeapTiled ==
  ASSUME Modest
  PROVE  Spec => []BlocksTile
<1>1. IInv => BlocksTile
  BY IInvImplies
<1> QED
  BY <1>1, Invariance, PTL

\* The region a caller of the heap holds is the payload of a used block that is large
\* enough, until the caller gives it back.
THEOREM HeapHoldsRegions ==
  ASSUME Modest
  PROVE  Spec => []RegionsHeld
<1>1. IInv => RegionsHeld
  BY IInvImplies
<1> QED
  BY <1>1, Invariance, PTL

\* No two regions that callers of the heap hold share a byte.
THEOREM HeapRegionsDisjoint ==
  ASSUME Modest
  PROVE  Spec => []RegionsDisjoint
<1>1. IInv => RegionsDisjoint
  BY IInvImplies
<1> QED
  BY <1>1, Invariance, PTL

\* Between calls every used block is some caller's: no path of krealloc or of a failed
\* kmalloc loses one.
THEOREM HeapLosesNothing ==
  ASSUME Modest
  PROVE  Spec => []NoLeak
<1>1. IInv => NoLeak
  BY IInvImplies
<1> QED
  BY <1>1, Invariance, PTL

\* Every path through kmalloc, kcalloc, krealloc and kfree gives back the scheduler
\* lock as often as it took it.
THEOREM HeapUnlocks ==
  ASSUME Modest
  PROVE  Spec => []LockBalanced
<1>1. IInv => LockBalanced
  BY DEF IInv
<1> QED
  BY <1>1, Invariance, PTL

\* As long as krealloc has resized nothing in place, kfree leaves no two neighbouring
\* free blocks.
THEOREM HeapCoalesces ==
  ASSUME Modest
  PROVE  Spec => []Coalesced
<1>1. IInv => Coalesced
  BY IInvImplies
<1> QED
  BY <1>1, Invariance, PTL

\* As long as krealloc has resized nothing in place, every header lies on a multiple
\* of ALIGNMENT.
THEOREM HeapAligned ==
  ASSUME Modest
  PROVE  Spec => []BlocksAligned
<1>1. IInv => BlocksAligned
  BY DEF IInv
<1> QED
  BY <1>1, Invariance, PTL

(***************************************************************************)
(* The heap implements the allocator that heap.h promises.                 *)
(***************************************************************************)
\* A region is added: it is new, and apart from the others.
LEMMA AddSimulates ==
  ASSUME IInv', NEW new, live' = live \cup {new}
  PROVE  Abstract!Next \/ UNCHANGED live
<1>1. CASE new \in live
  BY <1>1
<1>2. CASE new \notin live
  <2>1. /\ new \in live' /\ new \in Abstract!Region
        /\ \A s \in live : Abstract!Apart(new, s)
    BY <1>2, RegionsApartNext DEF Separate, Abstract!Region
  <2>2. Abstract!Allocate(new)
    BY <2>1 DEF Abstract!Allocate
  <2> QED
    BY <2>1, <2>2 DEF Abstract!Next
<1> QED
  BY <1>1, <1>2

\* kmalloc's return is an allocation, or an answer NULL.
LEMMA ReturnSimulates ==
  ASSUME IInv', NEW v, KmallocReturns(v)
  PROVE  Abstract!Next \/ UNCHANGED live
BY AddSimulates DEF KmallocReturns

\* Dropping a region is the abstract free.
LEMMA FreeSimulates ==
  ASSUME IInv, NEW s \in live, live' = {t \in live : t.ptr # s.ptr}
  PROVE  Abstract!Next \/ UNCHANGED live
<1>1. live' = live \ {s}
  BY DEF IInv, Ownership
<1> QED
  BY <1>1 DEF Abstract!Next, Abstract!Release

\* krealloc in place is the abstract resize.
LEMMA ResizeSimulates ==
  ASSUME IInv, IInv', NEW r \in live, NEW size, krealloc_in_place(r, size)
  PROVE  Abstract!Next
<1> DEFINE new == [r EXCEPT !.size = size]
<1>1. live' = (live \ {r}) \cup {new} /\ new.ptr = r.ptr
  BY DEF krealloc_in_place, IInv, Ownership
<1> HIDE DEF new
<1>2. \A s \in live \ {r} : s # new
  BY <1>1 DEF IInv, Ownership
<1>3. /\ new \in live' /\ new \in Abstract!Region
      /\ \A s \in live \ {r} : Abstract!Apart(new, s)
  BY <1>1, <1>2, RegionsApartNext DEF Separate, Abstract!Region
<1>4. Abstract!Resize(r, new)
  BY <1>1, <1>3 DEF Abstract!Resize
<1> QED
  BY <1>3, <1>4 DEF Abstract!Next

\* Each step is a step of the abstract allocator or changes no region.
LEMMA StepSimulates ==
  ASSUME IInv, IInv', Next
  PROVE  Abstract!Next \/ UNCHANGED live
<1>1. CASE Call
  <2>1. ASSUME NEW r \in live, kfree(r.ptr) \/ krealloc_zero(r.ptr)
        PROVE  Abstract!Next \/ UNCHANGED live
    BY <2>1, FreeSimulates DEF kfree, krealloc_zero, CallKfree
  <2>2. ASSUME NEW r \in live, NEW size \in ReallocSizes, krealloc_in_place(r, size)
        PROVE  Abstract!Next
    BY <2>2, ResizeSimulates
  <2>3. ASSUME \/ \E size \in Sizes : kmalloc(size) \/ \E nmemb \in Counts : kcalloc(nmemb, size)
               \/ \E size \in ReallocSizes : krealloc_null(size)
               \/ \E size \in ReallocSizes, r \in live : krealloc_move(r.ptr, size)
               \/ \E increment \in Increments : sbrk_call(increment)
        PROVE  UNCHANGED live
    BY <2>3 DEF kmalloc, kcalloc, krealloc_null, krealloc_move, sbrk_call
  <2> QED
    BY <1>1, <2>1, <2>2, <2>3 DEF Call
<1>2. CASE Step
  <2>1. CASE kmalloc_fit
    BY <2>1, ReturnSimulates DEF kmalloc_fit
  <2>2. CASE kmalloc_extend
    <3>1. KmallocReturns(NULL) \/ KmallocReturns(node + HEADER) \/ UNCHANGED live
      BY <2>2 DEF kmalloc_extend, WriteOutside
    <3> QED
      BY <3>1, ReturnSimulates
  <2>3. CASE krealloc_moved
    <3>1. CASE ret = NULL
      BY <2>3, <3>1 DEF krealloc_moved
    <3>2. CASE ret # NULL
      <4>1. pc = "krealloc" /\ live' = {t \in live : t.ptr # ptr}
        BY <2>3, <3>2 DEF krealloc_moved, CallKfree
      <4>2. PICK r \in live : r.ptr = ptr
        BY <4>1 DEF IInv, Progress
      <4> QED
        BY <4>1, <4>2, FreeSimulates
    <3> QED
      BY <3>1, <3>2
  <2>4. CASE kmalloc_walk \/ kcalloc_return \/ kfree_mark \/ kfree_walk \/ kfree_parent
             \/ krealloc_return
    BY <2>4 DEF kmalloc_walk, kcalloc_return, kfree_mark, kfree_walk, kfree_parent,
                krealloc_return
  <2> QED
    BY <1>2, <2>1, <2>2, <2>3, <2>4 DEF Step
<1> QED
  BY <1>1, <1>2 DEF Next

\* The heap implements Allocator: whoever calls kmalloc, kcalloc or krealloc gets a
\* region apart from every other, and keeps it, at its place, until it frees or
\* resizes it.
THEOREM HeapImplementsAllocator ==
  ASSUME Modest
  PROVE  Spec => ImplementsAllocator
<1>1. Init => Abstract!Init
  BY DEF Init, Abstract!Init
<1>2. IInv /\ IInv' /\ [Next]_vars => [Abstract!Next]_live
  BY StepSimulates DEF vars
<1> QED
  BY <1>1, <1>2, Invariance, PTL DEF Spec, ImplementsAllocator, Abstract!Spec
=============================================================================
