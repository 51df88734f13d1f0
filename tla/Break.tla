------------------------------- MODULE Break -------------------------------
(***************************************************************************)
(* What the heap relies on when it calls sbrk(), and the rest of the       *)
(* kernel when it calls brk() or sbrk(): one step that either moves the    *)
(* program break and returns where it was, or changes nothing and fails.   *)
(* Growth into a new page fails whenever page frames run out; shrinking    *)
(* moves the break by whole pages and never below the start of the heap.   *)
(*                                                                         *)
(* Virtual addresses count from KERNEL_VIRT_OFFSET and wrap at Width.  A   *)
(* new break that wraps lies below the pages that are mapped: no page is   *)
(* mapped for it and the call succeeds.                                    *)
(***************************************************************************)
EXTENDS Integers

CONSTANTS
    NULL,                 \* no value; as a result, (void *)-1
    PAGE_SIZE,            \* 4096
    KERNEL_VIRT_OFFSET,   \* where the kernel's addresses begin (0xC0000000)
    Width,                \* size of size_t and of addresses (2^32)
    HeapStart,            \* first page boundary after the kernel image
    MaxBreak              \* bound: page frames run out beyond this page boundary

Address == HeapStart .. MaxBreak

vaddr_t(a) == ((a + KERNEL_VIRT_OFFSET) % Width) - KERNEL_VIRT_OFFSET

\* The end of the last page that holds memory below break b, as a page number.
MappedTop(b) == vaddr_t(b + PAGE_SIZE - 1) \div PAGE_SIZE

\* The possible outcomes of sbrk(increment) with the break at old: the break it
\* leaves and the value it returns.
Failed(old) == [brk |-> old, ret |-> NULL]
Moved(old, new) == [brk |-> new, ret |-> old]

increment_brk(old, increment) ==
    LET new == vaddr_t(old + increment) IN
    IF MappedTop(new) > MappedTop(old)
    THEN {Failed(old)} \cup {Moved(old, b) : b \in {c \in {new} : c <= MaxBreak}}
    ELSE {Moved(old, new)}

\* The loop ends at once when the new break wrapped above the old one.
decrement_brk(old, decrement) ==
    LET new == vaddr_t(old - decrement) IN
    IF new < HeapStart
    THEN {Failed(old)}
    ELSE IF old < new /\ PAGE_SIZE <= old + KERNEL_VIRT_OFFSET
         THEN {Moved(old, old)}
         ELSE {Moved(old, vaddr_t(old - PAGE_SIZE * (decrement \div PAGE_SIZE)))}

sbrk(old, increment) ==
    IF increment = 0
    THEN {Moved(old, old)}
    ELSE IF increment > 0 THEN increment_brk(old, increment) ELSE decrement_brk(old, -increment)
=============================================================================
