# ChoOS: a verification development in TLA+

ChoOS is a small i386 kernel: a cooperative task scheduler driven by a timer,
a physical and a virtual memory manager, a heap, a keyboard driver and a text
terminal. This directory models its core logic in TLA+, model-checks it with TLC on
small instances and proves with TLAPS, for every value of the parameters, the safety
properties and refinements of all parts.

Paths below are relative to `src/`; `PROJECT.json` maps each definition to the lines
it translates.

## 1. The system

### Components

| Component | State it keeps | Operations | Interacts with |
|---|---|---|---|
| Scheduler (`kernel/arch/i386/scheduler/scheduler.c`, `task.c`, two `.S` files) | current task, ready list (head, tail), dead list, `next`, `state`, `time_used` per task, `IRQ_disable_counter`, `postpone_task_switches_counter`, `task_switches_postponed_flag`, `last_tick` | `multitasking_initialize`, `create_kernel_task`, `schedule`, `switch_to_task`, `lock_scheduler`, `unlock_scheduler`, `yield`, `block_task`, `unblock_task`, `terminate_task`, `mark_task_for_death`, `dead_tasks_cleanup`, `get_task_state`, `update_time_used` | heap (task blocks and stacks), timer (wake-ups), sleep |
| Sleep (`scheduler/sleep.c`) | sleeping list, wake-up time per task | `micro_sleep`, `micro_sleep_until`, `internal_update_awoken_taskes` | called by the timer handler inside the interrupt |
| Timer (`interrupts/timer.c`) | `ticks_since_boot`, the event list | `irq_0_handler`, event install and uninstall, clock reads | calls sleep's wake-up pass |
| Interrupt dispatch (`interrupts/interrupts.S`, `idt.c`) | IDT, handler per line, EFLAGS.IF; in hardware, the two PICs | `idt_init`, IRQ and exception stubs, `irq_handler`, `isr_handler`, handlers installed and removed, EOI, `iret` | all handlers |
| Heap (`memory_manager/allocators.c`, `heap.c`, `internal.c`) | linked block headers from `heap_start` to the break | `kmalloc`, `kcalloc`, `krealloc`, `kfree`, `heap_init` | takes the scheduler lock; extends itself with `sbrk` |
| Program break (`memory_manager/brk.c`) | `program_break_point` | `brk`, `sbrk` | page frames and page tables |
| Page tables (`memory_manager/vmm.c`) | directory and tables | `vmm_page_map`, `vmm_page_unmap`, `vmm_page_map_range` | page frames (new tables) |
| Page frames (`paging/`) | frame bitmap, one batch of 20 frames | `pmm_frames_init`, `pmm_directory_init`, `pmm_alloc_page`, `pmm_free_page` | boot memory map |
| Kernel main and self test (`kernel/kernel.c`, `test.c`) | tasks it watches | `test_all`, demo tasks, idle loop | everything |
| Keyboard (`interrupts/keyboard.c`) | modifier flags, keymap | `irq_1_handler` | terminal; its interrupt ends a `hlt` |
| Terminal (`tty.c`) | cursor, colour, VGA buffer | put, newline, backspace, scroll | keyboard, printf |
| libc (`libc/stdio`, `libc/string`, `libc/stdlib`) | none of its own | `vprintf` and the conversions below it, eight functions on bytes and strings, `abort` | terminal (`putchar`), all of the kernel |
| GDT, boot code, debug port | tables, none, none | start-up, output | none |

### What is hard here

* One CPU, cooperative tasks, but an interrupt between any two instructions while IF is
  set. `schedule()` edits the ready list without disabling interrupts itself, and the
  timer handler appends to the same list.
* The lock is three global variables. A task that switches away inside
  `unlock_scheduler` finishes its unlock only when it runs again, so the counters hold
  contributions of several suspended tasks; `_switch_to_task` does not save IF.
* `get_task_state` walks three lists with no lock while the timer moves tasks between
  them.
* `krealloc` calls `kmalloc` and `kfree` inside its own lock and has four exits; every
  split, merge and extension must keep the list a tiling of the heap.
* Growth of the break takes a frame, maybe a page table (another frame), for each page,
  and can fail at each step; a frame batch can run dry half way through a refill.
* 64-bit clock values go through 32-bit parameters; sizes near the top of `size_t` wrap, and
  so does the break, which starts at 3 GB.
* The keyboard handler reads the data port twice for one byte, while the controller may
  already hold the next one.
* Interrupts are on from `idt_init`, long before a handler is installed; the `cli` of
  `multitasking_initialize` is undone by the first `kmalloc` after it; the unlock of the
  timer's own event sets IF inside the handler, before the EOI.
* The event list is linked without a lock while the timer walks it, and the 64-bit clock
  is read in two loads.

### What makes each component correct

* Scheduler: locks balance over all tasks together; interrupts are off exactly where a
  list is half edited; each task is in one place; dead tasks stay dead; a `hlt` is
  executed only with interrupts on; ready tasks run, in the order they became ready.
* Sleep and timer: nobody wakes early, every sleeper wakes, each tick is charged once;
  each installed event runs once per tick; a clock reading is one the clock had.
* Interrupts: one handler at work at a time; each EOI ends the line of its own handler; no
  interrupt is lost for want of a handler.
* libc: a number is printed as its shortest numeral; the count is the number of
  characters printed; copies are exact, also where regions overlap.
* Heap: the list tiles the heap; callers' regions are disjoint, large enough, below the
  break and never lost; each path returns the lock; each call returns.
* Paging and break: a frame has one use; only RAM is handed out; what is below the break
  is mapped; `sbrk` returns what its header says, also when it fails.

## 2. Modules

| Module | What it is |
|---|---|
| `Scheduler` | scheduler, sleep, the timer interrupt and the program `kernel_main` runs on them |
| `RoundRobin` | abstract: cooperative round robin, what callers of the scheduler may rely on |
| `SchedulerLists` | the linked lists read as sequences and sets; list properties; the refinement mapping to `RoundRobin` |
| `Break` | `brk.c` as its callers see it: the possible outcomes of one `sbrk` |
| `BreakSpec` | abstract: the break as a specification made of those outcomes |
| `Heap` | the block list and its four entry points, on the outcomes of `Break` |
| `Allocator` | abstract: regions handed out, resized and given back |
| `Paging` | frame bitmap and batch, page tables, the program break; implements `BreakSpec` |
| `Interrupts` | start-up, interrupt entry and dispatch, the PICs, the timer's event list and clock |
| `Console` | keyboard interrupt and text terminal |
| `Libc` | `vprintf` and the string functions |
| `SchedulerProofs` | the invariant of the scheduler's control: types, locks, the interrupt flag |
| `SchedulerListsProofs` | the invariant of the lists, the scheduler's theorems, the refinement of `RoundRobin`, and what `kernel_main` and the self test rely on |
| `HeapProofs`, `PagingProofs`, `InterruptsProofs`, `ConsoleProofs`, `LibcProofs` | proofs about the module of that name |
| `NumberLemmas` | division, remainder and least elements, for the proofs |
| `MCScheduler`, `MCHeap`, `MCPaging`, `MCInterrupts`, `MCConsole`, `MCLibc` | instances for TLC |

How they fit together: `Heap` computes with the outcomes of `Break`, and `Paging` is
shown to implement the specification made of the same outcomes, so the heap results carry
over to the break that is built page by page. `Scheduler` and `Console` run a handler
from entry to EOI without another inside it, and `Interrupts` shows that they may
(`HandlersExclusive`). `Console` is told by `Scheduler` in which state tasks print.

Definitions marked "Defect" stand directly before the definition they alter. They are
plausible slips of the code, no specification uses them, and `PROJECT.json` ("mutants")
pairs each with the property that notices it.

### Scheduler

State names are the C names. `pc[t]` is the statement task `t` executes next; for a task
off the CPU it is where `_switch_to_task` returns to on its saved stack, `ret[t]` is the
return address of its `schedule()` call and `after[t]` that of its
`unlock_scheduler()` call. The CPU is the task `current_task_PCB`; `intr` is EFLAGS.IF.

* `schedule()` is seven actions, one for each statement on shared lists. Regions that begin
  with `lock_scheduler()` (`cli`) are one action up to the unlock, which is two more:
  `unlock_scheduler` (first decrement, maybe a call of `schedule`) and `unlock_tail`
  (second decrement, maybe `sti`).
* The timer interrupt is `irq_0_handler` (tick and lock), one `unblock_task` or
  `still_sleeping` for each sleeper, `irq_0_return`. It may start in any state with `intr`
  set. It never nests: the PIC holds other interrupts until the EOI at its end
  (`Interrupts!HandlersExclusive`).
* `irq_1_handler`, the keyboard, touches no scheduler state but ends a `hlt`.
* `get_task_state` is one action for each node it visits, so that the timer can move tasks
  in between.
* The program is the shipped one: the self test creates `TestFuncs`, yields until they
  end, `kernel_main` creates `AppFuncs` and waits with `yield(); hlt`. Loop bounds and
  delays are constants. `CleanupDead` compiles in the call of `dead_tasks_cleanup` that
  `kernel_main` has commented out.
* An allocation for a task may fail (`create_out_of_memory`); the machine then stops.

### Heap

`heap` maps the address of each linked header to its fields. A call runs with
interrupts off from its first statement to its last, so calls do not interleave; within
a call one action is one turn of a list walk. `locks` counts the nesting. `then` is where
`kmalloc` or `kfree` returns to when `krealloc` or `kcalloc` called it. `sbrk` is a
relation (`Break`): growth into a new page may fail at any time, growth inside the last
page never does. `live` (regions callers of the heap
hold) and `grown` (regions callers of `sbrk` hold) are history the properties speak
about, and so is `resized`: once `krealloc` has resized a block in place, at an unaligned
size and without a merge, `Coalesced` and `BlocksAligned` claim nothing more. Payload
bytes are left out.

Sizes, the argument of `sbrk` and the break wrap at `Width` as 32-bit values do; addresses count
from `KERNEL_VIRT_OFFSET`. A growth of about 1 GB takes the new break past the top of the
address space. `increment_brk` then finds its last page below the pages already mapped, maps
nothing, stores the wrapped break and returns success; so does the negative argument that a
size from 2^31 on turns into, which lowers the break. `kmalloc` writes its header at that break:
a page fault, or other kernel memory overwritten. The model stops there (`WriteOutside`).

### Paging

Addresses count from `KERNEL_VIRT_OFFSET`, so `V2P` of virtual page `v` is frame `v`. No call
takes the break beyond `HeapTop`, so no break wraps here.
Start-up runs on each memory map of `MemoryMaps`. `sbrk` takes one action for each frame
taken, each page mapped and each page given back. The self tests' own pages
(`test_vmm_aliasing`, `test_vmm_unmap_virt`) are a second user of the frame allocator and
of the page tables. `shrunk` records whether the break was ever lowered: `decrement_brk`
frees frame `V2P(page)` and not the one the page table names, after which the frame
properties no longer hold; they are stated up to that point. `ImplementsBreak` maps the
break and the answer of the call that just returned to `BreakSpec`: growth by several
pages, with its failures half way, is one step there, or none.

### Interrupts

`stack` holds the interrupt frames, the running one last; each has its vector, the place
the handler has reached and the cursor of the timer's walk. `kernel_main` runs when the
stack is empty, from `idt_init` through `timer_init`, `multitasking_initialize` and
`keyboard_init` to "run", where it takes and gives back the scheduler's lock, reads the
clock, installs and uninstalls events, and the keyboard's handler, in any order. The
unlock inside `kmalloc` and `kfree` is `Unlocked`: IF afterwards depends on the lock
counter alone.

The PICs are external and are modelled as the code programs them: edge-triggered requests
(`irr`), lines in service (`isr`), fixed priorities, the second PIC on line 2 of the first,
non-specific EOI. An event is a call that locks and unlocks (`internal_update_awoken_taskes`,
whose unlock sets IF if no other lock is open) or one that does not. `ticks_since_boot` is two
words, read in two steps in either order; `now` counts the ticks behind them. A CPU exception
prints and stops the machine. The stub of exceptions that return is only reached through
vectors 128 and 177, which no code issues; it is left out.

### Libc

One call runs at a time, one action is one turn of a loop. For `vprintf` a format is a
sequence of directives and runs of text, of which only the lengths count. Number conversions
keep digits and widths; `%d` of the most negative int, where `-num` is undefined, is a choice
between what compilers make of it. `%ll` without `u` or `d` is dropped, `%l` and unknown
directives print the rest of the format. `putchar` never fails in this kernel, so `__append`
never returns -1. For the string functions the memory is a few cells with every content,
source, destination, length and overlap the function's callers may use.

### Console

`tty` holds `terminal_row`, `terminal_column` and the screen cells; sizes wrap at `Width`
as `size_t` does. A task prints a character in three steps (make room, put, wrap), the
keyboard handler in one, with interrupts off. `MaskedOutput` says whether tasks print
with interrupts off, which is how the demo tasks print: they come out of `micro_sleep` with
IF clear (`ScheduleUninterrupted`). The 128 entries of each key map are four kinds of
character: a letter with two cases, newline, backspace, and the codes of keys without
a character, of which `%c` prints the low byte. `lines` is the text printed so far,
cut to what can still be on the screen; `crossed` records a backspace at the start of
a line, which takes the cursor off the screen, and ends what the screen properties claim.

The keyboard and its controller are external to the kernel. `Press` and `Release` put the bytes
of a key in `queue`; a key that is held repeats its press; right Ctrl, right Alt and the shift
that keyboards send around PrintScreen (`FAKE_SHIFT`) send 0xE0 and then the code of the left
key. The handler masks the prefix to the glyph `SC_E0` and takes the code as the left key's.
`irq_1_handler` reads the port twice, the scancode first, the release bit second. The second
read gives the same byte, or (`prompt`) the next one if it is there by then, as in QEMU, which
queues bytes in the controller; the next byte's own interrupt then finds it read (`stale`) and
reads it again, unless another has come. `doubt` is history: the flags about which such a pair
of reads took one byte but not the other.

## 3. Runs

| Run | Instance | Shows |
|---|---|---|
| `shipped` | 5 task blocks, 2 `long_task`, 2 sleepers, clock up to 5; about 320 000 states | locks, interrupt flag, lists, CPU time, life cycle; refinement of `RoundRobin` |
| `liveness` | 4 blocks, 1 `long_task`, `CleanupDead`, fairness; about 89 000 states | both waiting loops end; every ready task gets the CPU; freeing the dead leaves no dangling list and no open lock |
| `not_found` | as `liveness`, without cleanup and fairness | **violated**: `get_task_state` misses a live task |
| `wrapped_sleep` | clock near the wrap (`Wrap = 4`) | **violated**: a sleep across the wrap ends at once |
| `heap` | a mapped page of 6 units, growth to 18, fairness; about 1.1 million states | all heap safety properties; refinement of `Allocator`; every call returns |
| `heap_sbrk` | a caller of `sbrk` next to the heap | **violated**: both get the same memory |
| `paging` | 10 frames, tables of 3 pages, batches of 2, three memory maps; about 1.8 million states | frame ownership, RAM only, break mapped; refinement of `BreakSpec` |
| `brk_target` | `brk` to an address inside a page | **violated**: success is returned, the break has not moved |
| `heap_alias` | tables of 6 pages | **violated**: one frame behind two heap pages |
| `console` | screen of 2 rows of 2, four keys, two bytes on their way; about 2.5 million states | cursor on the screen, screen shows the end of the text, only a flag in doubt is on with its keys up |
| `interrupts` | timer, keyboard and one line of the second PIC, two events, fairness; about 177 000 states | handlers exclude each other, EOIs match, events run once per tick and only after initialisation, clock readings, the timer is served |
| `libc` | 8-bit int, 10-bit long long, four cells of three values; about 135 000 states | every number, the count at its limit, every copy and scan |

### Bounds and why they are enough

* Scheduler. Two tasks of each kind suffice for every pair of neighbours in a list
  (first, last, only) and for two tasks suspended inside `unlock_scheduler` at once. Loop
  bounds of 2 make each loop run, repeat and end. `TermIter = 1` terminates one sleeper
  before its loop ends, the other ends normally. Delays 1 and 2 give both orders of
  wake-up. `MaxTicks` is not a stop: later readings are one value, "MaxTicks or later",
  beyond all deadlines of the program, so ticks and interrupts go on for ever. Task blocks
  are interchangeable (`Blocks`, symmetry); the liveness run uses no symmetry. It runs
  with `CleanupDead`: up to the cleanup, which comes after both waiting loops, the
  behaviours are those of the shipped program.
* Heap. One unit is 4 bytes (header 2, alignment 2, minimum 4 units). Room for three
  blocks makes merges down, up and both ways happen; `Requests = {0, 3}` and
  `Resizes = {0, 1, 5}` cover zero, a size that needs padding, shrinking, growth in place
  and a move. A page is 6 units, so that growth stays inside a page, ends at its boundary and
  needs a new one. `MaxBreak` is where frames run out; `Width` leaves the break room for every
  size of the run.
* Paging. A batch of 2 and at most 10 frames give a full batch, a refill and a refill that
  runs dry; tables of 3 pages make growth need a new table. The maps are RAM that starts
  and ends inside a frame, RAM for hardly more than one batch, and too little RAM to boot.
  The increments are a query, a part of a page, two pages, a page less and a shrink below
  the heap's start. `HeapTop` keeps the heap off the tests' pages and the last table.
* Console. Two rows of two columns wrap, scroll and leave room for a backspace that does
  not cross a line; one key other than a modifier is down at a time (`MaxDown`), any number
  of modifiers. Two bytes on their way (`MaxQueue`) are what the two reads can tell apart, and
  hold a prefix and its code. SHIFT, with a plain and a prefixed key, stands for the three
  flags, which have the same code; the proof covers all of them and any number of bytes. After
  a crossing backspace only modifier keys go on.
* Interrupts. A word of the clock has two values, so the two ticks that are counted carry
  into the upper word; after `MaxTicks` the interrupts go on. Two events give a list to
  insert in front of and to remove from at either end. Two frames (`MaxDepth`) are
  the most the rate of ticks allows; the second one enters only after the first one's
  EOI. Lock nesting up to 2. Line 8 is handled by nobody and goes through both PICs.
* Libc. 8 and 10 bits give numbers of up to four digits in base 10 and up to two in base
  16, with the most negative values; `INT_MAX` is 127 then, and texts of 75, 125, 127 and
  128 characters reach the limit exactly, miss it and equal EOVERFLOW. Regions in four cells
  have every relative position: apart, touching, overlapping either way, the same.

### Fairness

* `Scheduler!Fairness`: strong fairness of the CPU's own steps (a handler is far shorter
  than the millisecond between ticks, so the interrupted code gets to run), weak fairness
  of a handler once started, strong fairness of the timer interrupt (the PIC keeps the
  request pending until IF is set). No fairness for the keyboard.
* `Heap!FairSpec`: weak fairness of the call in progress, which runs with interrupts off.
  Callers need not call.
* `Interrupts!Fairness`: weak fairness of the handler that runs; strong fairness of
  `kernel_main`'s statements and of its leaving each level of the lock (handlers are shorter
  than the time between ticks); strong fairness of the timer's entry, whose request the
  PIC keeps. Devices need not raise anything.
* `Libc`, `Console` and `Paging` are checked for safety only.

## 4. Proofs

The theorems hold for every value of the constants that satisfies the ASSUMEs of the
module, and under the hypotheses given here. A hypothesis names a limit the code really
has; the instance of the passing run satisfies it, so TLC checks the same claim on
a small case.

| Theorem | Property | Hypothesis |
|---|---|---|
| `SchedulerListsProofs!TypeCorrect` | `TypeOK`: no unsigned counter goes below zero | none |
| `LockConservationHolds` | `IRQ_disable_counter` counts the locks open over all tasks, suspended ones included, and the handler's | none |
| `PostponeCleanHolds` | no suspended task postpones switches, the handler never finds one pending | none |
| `ScheduleUninterruptedHolds` | the timer handler never runs inside `schedule()`, while a task is between lists or while the dead are freed | none |
| `QueuesIntact` | `QueueIntegrity`: each task in one list, once, in the matching state; the tail is the tail | none |
| `NoListDangles` | no list leads to a block that is not a task; no block is freed twice | none |
| `SleepersSleep` | `SleepsLongEnough` | `MaxTicks < Wrap` |
| `DeathIsFinal` | `DeadStayDead` (action property) | none |
| `SchedulerImplementsRoundRobin` | refinement of `RoundRobin` | none |
| `CpuTimeAddsUp` | `CpuTimeConserved` | none |
| `SelfTestPasses` | `NoPanic`, for any programs of the two kinds | none |
| `HaltIsInterruptible` | `HaltNeedsInterrupts` | `SleepersOnly` |
| `HeapProofs!HeapTiled`, `HeapHoldsRegions`, `HeapRegionsDisjoint`, `HeapLosesNothing`, `HeapUnlocks`, `HeapCoalesces`, `HeapAligned` | `BlocksTile`, `RegionsHeld`, `RegionsDisjoint`, `NoLeak`, `LockBalanced`, `Coalesced`, `BlocksAligned` | `Modest` |
| `HeapImplementsAllocator` | refinement of `Allocator` | `Modest` |
| `PagingProofs!FramesHaveOneUse`, `FreeFramesAreRam` | `FramesExclusive`, `OnlyRamIsFree` | none |
| `HeapIsMapped` | `BreakMapped` | `WholePages` |
| `PagingImplementsBreak` | refinement of `BreakSpec` | none |
| `InterruptsProofs!OneHandlerAtWork`, `EoiEndsItsOwn`, `WalkRunsAll`, `NoEventBeforeTask` | `HandlersExclusive`, `InServiceMatches`, `EventsRunOnce`, `EventsAfterInit` | none |
| `ReadBetween` | `ClockReadSound` | `NoWrap` |
| `ConsoleProofs!CursorStays`, `ScreenShowsTail` | `CursorOnScreen`, `ScreenIsTail` | `MaskedOutput` |
| `ModifiersAgree` | `ModifiersTrack`: no flag that is not in doubt is on with its keys up | none |
| `LibcProofs!CountIsPrinted`, `NumeralsExact`, `StringFunctionsExact` | `WrittenCounts`, `NumbersExact`, `StringsExact` | none |

The scheduler's theorems speak of both builds: with the call of `dead_tasks_cleanup` that
`kernel_main` has commented out (`CleanupDead`) and without it. Those of `LibcProofs` hold for
integers of any width from 8 bits, any formats and texts, and a memory of any size.

The hypotheses:

* `MaxTicks < Wrap`: the clock stays below the range of the 32-bit wake-up time. The run
  `wrapped_sleep` shows that it is needed.
* `SleepersOnly`: the demo of `kernel_main` starts no `long_task`, as it ships. It is needed:
  a `long_task` leaves the CPU inside `unlock_scheduler` with a lock open, and with one in
  `AppFuncs` `kernel_main` can reach its `hlt` with interrupts off and nothing left to end it.
* `Modest`: sizes, products and resizes are so small that neither `ALIGN` nor the signed
  argument of `sbrk` nor the new break of `increment_brk` wraps, and only the heap moves the
  break. On the real machine this is a size below 1 GB less the memory of the machine, since
  the heap lies above 0xC0000000. Both parts are needed: for larger sizes `kmalloc` runs into
  `WriteOutside`, and the run `heap_sbrk` shows what a second user of the break does.
* `WholePages`: `brk` is not called (nothing in the kernel calls it), or all moves are by
  whole pages. Callers of `sbrk` shrink only from a page boundary, as `test_sbrk` does; a `brk`
  downwards from inside a page would unmap a page that is still partly below the break.
* `NoWrap`: the 64-bit clock does not run over.
* `MaskedOutput`: tasks print with interrupts off, as the demo tasks do.

### Inductive invariants

No property is inductive alone; each proof module states the invariant that is.

* **Scheduler control** (`SchedulerProofs!IInv`): a counter can be decremented safely only if
  the task really holds the lock, which depends on where every suspended task is, and
  interrupts are off inside `schedule()` only because of the way it was reached. `Control`
  says where a task can be: suspended tasks stand at one of a few places (`Parked`),
  `kernel_main` and the created tasks stay in their own code (`MainControl`, `TaskControl`,
  `BodyControl`). The cardinality in `LockConservation` is followed by lemmas on adding and
  removing one holder. For the steps of `dead_tasks_cleanup` it is not inductive alone: that
  `free_task` frees a block that holds no lock and is not running follows from the dead list,
  so the theorems on locks and types rest on the lists too.
* **Lists** (`LInv == Runs /\ Placed`): there are three sequences that the `next` fields spell
  out from the three heads, without repetition and without a common task; the wake-up pass stands
  at a position of the second; each sequence holds tasks at the place and in the state that
  go with it, and a task that is ready inside `micro_sleep` is due. A step outside the cleanup is either
  `Quiet` (moves no task) or one of nine that move one (`MovesTask`); for each of those the new
  sequences are given explicitly. The same sequences are the witnesses for the refinement of
  `RoundRobin`.
* **Cleanup** (`AInv`, the invariant of all states): while `dead_tasks_cleanup` frees, `Placed`
  no longer holds, since the dead list leads to freed blocks. `Cleaning` takes its place: the tasks of the
  dead list in front of `node` are freed, `node` and those behind it are dead and not freed,
  `kernel_main` runs and is on no list. So each block is freed once, and when the head
  is cleared the lists are as `LInv` wants them. `Over` says that from then on `kernel_main`
  keeps the CPU, which carries the CPU time, the self test and the `hlt` past the cleanup.
* **Self test** (`KInv`): a `long_task` that waits inside a lock is always in the ready list,
  at or behind the node that the unlocked walk of `get_task_state` has reached (`WalkInv`), since
  the handler only appends to that list. So the walk cannot take a live `long_task` for a dead one,
  as it can a sleeper (run `not_found`), and the assertions after the waiting loop hold. For the
  `hlt` one adds that in the demo no task holds a lock across a switch.
* **Heap**: besides the tiling, `Progress` says what the locals of the call in progress stand for
  (the cursor is a header, the block being freed is used and nobody's, the block being moved is
  still its caller's) and `Ownership` pairs used blocks and regions. `Coalesced` holds between
  calls only; `Merged` names the one pair that `kfree` has yet to merge.
* **Paging**: each use has a frame of its own, marked used, and the frames in the batch and in hand
  are not among those reserved at start-up, so a growth that fails gives back a frame that
  was free before. `BreakInv` says how far the break has moved and how far it will, which makes
  growth over many steps one step of `BreakSpec`, or none.
* **Interrupts**: only the timer's handler runs with IF set, and line 0 is then in service, which
  holds back every line: at most one handler is before its EOI. The event list is a sequence of
  which the walk has run a prefix, also while an install has a node half linked (at the
  front, behind the cursor).
* **Console**: the buffer, the cursor and the text agree between characters, and at "wrap", where
  the text is ahead of the terminal, after the wrap. For the keyboard, the last byte in the queue
  about a flag decides what it will be (`EndsOn`): the queue alone never turns on a flag whose
  keys are up, nor does a byte that is read again, and a flag not in doubt will be off once the
  queue is empty if its keys are up.
* **Libc**: `WriteInv` ties the count to what was printed, and the guard of `__append` keeps it within
  `INT_MAX`. `NumberInv` keeps, for a conversion in progress, all quotients the division loop has been
  through: each is the next one times the base plus a digit, only the last can be zero, and the first is
  the argument's magnitude. Read backwards they are the value of the numeral's prefixes, so
  the reversed buffer has the argument as its value and a leading digit that is not zero. `StringInv`
  says which cells of the destination have their final byte (`Done`) and that all others are as
  they were at the call; that the next source byte is not overwritten yet is what `Permitted`
  (`memcpy` overlaps only downwards, `strcpy` and `strncpy` not at all) and the direction of `memmove` are for.

### How what looks like induction is done

The provers have no induction over data. `NumberLemmas!Least` (a nonempty set of naturals
has a least element, since `<` is well-founded) takes its place: a claim for all positions,
counts or subsets is shown by the smallest counterexample. That is how `Chain`, the recursive
function that follows `next`, is shown to be the sequence of the invariant, and how the sum over
tasks in `CpuTimeConserved` is shown to exist and to grow by one summand, what a recursive length of
a format is, and that a buffer of digits has one value. `2^n`, which the provers do not know, is the
number of subsets of `n` things. Recursive functions are
written so that the witness can be given and its uniqueness proved.

### Checked by TLC only

* Liveness (`ReachesIdle`, `ReadyRuns`, `CallsReturn`, `TimerServed`): temporal reasoning with
  fairness and ENABLED is outside the prover's reach.
* The five runs that show a violation: a counterexample is an execution, which TLC gives.

Every invariant, action property and refinement that a passing run checks is also a theorem.

## 5. Where code and documentation disagree

1. `scheduler/task.c:47` calls the answer -1 "task doesnt exist or already cleanedup"; it
   is also given for a live task that the timer moved during the unlocked walk
   (`not_found`). `kernel_main` takes such an answer as the end of the task.
2. `sleep.h:9`, "sleep until read_ticks_since_boot()": the deadline loses its upper half
   in a `uint32_t` parameter (`wrapped_sleep`).
3. `heap.h`: `kmalloc` promises a newly allocated region; after a caller moved the break
   itself, as `test_sbrk` does, the next extension of the heap includes that caller's
   memory (`heap_sbrk`).
4. `heap.h`: "brk() sets the end of the data segment to the value specified by addr"; the
   break is lowered by whole pages only (`brk_target`).
5. The part of the heap that the first page table maps is not reserved in the frame
   bitmap, so `sbrk` maps frames the heap already uses (`heap_alias`). `FramesExclusive`
   therefore speaks of frames taken from the bitmap, which the boot-time part of the heap
   is not.

Further limits of the code, recorded as hazards and excluded from the passing runs by
their inputs or by a condition of the property: `krealloc` splits at an unaligned size
and does not merge the tail (the kernel never calls it); growth of about 1 GB wraps the break
and is reported as a success without a page mapped, and sizes of 2^31 and more become a negative
`sbrk` argument; a shrink from a break inside a page unmaps memory that is
still below the break; a key pressed while a task prints with interrupts on (the self
test) can take the cursor past the end of its row, as can a backspace in column 0; a key
is printed when it goes down and again when it goes up; with two bytes pending the keyboard
handler takes the second one's release bit for the first and loses the second, which can
leave a modifier on with its keys up until its next byte; a clock reading during which the
upper word changes is torn; `printf("%d")` of the most negative int prints characters that
are not digits; `vprintf` reports an overflow as the positive number 75;
`multitasking_initialize` does not look whether its timer event was installed, without which
no sleeper ever wakes.

## 6. Not modelled

* GDT, boot code, the assembly that switches paging on: written or run once at start-up, in
  a straight line, before the first state of the models; `multiboot.h` and `gdt.h` only
  declare the layout of tables.
* The debug port and its logger: output that changes no state of the kernel.
* The TLB, page access flags (always the same value), `vmm_page_map_range` (no caller).
* System call gates 128 and 177 (nothing issues them).
* `printf` from several tasks: output order only.
* The messages and verdicts of the self tests. Their calls are among the inputs of the models.

## 7. Plan

Done: the models of all of the kernel's own logic, and the proofs of every safety property, every
action property and every refinement. What could follow:

1. `HaltIsInterruptible` for a demo with a `long_task`, once the code releases the lock across a
   switch.
2. The liveness properties, once the prover handles fairness.
