----------------------------- MODULE Interrupts -----------------------------
(***************************************************************************)
(* Interrupt entry and dispatch (interrupts.S, idt.c), the timer and its   *)
(* list of events (timer.c), and the start-up of kernel_main from          *)
(* idt_init, which sets IF, to the code that runs with everything          *)
(* installed.                                                              *)
(*                                                                         *)
(* The CPU runs the topmost frame of the interrupt stack, or kernel_main   *)
(* when there is none.  An interrupt may come between any two steps while  *)
(* IF is set and the PICs present one.  IF is set again inside the timer   *)
(* handler, by the unlock_scheduler() of an event, long before its EOI:    *)
(* this module is where it is checked that nothing enters a second time.   *)
(* What the events do to tasks is in Scheduler.tla.                        *)
(***************************************************************************)
EXTENDS Integers, Sequences, FiniteSets

CONSTANTS
    NULL,
    Lines,        \* interrupt lines that devices raise; 8 and up: second PIC
    Events,       \* heap blocks of struct TimerEvent
    Word,         \* values of one machine word of the clock (2^32)
    MaxTicks,     \* bound: the clock stops here, interrupts go on
    MaxLocks,     \* bound: nesting of lock_scheduler
    MaxDepth      \* bound: frames on the stack (a handler is shorter than a tick)

ASSUME LinesAssumption == Lines \subseteq 0 .. 15 /\ 2 \notin Lines /\ {0, 1} \subseteq Lines
ASSUME BoundsAssumption ==
    /\ {Word, MaxTicks, MaxLocks, MaxDepth} \subseteq Nat \ {0}
    /\ NULL \notin Events /\ NULL \notin Int
ASSUME NullAssumption == NULL \notin {"irq_0_handler", "irq_1_handler", "kernel_task"}

VARIABLES
    intr,                  \* EFLAGS.IF
    stack,                 \* interrupt frames, the running one last
    irr, isr,              \* PICs: lines requested, lines in service
    irq_routines,          \* handler of each line
    timer_events, next, func,  \* the event list, and the fields of its nodes
    allocated,             \* event blocks the heap has handed out
    ticks_since_boot,      \* two words: [lo, hi]
    IRQ_disable_counter,
    current_task_PCB,
    pc, back,              \* kernel_main: next statement, return address of a call
    new_event,             \* local of install_timer_event
    rd,                    \* local of read_ticks_since_boot: the words loaded
    now, start,            \* history: timer handler runs; at the start of a read
    installed, ran         \* history: events published; run by the walk in progress

pic == <<irr, isr>>
list == <<timer_events, next, func, allocated, installed>>
clock == <<ticks_since_boot, now>>
locals == <<back, new_event, rd, start>>
main == <<pc, locals, current_task_PCB, irq_routines>>
vars == <<intr, stack, pic, list, clock, IRQ_disable_counter, main, ran>>

(***************************************************************************)
(* The two interrupt controllers and the CPU's response to them: external. *)
(* A line of the second PIC is presented on line 2 of the first.  A PIC    *)
(* presents its request of highest priority (lowest number), and only if   *)
(* no line of that or of a higher priority is in service.                  *)
(***************************************************************************)
Level(line) == IF line >= 8 THEN 2 ELSE line

Presented(line) ==
    /\ line \in irr
    /\ \A other \in irr : Level(other) <= Level(line) => line <= other
    /\ \A busy \in isr : Level(line) < Level(busy)

raise(line) ==
    /\ pc # "abort"
    /\ irr' = irr \cup {line}
    /\ UNCHANGED <<intr, stack, isr, list, clock, IRQ_disable_counter, main, ran>>

\* A non-specific EOI ends the line of highest priority in service.
EndOfInterrupt(lines) == isr' = {l \in isr : l \notin lines \/ \E h \in isr \cap lines : h < l}
PIC1 == 0 .. 7
PIC2 == 8 .. 15

\* The gate of vector 32 + line clears IF; the stub saves the registers.
irq_common_stub(line) ==
    /\ pc \notin {"boot", "abort"}
    /\ intr /\ Presented(line) /\ Len(stack) < MaxDepth
    /\ irr' = irr \ {line}
    /\ isr' = isr \cup {line, Level(line)}
    /\ intr' = FALSE
    /\ stack' = Append(stack, [int_no |-> 32 + line, pc |-> "irq_handler", node |-> NULL])
    /\ UNCHANGED <<list, clock, IRQ_disable_counter, main, ran>>

(***************************************************************************)
(* irq_handler and the handlers it calls, in the topmost frame.            *)
(***************************************************************************)
Frame == stack[Len(stack)]
HandlerAt(place) == stack # << >> /\ pc # "abort" /\ Frame.pc = place

\* The running handler goes on at place, its cursor at n.
Goto(place, n) ==
    /\ stack' = [stack EXCEPT ![Len(stack)].pc = place, ![Len(stack)].node = n]
    /\ UNCHANGED <<list, IRQ_disable_counter, main>>

Routine == irq_routines[Frame.int_no - 32]
SendEoi == IF Frame.int_no >= 40 THEN "eoi2" ELSE "eoi1"

\* Defect: the EOI comes first, before the handler has run.
irq_handler_eoi_first ==
    /\ HandlerAt("irq_handler")
    /\ Goto(IF Routine = NULL THEN "iret" ELSE "handler", NULL)
    /\ EndOfInterrupt(PIC1)
    /\ UNCHANGED <<intr, irr, clock, ran>>

\* Defect: a line without a handler gets no EOI.
irq_handler_unhandled ==
    /\ HandlerAt("irq_handler")
    /\ Goto(IF Routine = NULL THEN "iret" ELSE "handler", NULL)
    /\ UNCHANGED <<intr, pic, clock, ran>>

irq_handler ==
    /\ HandlerAt("irq_handler")
    /\ Goto(IF Routine = NULL THEN SendEoi ELSE "handler", NULL)
    /\ UNCHANGED <<intr, pic, clock, ran>>

\* Defect: the increment loses the carry into the upper word.
increment_no_carry(words) == [words EXCEPT !.lo = (@ + 1) % Word]

\* ticks_since_boot++, with the carry into the upper word.
increment(words) ==
    [lo |-> (words.lo + 1) % Word,
     hi |-> IF words.lo + 1 = Word THEN (words.hi + 1) % Word ELSE words.hi]

irq_0_handler ==
    /\ HandlerAt("handler") /\ Routine = "irq_0_handler"
    /\ IF now = MaxTicks
       THEN UNCHANGED clock
       ELSE now' = now + 1 /\ ticks_since_boot' = increment(ticks_since_boot)
    /\ Goto("walk", timer_events)
    /\ UNCHANGED <<intr, pic, ran>>

\* An event: internal_update_awoken_taskes works between lock_scheduler and
\* unlock_scheduler, and the unlock sets IF when no other lock is open.
run_event ==
    /\ HandlerAt("walk") /\ Frame.node # NULL
    /\ ran' = Append(ran, Frame.node)
    /\ intr' = IF func[Frame.node] = "locks" THEN IRQ_disable_counter = 0 ELSE intr
    /\ Goto("next", Frame.node)
    /\ UNCHANGED <<pic, clock>>

next_event ==
    /\ HandlerAt("next")
    /\ Goto("walk", next[Frame.node])
    /\ UNCHANGED <<intr, pic, clock, ran>>

irq_0_return ==
    /\ HandlerAt("walk") /\ Frame.node = NULL
    /\ Goto(SendEoi, NULL)
    /\ ran' = << >>
    /\ UNCHANGED <<intr, pic, clock>>

\* The keyboard handler prints a key and never touches IF (Console.tla).
irq_1_handler ==
    /\ HandlerAt("handler") /\ Routine = "irq_1_handler"
    /\ Goto(SendEoi, NULL)
    /\ UNCHANGED <<intr, pic, clock, ran>>

\* Defect: the second PIC gets no EOI of its own.
eoi_slave_missing ==
    /\ HandlerAt("eoi2")
    /\ Goto("eoi1", NULL)
    /\ UNCHANGED <<intr, pic, clock, ran>>

eoi_slave ==
    /\ HandlerAt("eoi2")
    /\ EndOfInterrupt(PIC2)
    /\ Goto("eoi1", NULL)
    /\ UNCHANGED <<intr, irr, clock, ran>>

eoi_master ==
    /\ HandlerAt("eoi1")
    /\ EndOfInterrupt(PIC1)
    /\ Goto("iret", NULL)
    /\ UNCHANGED <<intr, irr, clock, ran>>

\* sti takes effect after the next instruction, iret, which restores a set IF.
iret ==
    /\ HandlerAt("iret")
    /\ intr' = TRUE
    /\ stack' = SubSeq(stack, 1, Len(stack) - 1)
    /\ UNCHANGED <<pic, list, clock, IRQ_disable_counter, main, ran>>

(***************************************************************************)
(* kernel_main.  Main(from, to): it executes the statement at from.        *)
(***************************************************************************)
Main(from, to) ==
    /\ pc = from /\ stack = << >>
    /\ pc' = to
    /\ UNCHANGED <<stack, now, ran>>

\* What most statements leave alone.
machine == <<pic, ticks_since_boot, irq_routines>>

\* IF after kmalloc, kfree or any other region that locks and unlocks.
Unlocked == intr' = (IRQ_disable_counter = 0)

\* Initialising the PICs forgets what they had; _idt_flush ends with sti.
idt_init ==
    /\ Main("boot", "timer_init")
    /\ irr' = {} /\ isr' = {}
    /\ intr' = TRUE
    /\ UNCHANGED <<ticks_since_boot, irq_routines, list, IRQ_disable_counter, locals,
                   current_task_PCB>>

timer_init ==
    /\ Main("timer_init", "timer_install")
    /\ ticks_since_boot' = [lo |-> 0, hi |-> 0]
    /\ UNCHANGED <<intr, pic, irq_routines, list, IRQ_disable_counter, locals, current_task_PCB>>

irq_install_handler(from, line, handler, to) ==
    /\ Main(from, to)
    /\ irq_routines' = [irq_routines EXCEPT ![line] = handler]
    /\ UNCHANGED <<intr, pic, ticks_since_boot, list, IRQ_disable_counter, locals,
                   current_task_PCB>>

irq_uninstall_handler(line) == irq_install_handler("run", line, NULL, "run")

\* A CPU exception in kernel_main's code: isr_handler aborts, and abort() halts
\* with interrupts off.
isr_handler ==
    /\ Main("run", "abort")
    /\ intr' = FALSE
    /\ UNCHANGED <<machine, list, IRQ_disable_counter, locals, current_task_PCB>>

abort_loop == pc = "abort" /\ UNCHANGED vars

multitasking_cli ==
    /\ Main("multitasking_initialize", "multitasking_kmalloc")
    /\ intr' = FALSE
    /\ UNCHANGED <<machine, list, IRQ_disable_counter, locals, current_task_PCB>>

\* Defect: the timer event is installed before there is a current task.
multitasking_installs_first ==
    /\ Main("multitasking_kmalloc", "install_timer_event")
    /\ Unlocked
    /\ back' = "multitasking_task"
    /\ UNCHANGED <<machine, list, IRQ_disable_counter, new_event, rd, start, current_task_PCB>>

\* The unlock in kmalloc sets IF again: from here on the cli has no effect.
multitasking_kmalloc ==
    /\ Main("multitasking_kmalloc", "multitasking_task")
    /\ Unlocked
    /\ UNCHANGED <<machine, list, IRQ_disable_counter, locals, current_task_PCB>>

multitasking_abort ==
    /\ Main("multitasking_kmalloc", "abort")
    /\ intr' = FALSE
    /\ UNCHANGED <<machine, list, IRQ_disable_counter, locals, current_task_PCB>>

\* The kernel task is current; on to last_tick = read_ticks_since_boot().
multitasking_task ==
    /\ Main("multitasking_task", "read_first")
    /\ current_task_PCB' = "kernel_task"
    /\ back' = "install_timer_event"
    /\ UNCHANGED <<intr, machine, list, IRQ_disable_counter, new_event, rd, start>>

multitasking_reset ==
    /\ Main("multitasking_reset", "multitasking_sti")
    /\ IRQ_disable_counter' = 0
    /\ UNCHANGED <<intr, machine, list, locals, current_task_PCB>>

multitasking_sti ==
    /\ Main("multitasking_sti", "keyboard_init")
    /\ intr' = TRUE
    /\ UNCHANGED <<machine, list, IRQ_disable_counter, locals, current_task_PCB>>

lock_scheduler ==
    /\ Main("run", "run")
    /\ IRQ_disable_counter < MaxLocks
    /\ intr' = FALSE
    /\ IRQ_disable_counter' = IRQ_disable_counter + 1
    /\ UNCHANGED <<machine, list, locals, current_task_PCB>>

unlock_scheduler ==
    /\ Main("run", "run")
    /\ IRQ_disable_counter > 0
    /\ IRQ_disable_counter' = IRQ_disable_counter - 1
    /\ intr' = IF IRQ_disable_counter = 1 THEN TRUE ELSE intr
    /\ UNCHANGED <<machine, list, locals, current_task_PCB>>

\* Code that runs once everything is installed calls one of the two below.
call(place) ==
    /\ Main("run", place)
    /\ back' = "run"
    /\ UNCHANGED <<intr, machine, list, IRQ_disable_counter, new_event, rd, start,
                   current_task_PCB>>

(***************************************************************************)
(* read_ticks_since_boot: two loads, in the order the compiler chose.      *)
(***************************************************************************)
Value(words) == words.hi * Word + words.lo

read_first(w) ==
    /\ Main("read_first", "read_second")
    /\ rd' = [rd EXCEPT ![w] = ticks_since_boot[w]]
    /\ start' = now
    /\ UNCHANGED <<intr, machine, list, IRQ_disable_counter, back, new_event, current_task_PCB>>

read_second ==
    /\ Main("read_second", "read_return")
    /\ rd' = [w \in {"lo", "hi"} |-> IF rd[w] = NULL THEN ticks_since_boot[w] ELSE rd[w]]
    /\ UNCHANGED <<intr, machine, list, IRQ_disable_counter, back, new_event, start,
                   current_task_PCB>>

\* Back to the caller; last_tick, which multitasking_initialize stores the value
\* in before it installs its event, is a variable of Scheduler.tla.
read_return ==
    /\ Main("read_return", back)
    /\ back' = IF back = "run" THEN NULL ELSE "multitasking_reset"
    /\ rd' = [lo |-> NULL, hi |-> NULL] /\ start' = 0
    /\ UNCHANGED <<intr, machine, list, IRQ_disable_counter, new_event, current_task_PCB>>

(***************************************************************************)
(* install_timer_event and uninstall_timer_event                           *)
(***************************************************************************)
\* Without memory nothing is installed; multitasking_initialize does not look.
install_no_memory ==
    /\ Main("install_timer_event", back)
    /\ Unlocked
    /\ back' = NULL
    /\ UNCHANGED <<machine, list, IRQ_disable_counter, new_event, rd, start, current_task_PCB>>

\* kmalloc and the fields of the new node; during start-up the event is the
\* scheduler's wake-up pass, which locks.
install_kmalloc(event, kind) ==
    /\ Main("install_timer_event", "install_link")
    /\ event \notin allocated
    /\ back # "run" => kind = "locks"
    /\ allocated' = allocated \cup {event}
    /\ func' = [func EXCEPT ![event] = kind]
    /\ next' = [next EXCEPT ![event] = NULL]
    /\ new_event' = event
    /\ Unlocked
    /\ UNCHANGED <<machine, timer_events, installed, IRQ_disable_counter, back, rd, start,
                   current_task_PCB>>

\* Defect: the new node is not linked to the rest of the list.
install_unlinked ==
    /\ Main("install_link", "install_publish")
    /\ UNCHANGED <<intr, machine, list, IRQ_disable_counter, locals, current_task_PCB>>

install_link ==
    /\ Main("install_link", "install_publish")
    /\ next' = [next EXCEPT ![new_event] = timer_events]
    /\ UNCHANGED <<intr, machine, timer_events, func, allocated, installed,
                   IRQ_disable_counter, locals, current_task_PCB>>

install_publish ==
    /\ Main("install_publish", back)
    /\ timer_events' = new_event
    /\ installed' = installed \cup {new_event}
    /\ new_event' = NULL /\ back' = NULL
    /\ UNCHANGED <<intr, machine, next, func, allocated, IRQ_disable_counter, rd, start,
                   current_task_PCB>>

\* Unlink the event and free it, with the scheduler locked; what a freed block
\* holds is nobody's.
uninstall_timer_event(event) ==
    /\ Main("run", "run")
    /\ timer_events' = IF timer_events = event THEN next[event] ELSE timer_events
    /\ next' = [e \in Events |-> CASE e = event -> NULL
                                   [] e \in installed /\ next[e] = event -> next[event]
                                   [] OTHER -> next[e]]
    /\ func' = [func EXCEPT ![event] = NULL]
    /\ allocated' = allocated \ {event}
    /\ installed' = installed \ {event}
    /\ Unlocked
    /\ UNCHANGED <<machine, IRQ_disable_counter, locals, current_task_PCB>>

(***************************************************************************)
(* Specification                                                           *)
(***************************************************************************)
Init ==
    /\ intr = FALSE /\ stack = << >>
    /\ irr = {} /\ isr = {}
    /\ irq_routines = [l \in 0 .. 15 |-> NULL]
    /\ timer_events = NULL /\ allocated = {} /\ installed = {} /\ ran = << >>
    /\ next = [e \in Events |-> NULL] /\ func = [e \in Events |-> NULL]
    /\ ticks_since_boot = [lo |-> 0, hi |-> 0] /\ now = 0 /\ start = 0
    /\ IRQ_disable_counter = 0
    /\ current_task_PCB = NULL
    /\ pc = "boot" /\ back = NULL /\ new_event = NULL
    /\ rd = [lo |-> NULL, hi |-> NULL]

Handler ==
    \/ irq_handler \/ irq_0_handler \/ run_event \/ next_event \/ irq_0_return \/ irq_1_handler
    \/ eoi_slave \/ eoi_master \/ iret

\* What kernel_main has begun it goes on with.
Proceed ==
    \/ idt_init \/ timer_init
    \/ irq_install_handler("timer_install", 0, "irq_0_handler", "multitasking_initialize")
    \/ multitasking_cli \/ multitasking_kmalloc \/ multitasking_abort \/ multitasking_task
    \/ multitasking_reset \/ multitasking_sti
    \/ irq_install_handler("keyboard_init", 1, "irq_1_handler", "run")
    \/ read_first("lo") \/ read_first("hi") \/ read_second \/ read_return
    \/ install_no_memory \/ install_link \/ install_publish
    \/ \E event \in Events, kind \in {"locks", "plain"} : install_kmalloc(event, kind)

\* What it may do once everything is installed.
Choose ==
    \/ lock_scheduler \/ unlock_scheduler
    \/ call("read_first") \/ call("install_timer_event")
    \/ \E event \in installed : uninstall_timer_event(event)
    \/ irq_install_handler("run", 1, "irq_1_handler", "run")
    \/ irq_uninstall_handler(1)

Device == \E line \in Lines : raise(line) \/ irq_common_stub(line)

Next == Handler \/ Proceed \/ Choose \/ Device \/ isr_handler \/ abort_loop

Spec == Init /\ [][Next]_vars

\* A handler runs on; kernel_main does not starve, since a handler is shorter
\* than the time between two ticks, and leaves its locked regions, at every
\* nesting; the PIC keeps presenting the timer.
Fairness ==
    /\ WF_vars(Handler)
    /\ SF_vars(Proceed)
    /\ \A n \in 1 .. MaxLocks : SF_vars(IRQ_disable_counter = n /\ unlock_scheduler)
    /\ SF_vars(irq_common_stub(0))
FairSpec == Spec /\ Fairness

(***************************************************************************)
(* Properties                                                              *)
(***************************************************************************)
\* At most one handler is at work, whatever nests: every frame below the running
\* one has sent its EOI and has only its iret left.  Scheduler and Console rely on
\* it when they run a handler without another one inside.
HandlersExclusive ==
    \A i \in 1 .. Len(stack) : i < Len(stack) => stack[i].pc = "iret"

\* The lines a frame still has to end.
Owes(f) ==
    CASE f.pc = "iret" -> {}
      [] f.pc = "eoi1" -> {Level(f.int_no - 32)}
      [] OTHER -> {f.int_no - 32, Level(f.int_no - 32)}

\* The EOI of irq_handler names no line: over all nestings and both PICs it ends
\* the interrupt its own frame is handling, and no line stays in service for
\* which no frame is left to end it.
InServiceMatches ==
    pc # "abort" => isr = UNION {Owes(stack[i]) : i \in 1 .. Len(stack)}

\* "installed func will run every timer tick" (timer.h): when irq_0_handler is at
\* the end of the list every installed event has run, once, and the walk touches
\* nothing but installed events, however kernel_main's unlocked install and its
\* uninstall interleave with ticks.
EventsRunOnce ==
    \A i \in 1 .. Len(stack) :
        /\ stack[i].node # NULL => stack[i].node \in installed \cap allocated
        /\ (stack[i].pc = "walk" /\ stack[i].node = NULL) =>
            /\ Len(ran) = Cardinality(installed)
            /\ \A e \in installed : \E j \in 1 .. Len(ran) : ran[j] = e

\* No event runs before multitasking_initialize has set what the wake-up pass and
\* its unlock_scheduler() use, although its cli has been undone by then.
EventsAfterInit == ran # << >> => current_task_PCB # NULL

\* A clock reading lies between the clock at its start and at its end, unless the
\* upper word changed while the two words were read.
ClockReadSound ==
    (pc = "read_return" /\ start \div Word = now \div Word) =>
        start <= Value(rd) /\ Value(rd) <= now

\* Every timer interrupt is served, also those before a handler is installed and
\* those that arrive while another line, or kernel_main, holds interrupts off.
TimerServed == (0 \in irr /\ pc # "boot") ~> (0 \notin irr \/ pc = "abort")
=============================================================================
