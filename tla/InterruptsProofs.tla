-------------------------- MODULE InterruptsProofs --------------------------
(***************************************************************************)
(* Proofs about interrupt entry, the timer and the start-up of             *)
(* kernel_main, for any set of lines and events, any width of the clock's  *)
(* words and any depth of nesting.                                         *)
(***************************************************************************)
EXTENDS Interrupts, NumberLemmas, FiniteSetTheorems, SequenceTheorems, TLAPS

Places == {"irq_handler", "handler", "walk", "next", "eoi2", "eoi1", "iret"}
Frames == [int_no : 32 .. 47, pc : Places, node : Events \cup {NULL}]

(***************************************************************************)
(* The inductive invariant, in four parts.                                 *)
(***************************************************************************)
\* The interrupt stack and the PICs.  Only the timer's handler runs with IF set,
\* and while it is at work line 0 is in service, which holds back every line.
StackInv ==
    /\ stack \in Seq(Frames)
    /\ intr \in BOOLEAN
    /\ HandlersExclusive
    /\ irq_routines \in [0 .. 15 -> {NULL, "irq_0_handler", "irq_1_handler"}]
    /\ \A line \in 0 .. 15 : irq_routines[line] = "irq_0_handler" => line = 0
    /\ stack # << >> =>
        /\ Frame.pc \in {"walk", "next"} => Frame.int_no = 32
        /\ Frame.pc = "iret" \/ Frame.int_no = 32 \/ ~intr
    /\ isr = IF stack = << >> THEN {} ELSE Owes(Frame)

\* The i-th event of a list, NULL behind its end.
At(s, i) == IF i <= Len(s) THEN s[i] ELSE NULL

\* s is the list of installed events, from timer_events on.
Chain(s) ==
    /\ \A i, j \in 1 .. Len(s) : s[i] = s[j] => i = j
    /\ installed = {s[i] : i \in 1 .. Len(s)}
    /\ timer_events = At(s, 1)
    /\ \A i \in 1 .. Len(s) : next[s[i]] = At(s, i + 1)

\* The events of s that have run are those before the cursor of the walk.
Walked(s) ==
    /\ Len(ran) <= Len(s) /\ \A j \in 1 .. Len(ran) : ran[j] = s[j]
    /\ (stack = << >> \/ Frame.pc \notin {"walk", "next"}) => ran = << >>
    /\ stack # << >> =>
        /\ Frame.pc = "walk" => Frame.node = At(s, Len(ran) + 1)
        /\ Frame.pc = "next" => Len(ran) > 0 /\ Frame.node = s[Len(ran)]

\* The event list, also while install_timer_event has a node half linked.
ListInv ==
    /\ ran \in Seq(Events)
    /\ next \in [Events -> Events \cup {NULL}]
    /\ installed \subseteq allocated /\ allocated \subseteq Events
    /\ \E s \in Seq(Events) : Chain(s) /\ Walked(s)
    /\ \A i \in 1 .. Len(stack) : stack[i].pc \notin {"walk", "next"} => stack[i].node = NULL
    /\ pc \in {"install_link", "install_publish"} => new_event \in allocated \ installed
    /\ pc = "install_publish" => next[new_event] = timer_events

Early == {"boot", "timer_init", "timer_install", "multitasking_initialize",
          "multitasking_kmalloc", "multitasking_task"}
Reading == {"read_first", "read_second", "read_return"}
Installing == {"install_timer_event", "install_link", "install_publish"}
Later == {"multitasking_reset", "multitasking_sti", "keyboard_init", "run"}

\* Where kernel_main is, and what is in place by then.
StartInv ==
    /\ pc \in Early \cup Reading \cup Installing \cup Later \cup {"abort"}
    /\ pc \in Reading => back \in {"run", "install_timer_event"}
    /\ pc \in Installing => back \in {"run", "multitasking_reset"}
    /\ pc \in Reading \cup Installing \cup Later => current_task_PCB # NULL
    /\ installed # {} => current_task_PCB # NULL
    /\ pc \in {"boot", "timer_init", "timer_install"} => irq_routines[0] = NULL

\* The two words are the clock, and what read_ticks_since_boot has loaded of them
\* it loaded at start and later.
ClockInv ==
    /\ now \in 0 .. MaxTicks
    /\ pc \in {"boot", "timer_init", "timer_install"} => now = 0
    /\ ticks_since_boot = [lo |-> now % Word, hi |-> now \div Word]
    /\ pc = "read_first" => rd = [lo |-> NULL, hi |-> NULL]
    /\ pc = "read_second" =>
        /\ start \in 0 .. now
        /\ \/ rd = [lo |-> start % Word, hi |-> NULL]
           \/ rd = [lo |-> NULL, hi |-> start \div Word]
    /\ pc = "read_return" =>
        /\ start \in 0 .. now
        /\ \E n \in start .. now :
            \/ rd = [lo |-> start % Word, hi |-> n \div Word]
            \/ rd = [lo |-> n % Word, hi |-> start \div Word]
    /\ pc \notin Reading => rd = [lo |-> NULL, hi |-> NULL]

\* The 64-bit clock does not run over.
NoWrap == MaxTicks < Word * Word

IInv == StackInv /\ ListInv /\ StartInv /\ (NoWrap => ClockInv)

(***************************************************************************)
(* Steps of the topmost frame.                                             *)
(***************************************************************************)
\* The running handler moves on: nothing but the place and the cursor of the
\* topmost frame changes.
LEMMA GotoFrame ==
  ASSUME stack \in Seq(Frames), stack # << >>, NEW place \in Places, NEW n \in Events \cup {NULL},
         Goto(place, n)
  PROVE  /\ stack' \in Seq(Frames) /\ Len(stack') = Len(stack) /\ stack' # << >>
         /\ \A i \in 1 .. Len(stack) : i # Len(stack) => stack'[i] = stack[i]
         /\ Frame'.int_no = Frame.int_no /\ Frame'.pc = place /\ Frame'.node = n
         /\ Frame \in Frames
<1>1. /\ Len(stack) \in 1 .. Len(stack) /\ Frame \in Frames
  BY DEF Frame
<1> DEFINE top == Len(stack)
           s == [stack EXCEPT ![top].pc = place]
<1>2. /\ s \in Seq(Frames) /\ Len(s) = Len(stack) /\ s[top] \in Frames
      /\ \A i \in 1 .. Len(stack) : i # top => s[i] = stack[i]
      /\ s[top].int_no = Frame.int_no /\ s[top].pc = place
  BY <1>1 DEF Frame, Frames
<1>3. stack' = [s EXCEPT ![top].node = n]
  BY <1>1 DEF Goto
<1> HIDE DEF s
<1>4. /\ stack' \in Seq(Frames) /\ Len(stack') = Len(stack)
      /\ \A i \in 1 .. Len(stack) : i # top => stack'[i] = s[i]
      /\ stack'[top].int_no = s[top].int_no /\ stack'[top].pc = s[top].pc /\ stack'[top].node = n
  <2> DEFINE f == [s[top] EXCEPT !.node = n]
  <2>1. f \in Frames /\ f.int_no = s[top].int_no /\ f.pc = s[top].pc /\ f.node = n
    BY <1>2 DEF Frames
  <2>2. stack' = [s EXCEPT ![top] = f]
    BY <1>3
  <2> HIDE DEF f
  <2> QED
    BY <2>1, <2>2, <1>1, <1>2
<1> QED
  BY <1>1, <1>2, <1>4 DEF Frame

\* StackInv after a step of the topmost frame.
LEMMA GotoStack ==
  ASSUME StackInv, stack # << >>, NEW place \in Places, NEW n \in Events \cup {NULL},
         Goto(place, n),
         place \in {"walk", "next"} => Frame.int_no = 32,
         intr' \in BOOLEAN,
         place = "iret" \/ Frame.int_no = 32 \/ ~intr',
         isr' = Owes([int_no |-> Frame.int_no, pc |-> place, node |-> n])
  PROVE  StackInv'
<1>1. /\ stack' \in Seq(Frames) /\ Len(stack') = Len(stack) /\ stack' # << >>
      /\ \A i \in 1 .. Len(stack) : i # Len(stack) => stack'[i] = stack[i]
      /\ Frame'.int_no = Frame.int_no /\ Frame'.pc = place /\ Frame'.node = n
  BY GotoFrame DEF StackInv
<1>2. irq_routines' = irq_routines
  BY DEF Goto, main
<1>3. HandlersExclusive'
  BY <1>1 DEF StackInv, HandlersExclusive
<1>4. Owes([int_no |-> Frame.int_no, pc |-> place, node |-> n]) = Owes(Frame)'
  BY <1>1 DEF Owes
<1> QED
  BY <1>1, <1>2, <1>3, <1>4 DEF StackInv

\* The stack without its last frame.
LEMMA Popped ==
  ASSUME NEW t \in Seq(Frames), t # << >>
  PROVE  LET u == SubSeq(t, 1, Len(t) - 1) IN
         /\ u \in Seq(Frames) /\ Len(u) = Len(t) - 1
         /\ \A i \in 1 .. Len(u) : u[i] = t[i]
<1> DEFINE n == Len(t) - 1
           u == SubSeq(t, 1, n)
<1>1. n \in Nat /\ n \in Int /\ 1 \in Int /\ \A i \in 1 .. n : t[i] \in Frames
  OBVIOUS
<1> HIDE DEF n
<1>2. /\ u \in Seq(Frames)
      /\ Len(u) = IF 1 <= n THEN n - 1 + 1 ELSE 0
      /\ \A i \in 1 .. n - 1 + 1 : u[i] = t[1 + i - 1]
  BY <1>1, SubSeqProperties
<1>3. n - 1 + 1 = n /\ \A i \in 1 .. n : 1 + i - 1 = i
  BY <1>1
<1>4. Len(u) = n /\ \A i \in 1 .. n : u[i] = t[i]
  BY <1>1, <1>2, <1>3
<1> QED
  BY <1>2, <1>4 DEF n

\* The handler that an iret goes back to, if any, has only its own iret left.
LEMMA IretBelow ==
  ASSUME StackInv, iret, stack' # << >>
  PROVE  Frame'.pc = "iret"
<1>1. stack \in Seq(Frames) /\ stack # << >> /\ stack' = SubSeq(stack, 1, Len(stack) - 1)
  BY DEF StackInv, iret, HandlerAt
<1>2. /\ stack' \in Seq(Frames) /\ Len(stack') = Len(stack) - 1
      /\ \A i \in 1 .. Len(stack') : stack'[i] = stack[i]
  BY <1>1, Popped
<1>3. Len(stack') \in 1 .. Len(stack') /\ Len(stack') < Len(stack) /\ Len(stack) \in Nat
  BY <1>1, <1>2
<1>4. stack'[Len(stack')].pc = "iret"
  <2> DEFINE k == Len(stack')
  <2>1. k \in 1 .. Len(stack) /\ k < Len(stack) /\ stack'[k] = stack[k]
    BY <1>2, <1>3
  <2>2. HandlersExclusive
    BY DEF StackInv
  <2> QED
    BY <2>1, <2>2 DEF HandlersExclusive
<1> QED
  BY <1>4 DEF Frame

\* A step of the handler that runs keeps the order of the frames.
LEMMA HandlerStack ==
  ASSUME StackInv, ListInv, Handler
  PROVE  StackInv'
<1>0. /\ stack # << >> /\ Frame \in Frames /\ Frame.int_no \in 32 .. 47
      /\ Len(stack) \in 1 .. Len(stack) /\ isr = Owes(Frame)
  <2>1. stack # << >>
    BY DEF Handler, irq_handler, irq_0_handler, run_event, next_event, irq_0_return, irq_1_handler,
           eoi_slave, eoi_master, iret, HandlerAt
  <2>2. Len(stack) \in 1 .. Len(stack) /\ Frame \in Frames /\ isr = Owes(Frame)
    BY <2>1 DEF StackInv, Frame
  <2> QED
    BY <2>1, <2>2 DEF Frames
<1>1. /\ SendEoi \in {"eoi1", "eoi2"}
      /\ SendEoi = "eoi1" => Level(Frame.int_no - 32) = Frame.int_no - 32
  BY <1>0 DEF SendEoi, Level
<1> DEFINE Moved(place, n) == [int_no |-> Frame.int_no, pc |-> place, node |-> n]
<1>2. \A place \in Places, n \in Events \cup {NULL} : Moved(place, n) \in Frames
  BY <1>0 DEF Frames
<1>3. \A place \in Places \ {"eoi1", "iret"}, n \in Events \cup {NULL} :
        Owes(Moved(place, n)) = {Frame.int_no - 32, Level(Frame.int_no - 32)}
  BY DEF Owes
<1>4. Frame.pc \notin {"iret", "eoi1"} => isr = {Frame.int_no - 32, Level(Frame.int_no - 32)}
  BY <1>0 DEF Owes
<1>5. Frame.pc \notin {"iret", "eoi1"} => isr = Owes(Moved(SendEoi, NULL))
  <2>1. CASE SendEoi = "eoi2"
    BY <2>1, <1>4 DEF Owes
  <2>2. CASE SendEoi = "eoi1"
    <3>1. Owes(Moved(SendEoi, NULL)) = {Level(Frame.int_no - 32)}
      BY <2>2 DEF Owes
    <3> QED
      BY <3>1, <2>2, <1>1, <1>4
  <2> QED
    BY <2>1, <2>2, <1>1
<1> HIDE DEF Moved
<1>6. CASE irq_handler
  <2>1. /\ Frame.pc = "irq_handler" /\ intr' = intr /\ isr' = isr
        /\ Goto(SendEoi, NULL) \/ Goto("handler", NULL)
    BY <1>6 DEF irq_handler, HandlerAt, pic
  <2>2. isr = Owes(Moved("handler", NULL)) /\ isr = Owes(Moved(SendEoi, NULL))
    BY <2>1, <1>3, <1>4, <1>5 DEF Places
  <2>3. Frame.int_no = 32 \/ ~intr
    BY <2>1, <1>0 DEF StackInv
  <2>4. intr' \in BOOLEAN /\ (Frame.int_no = 32 \/ ~intr') /\ isr' = isr /\ NULL \in Events \cup {NULL}
    BY <2>1, <2>3 DEF StackInv
  <2>5. CASE Goto("handler", NULL)
    <3>1. isr' = Owes([int_no |-> Frame.int_no, pc |-> "handler", node |-> NULL])
      BY <2>2, <2>4 DEF Moved
    <3>2. "handler" \in Places /\ "handler" \notin {"walk", "next"}
      BY DEF Places
    <3> QED
      BY <2>4, <2>5, <3>1, <3>2, <1>0, GotoStack
  <2>6. CASE Goto(SendEoi, NULL)
    <3>1. isr' = Owes([int_no |-> Frame.int_no, pc |-> SendEoi, node |-> NULL])
      BY <2>2, <2>4 DEF Moved
    <3>2. SendEoi \in Places /\ SendEoi \notin {"walk", "next"}
      BY <1>1 DEF Places
    <3> QED
      BY <2>4, <2>6, <3>1, <3>2, <1>0, GotoStack
  <2> QED
    BY <2>1, <2>5, <2>6
<1>7. CASE irq_0_handler
  <2>1. /\ Frame.pc = "handler" /\ Routine = "irq_0_handler" /\ Goto("walk", timer_events)
        /\ intr' = intr /\ isr' = isr
    BY <1>7 DEF irq_0_handler, HandlerAt, pic
  <2>2. Frame.int_no = 32
    <3>1. Frame.int_no - 32 \in 0 .. 15 /\ irq_routines[Frame.int_no - 32] = "irq_0_handler"
      BY <2>1, <1>0 DEF Routine
    <3>2. Frame.int_no - 32 = 0
      BY <3>1 DEF StackInv
    <3> QED
      BY <3>2, <1>0
  <2>3. timer_events \in Events \cup {NULL}
    BY DEF ListInv, Chain, At
  <2>4. isr = Owes(Moved("walk", timer_events))
    BY <2>1, <2>3, <1>3, <1>4 DEF Places
  <2> QED
    BY <2>1, <2>2, <2>3, <2>4, <1>0, GotoStack DEF Places, Moved, StackInv
<1>8. CASE run_event
  <2>1. /\ Frame.pc = "walk" /\ Goto("next", Frame.node) /\ isr' = isr
        /\ intr' \in {IRQ_disable_counter = 0, intr}
    BY <1>8 DEF run_event, HandlerAt, pic
  <2>2. intr' \in BOOLEAN /\ Frame.int_no = 32 /\ Frame.node \in Events \cup {NULL}
    BY <2>1, <1>0 DEF StackInv, Frames
  <2>3. isr = Owes(Moved("next", Frame.node))
    BY <2>1, <2>2, <1>3, <1>4 DEF Places
  <2> QED
    BY <2>1, <2>2, <2>3, <1>0, GotoStack DEF Places, Moved
<1>9. CASE next_event
  <2>1. /\ Frame.pc = "next" /\ Goto("walk", next[Frame.node]) /\ isr' = isr /\ intr' = intr
    BY <1>9 DEF next_event, HandlerAt, pic
  <2>2. next[Frame.node] \in Events \cup {NULL}
    <3>1. Frame.node \in Events
      BY <2>1, <1>0 DEF ListInv, Walked
    <3> QED
      BY <3>1 DEF ListInv
  <2>3. isr = Owes(Moved("walk", next[Frame.node]))
    BY <2>1, <2>2, <1>3, <1>4 DEF Places
  <2>4. Frame.int_no = 32 /\ intr' \in BOOLEAN
    BY <2>1, <1>0 DEF StackInv
  <2> QED
    BY <2>1, <2>2, <2>3, <2>4, <1>0, GotoStack DEF Places, Moved
<1>10. CASE irq_0_return \/ irq_1_handler
  <2>1. /\ Frame.pc \in {"walk", "handler"} /\ Goto(SendEoi, NULL) /\ isr' = isr /\ intr' = intr
    BY <1>10 DEF irq_0_return, irq_1_handler, HandlerAt, pic
  <2>2. isr = Owes(Moved(SendEoi, NULL))
    BY <2>1, <1>5
  <2>3. (Frame.int_no = 32 \/ ~intr) /\ intr' \in BOOLEAN
    BY <2>1, <1>0 DEF StackInv
  <2> QED
    BY <2>1, <2>2, <2>3, <1>0, <1>1, GotoStack DEF Places, Moved
<1>11. CASE eoi_slave
  <2>1. /\ Frame.pc = "eoi2" /\ EndOfInterrupt(PIC2) /\ Goto("eoi1", NULL) /\ intr' = intr
    BY <1>11 DEF eoi_slave, HandlerAt
  <2>2. isr' = {Level(Frame.int_no - 32)}
    <3> DEFINE line == Frame.int_no - 32
    <3>1. line \in 0 .. 15 /\ isr = {line, Level(line)}
      BY <2>1, <1>0, <1>4
    <3>2. isr' = {l \in isr : l \notin 8 .. 15 \/ \E h \in isr \cap (8 .. 15) : h < l}
      BY <2>1 DEF EndOfInterrupt, PIC2
    <3> HIDE DEF line
    <3>3. CASE line >= 8
      <4>1. isr = {line, 2}
        BY <3>1, <3>3 DEF Level
      <4>2. isr' = {2}
        BY <3>1, <3>2, <3>3, <4>1
      <4> QED
        BY <4>2, <3>3, <3>1 DEF Level, line
    <3>4. CASE ~(line >= 8)
      <4>1. isr = {line}
        BY <3>1, <3>4 DEF Level
      <4>2. isr' = {line}
        BY <3>1, <3>2, <3>4, <4>1
      <4> QED
        BY <4>2, <3>4, <3>1 DEF Level, line
    <3> QED
      BY <3>3, <3>4
  <2>3. Owes(Moved("eoi1", NULL)) = {Level(Frame.int_no - 32)}
    BY DEF Owes, Moved
  <2>4. (Frame.int_no = 32 \/ ~intr) /\ intr' \in BOOLEAN
    BY <2>1, <1>0 DEF StackInv
  <2> QED
    BY <2>1, <2>2, <2>3, <2>4, <1>0, GotoStack DEF Places, Moved
<1>12. CASE eoi_master
  <2>1. /\ Frame.pc = "eoi1" /\ EndOfInterrupt(PIC1) /\ Goto("iret", NULL) /\ intr' = intr
    BY <1>12 DEF eoi_master, HandlerAt
  <2>2. isr = {Level(Frame.int_no - 32)}
    BY <2>1, <1>0 DEF Owes
  <2>3. isr' = {}
    <3>1. Level(Frame.int_no - 32) \in 0 .. 7
      BY <1>0 DEF Level
    <3>2. isr' = {l \in isr : l \notin 0 .. 7 \/ \E h \in isr \cap (0 .. 7) : h < l}
      BY <2>1 DEF EndOfInterrupt, PIC1
    <3> QED
      BY <3>1, <3>2, <2>2
  <2>4. Owes(Moved("iret", NULL)) = {} /\ intr' \in BOOLEAN
    BY <2>1 DEF Owes, Moved, StackInv
  <2> QED
    BY <2>1, <2>3, <2>4, <1>0, GotoStack DEF Places, Moved
<1>13. CASE iret
  <2>1. /\ Frame.pc = "iret" /\ intr' = TRUE /\ stack' = SubSeq(stack, 1, Len(stack) - 1)
        /\ isr' = isr /\ irq_routines' = irq_routines
    BY <1>13 DEF iret, HandlerAt, pic, main
  <2>2. /\ stack' \in Seq(Frames) /\ Len(stack') = Len(stack) - 1
        /\ \A i \in 1 .. Len(stack') : stack'[i] = stack[i]
    BY <2>1, <1>0, Popped DEF StackInv
  <2>3. isr = {}
    BY <2>1, <1>0 DEF Owes
  <2>4. HandlersExclusive'
    <3>1. Len(stack) \in Nat /\ Len(stack') \in Nat /\ Len(stack') < Len(stack)
      BY <2>2, <1>0
    <3>2. HandlersExclusive
      BY DEF StackInv
    <3>3. ASSUME NEW i \in 1 .. Len(stack'), i < Len(stack')
          PROVE  stack'[i].pc = "iret"
      <4>1. i \in 1 .. Len(stack) /\ i < Len(stack) /\ stack'[i] = stack[i]
        BY <3>1, <3>3, <2>2
      <4> QED
        BY <4>1, <3>2 DEF HandlersExclusive
    <3> QED
      BY <3>3 DEF HandlersExclusive
  <2>5. stack' # << >> => Frame'.pc = "iret"
    BY <1>13, IretBelow
  <2>6. stack' # << >> => Owes(Frame)' = {}
    BY <2>5 DEF Owes
  <2> QED
    BY <2>1, <2>2, <2>3, <2>4, <2>5, <2>6 DEF StackInv
<1> QED
  BY <1>6, <1>7, <1>8, <1>9, <1>10, <1>11, <1>12, <1>13 DEF Handler

\* An interrupt comes in only when no handler is at work: the PICs hold it back
\* while line 0 is in service, and IF does in every other handler.
LEMMA EntryIdle ==
  ASSUME StackInv, NEW line \in Lines, irq_common_stub(line)
  PROVE  (stack = << >> \/ Frame.pc = "iret") /\ isr = {}
<1> SUFFICES ASSUME stack # << >>
             PROVE  Frame.pc = "iret" /\ isr = {}
  BY DEF StackInv
<1>1. /\ intr /\ line \in irr /\ \A busy \in isr : Level(line) < Level(busy)
  BY DEF irq_common_stub, Presented
<1>2. Frame.pc # "iret" => 0 \in isr
  <2> SUFFICES ASSUME Frame.pc # "iret" PROVE 0 \in isr
    OBVIOUS
  <2>1. Frame.int_no = 32 /\ isr = Owes(Frame)
    BY <1>1 DEF StackInv
  <2>2. Frame.int_no - 32 = 0 /\ Level(0) = 0
    BY <2>1 DEF Level
  <2> QED
    BY <2>1, <2>2 DEF Owes
<1>3. Frame.pc = "iret"
  <2> SUFFICES ASSUME 0 \in isr PROVE FALSE
    BY <1>2
  <2>1. Level(0) = 0
    BY DEF Level
  <2>2. line \in 0 .. 15
    BY LinesAssumption
  <2>3. Level(line) < 0
    BY <2>1, <1>1
  <2> QED
    BY <2>2, <2>3 DEF Level
<1> QED
  BY <1>3 DEF StackInv, Owes

\* irq_common_stub pushes one frame, only where the PIC and IF let it.
LEMMA DeviceStack ==
  ASSUME StackInv, NEW line \in Lines, irq_common_stub(line)
  PROVE  /\ StackInv' /\ stack' # << >>
         /\ Len(stack') = Len(stack) + 1
         /\ \A i \in 1 .. Len(stack) : stack'[i] = stack[i]
         /\ stack'[Len(stack')].pc = "irq_handler" /\ stack'[Len(stack')].node = NULL
<1> DEFINE f == [int_no |-> 32 + line, pc |-> "irq_handler", node |-> NULL]
<1>1. /\ stack' = Append(stack, f) /\ intr' = FALSE /\ isr' = isr \cup {line, Level(line)}
      /\ irq_routines' = irq_routines
  BY DEF irq_common_stub, main
<1>2. (stack = << >> \/ Frame.pc = "iret") /\ isr = {}
  BY EntryIdle
<1>3. line \in 0 .. 15
  BY LinesAssumption
<1>4. f \in Frames /\ f.pc = "irq_handler" /\ f.int_no = 32 + line /\ f.node = NULL
  BY <1>3 DEF Frames, Places
<1> HIDE DEF f
<1>5. /\ stack' \in Seq(Frames) /\ Len(stack') = Len(stack) + 1 /\ stack' # << >>
      /\ \A i \in 1 .. Len(stack) : stack'[i] = stack[i]
      /\ stack'[Len(stack) + 1] = f
  <2>1. stack \in Seq(Frames) /\ f \in Frames
    BY <1>4 DEF StackInv
  <2>2. Len(stack') = Len(stack) + 1 /\ Len(stack) \in Nat
    BY <1>1, <2>1
  <2>3. stack' # << >>
    BY <2>2
  <2>4. \A i \in 1 .. Len(stack) : stack'[i] = stack[i]
    BY <1>1, <2>1
  <2>5. stack'[Len(stack) + 1] = f
    BY <1>1, <2>1
  <2>6. stack' \in Seq(Frames)
    BY <1>1, <2>1
  <2> QED
    BY <2>2, <2>3, <2>4, <2>5, <2>6
<1>6. Frame' = f
  BY <1>5 DEF Frame
<1>7. HandlersExclusive'
  <2> SUFFICES ASSUME NEW i \in 1 .. Len(stack'), i < Len(stack')
               PROVE  stack'[i].pc = "iret"
    BY DEF HandlersExclusive
  <2>1. i \in 1 .. Len(stack) /\ stack'[i] = stack[i] /\ Len(stack) \in Nat
    BY <1>5 DEF StackInv
  <2>2. CASE i < Len(stack)
    <3>1. HandlersExclusive
      BY DEF StackInv
    <3> QED
      BY <2>1, <2>2, <3>1 DEF HandlersExclusive
  <2>3. CASE i = Len(stack)
    BY <2>1, <2>3, <1>2 DEF Frame
  <2> QED
    BY <2>1, <2>2, <2>3
<1>8. Owes(Frame)' = {line, Level(line)}
  <2>1. (32 + line) - 32 = line
    BY <1>3
  <2> QED
    BY <2>1, <1>4, <1>6 DEF Owes
<1> QED
  BY <1>1, <1>2, <1>4, <1>5, <1>6, <1>7, <1>8 DEF StackInv

(***************************************************************************)
(* Steps of kernel_main.                                                   *)
(***************************************************************************)
\* kernel_main runs only when no frame is on the stack.
LEMMA MainQuiet ==
  ASSUME Proceed \/ Choose \/ isr_handler
  PROVE  /\ stack = << >> /\ stack' = << >> /\ UNCHANGED <<now, ran>>
         /\ isr' \in {isr, {}}
         /\ intr' \in {intr, TRUE, FALSE}
         /\ \/ irq_routines' = irq_routines
            \/ pc = "timer_install" /\ irq_routines' = [irq_routines EXCEPT ![0] = "irq_0_handler"]
            \/ irq_routines' = [irq_routines EXCEPT ![1] = "irq_1_handler"]
            \/ irq_routines' = [irq_routines EXCEPT ![1] = NULL]
<1>1. CASE Proceed
  BY <1>1 DEF Proceed, idt_init, timer_init, irq_install_handler, multitasking_cli,
              multitasking_kmalloc, multitasking_abort, multitasking_task, multitasking_reset,
              multitasking_sti, read_first, read_second, read_return, install_no_memory,
              install_link, install_publish, install_kmalloc, Main, machine, pic, Unlocked
<1>2. CASE Choose
  BY <1>2 DEF Choose, lock_scheduler, unlock_scheduler, call, uninstall_timer_event,
              irq_install_handler, irq_uninstall_handler, Main, machine, pic, Unlocked
<1>3. CASE isr_handler
  BY <1>3 DEF isr_handler, Main, machine, pic
<1> QED
  BY <1>1, <1>2, <1>3

\* kernel_main and the exceptions run with no frame on the stack.
LEMMA MainStack ==
  ASSUME StackInv, Proceed \/ Choose \/ isr_handler
  PROVE  StackInv'
<1>1. /\ stack = << >> /\ stack' = << >> /\ isr' = {} /\ intr' \in BOOLEAN
  BY MainQuiet DEF StackInv
<1>2. HandlersExclusive'
  BY <1>1 DEF HandlersExclusive
<1>3. /\ irq_routines' \in [0 .. 15 -> {NULL, "irq_0_handler", "irq_1_handler"}]
      /\ \A line \in 0 .. 15 : irq_routines'[line] = "irq_0_handler" => line = 0
  <2>1. /\ irq_routines \in [0 .. 15 -> {NULL, "irq_0_handler", "irq_1_handler"}]
        /\ \A line \in 0 .. 15 : irq_routines[line] = "irq_0_handler" => line = 0
    BY DEF StackInv
  <2>2. NULL # "irq_0_handler"
    BY NullAssumption
  <2> QED
    BY <2>1, <2>2, MainQuiet
<1> QED
  BY <1>1, <1>2, <1>3 DEF StackInv

(***************************************************************************)
(* The event list and the walk of irq_0_handler.                           *)
(***************************************************************************)
LEMMA GotoList ==
  ASSUME StackInv, ListInv, stack # << >>, NEW place \in Places, NEW n \in Events \cup {NULL},
         Goto(place, n), place \notin {"walk", "next"} => n = NULL,
         NEW s \in Seq(Events), Chain(s), ran' \in Seq(Events),
         Len(ran') <= Len(s), \A j \in 1 .. Len(ran') : ran'[j] = s[j],
         place \notin {"walk", "next"} => ran' = << >>,
         place = "walk" => n = At(s, Len(ran') + 1),
         place = "next" => Len(ran') > 0 /\ n = s[Len(ran')]
  PROVE  ListInv'
<1>1. UNCHANGED <<timer_events, next, func, allocated, installed, pc, new_event>>
  BY DEF Goto, list, main, locals
<1>2. /\ Len(stack') = Len(stack) /\ stack' # << >>
      /\ \A i \in 1 .. Len(stack) : i # Len(stack) => stack'[i] = stack[i]
      /\ Frame'.pc = place /\ Frame'.node = n
  BY GotoFrame DEF StackInv
<1>3. Chain(s)'
  BY <1>1 DEF Chain
<1>4. Walked(s)'
  BY <1>2 DEF Walked
<1>5. \A i \in 1 .. Len(stack') : stack'[i].pc \notin {"walk", "next"} => stack'[i].node = NULL
  BY <1>2 DEF ListInv, Frame
<1> QED
  BY <1>1, <1>3, <1>4, <1>5 DEF ListInv

\* The walk of the timer's handler runs one more event of the list.
LEMMA HandlerList ==
  ASSUME StackInv, ListInv, Handler
  PROVE  ListInv'
<1>0. stack # << >> /\ Frame \in Frames
  <2>1. stack # << >>
    BY DEF Handler, irq_handler, irq_0_handler, run_event, next_event, irq_0_return, irq_1_handler,
           eoi_slave, eoi_master, iret, HandlerAt
  <2>2. Len(stack) \in 1 .. Len(stack)
    BY <2>1 DEF StackInv
  <2> QED
    BY <2>1, <2>2 DEF StackInv, Frame
<1>1. PICK s \in Seq(Events) : Chain(s) /\ Walked(s)
  BY DEF ListInv
<1>2. /\ ran \in Seq(Events) /\ Len(ran) <= Len(s) /\ Len(ran) \in Nat /\ Len(s) \in Nat
      /\ \A j \in 1 .. Len(ran) : ran[j] = s[j]
      /\ Frame.pc \notin {"walk", "next"} => ran = << >>
      /\ Frame.pc = "walk" => Frame.node = At(s, Len(ran) + 1)
      /\ Frame.pc = "next" => Len(ran) > 0 /\ Frame.node = s[Len(ran)]
  BY <1>0, <1>1 DEF ListInv, Walked
<1>3. Len(<< >>) = 0 /\ << >> \in Seq(Events) /\ \A j \in 1 .. Len(<< >>) : << >>[j] = s[j]
  OBVIOUS
<1>4. SendEoi \in {"eoi1", "eoi2"}
  BY DEF SendEoi
<1>5. CASE irq_handler \/ irq_1_handler \/ eoi_slave \/ eoi_master
  <2>1. PICK place \in {"handler", "eoi1", "eoi2", "iret"} : Goto(place, NULL)
    BY <1>4, <1>5 DEF irq_handler, irq_1_handler, eoi_slave, eoi_master
  <2>2. Frame.pc \notin {"walk", "next"} /\ ran' = ran
    BY <1>5 DEF irq_handler, irq_1_handler, eoi_slave, eoi_master, HandlerAt
  <2>3. ran' = << >> /\ place \in Places /\ place \notin {"walk", "next"}
    BY <2>1, <2>2, <1>2 DEF Places
  <2> QED
    BY <2>1, <2>3, <1>0, <1>1, <1>2, <1>3, GotoList
<1>6. CASE irq_0_return
  <2>1. Goto(SendEoi, NULL) /\ ran' = << >>
    BY <1>6 DEF irq_0_return
  <2>2. SendEoi \in Places /\ SendEoi \notin {"walk", "next"}
    BY <1>4 DEF Places
  <2> QED
    BY <2>1, <2>2, <1>0, <1>1, <1>2, <1>3, GotoList
<1>7. CASE irq_0_handler
  <2>1. Frame.pc = "handler" /\ Goto("walk", timer_events) /\ ran' = ran
    BY <1>7 DEF irq_0_handler, HandlerAt
  <2>2. ran' = << >> /\ timer_events = At(s, Len(ran') + 1) /\ timer_events \in Events \cup {NULL}
    BY <2>1, <1>1, <1>2, <1>3 DEF Chain, At
  <2> QED
    BY <2>1, <2>2, <1>0, <1>1, <1>2, <1>3, GotoList DEF Places
<1>8. CASE run_event
  <2>1. /\ Frame.pc = "walk" /\ Frame.node # NULL /\ Goto("next", Frame.node)
        /\ ran' = Append(ran, Frame.node)
    BY <1>8 DEF run_event, HandlerAt
  <2>2. Len(ran) + 1 <= Len(s) /\ Frame.node = s[Len(ran) + 1] /\ Frame.node \in Events
    BY <2>1, <1>2 DEF At
  <2>3. /\ ran' \in Seq(Events) /\ Len(ran') = Len(ran) + 1
        /\ \A j \in 1 .. Len(ran') : ran'[j] = s[j]
    BY <2>1, <2>2, <1>2
  <2>4. Len(ran') <= Len(s) /\ Len(ran') > 0 /\ Frame.node = s[Len(ran')]
    BY <2>2, <2>3, <1>2
  <2> QED
    BY <2>1, <2>2, <2>3, <2>4, <1>0, <1>1, GotoList DEF Places
<1>9. CASE next_event
  <2>1. Frame.pc = "next" /\ Goto("walk", next[Frame.node]) /\ ran' = ran
    BY <1>9 DEF next_event, HandlerAt
  <2>2. Len(ran) \in 1 .. Len(s)
    BY <2>1, <1>2
  <2>3. next[Frame.node] = At(s, Len(ran') + 1)
    BY <2>1, <2>2, <1>1, <1>2 DEF Chain
  <2>4. next[Frame.node] \in Events \cup {NULL}
    BY <2>3, <2>1, <2>2, <1>2 DEF At
  <2> QED
    BY <2>1, <2>3, <2>4, <1>0, <1>1, <1>2, GotoList DEF Places
<1>10. CASE iret
  <2>1. /\ Frame.pc = "iret" /\ stack' = SubSeq(stack, 1, Len(stack) - 1) /\ ran' = ran
        /\ UNCHANGED <<timer_events, next, func, allocated, installed, pc, new_event>>
    BY <1>10 DEF iret, HandlerAt, list, main, locals
  <2>2. /\ Len(stack') = Len(stack) - 1
        /\ \A i \in 1 .. Len(stack') : stack'[i] = stack[i]
    BY <2>1, <1>0, Popped DEF StackInv
  <2>3. ran = << >>
    BY <2>1, <1>2
  <2>4. stack' # << >> => Frame'.pc = "iret"
    BY <1>10, IretBelow
  <2>5. Chain(s)'
    BY <2>1, <1>1 DEF Chain
  <2>6. Walked(s)'
    BY <2>1, <2>3, <2>4, <1>2 DEF Walked
  <2>7. \A i \in 1 .. Len(stack') : stack'[i].pc \notin {"walk", "next"} => stack'[i].node = NULL
    <3>1. Len(stack) \in Nat
      BY DEF StackInv
    <3> QED
      BY <3>1, <2>2 DEF ListInv
  <2> QED
    BY <2>1, <2>5, <2>6, <2>7 DEF ListInv
<1> QED
  BY <1>5, <1>6, <1>7, <1>8, <1>9, <1>10 DEF Handler

\* An interrupt that enters leaves the event list and the walk behind it alone.
LEMMA DeviceList ==
  ASSUME StackInv, ListInv, NEW line \in Lines, irq_common_stub(line)
  PROVE  ListInv'
<1>1. PICK s \in Seq(Events) : Chain(s) /\ Walked(s)
  BY DEF ListInv
<1>2. ran' = ran /\ UNCHANGED <<timer_events, next, func, allocated, installed, pc, new_event>>
  BY DEF irq_common_stub, list, main, locals
<1>3. ran = << >>
  BY <1>1, EntryIdle DEF Walked
<1>4. /\ stack' # << >> /\ Len(stack') = Len(stack) + 1
      /\ \A i \in 1 .. Len(stack) : stack'[i] = stack[i]
      /\ Frame'.pc = "irq_handler" /\ stack'[Len(stack')].node = NULL
  BY DeviceStack DEF Frame
<1>5. Chain(s)'
  BY <1>1, <1>2 DEF Chain
<1>6. Walked(s)'
  BY <1>1, <1>2, <1>3, <1>4 DEF Walked
<1>7. \A i \in 1 .. Len(stack') : stack'[i].pc \notin {"walk", "next"} => stack'[i].node = NULL
  <2>1. Len(stack) \in Nat
    BY DEF StackInv
  <2> QED
    BY <2>1, <1>4 DEF ListInv
<1> QED
  BY <1>2, <1>5, <1>6, <1>7 DEF ListInv

\* No walk is in progress while kernel_main runs.
LEMMA NothingRan ==
  ASSUME ListInv, stack = << >>
  PROVE  ran = << >>
BY DEF ListInv, Walked

\* What kernel_main does to the list is seen by the next walk only.
LEMMA QuietWalk ==
  ASSUME ran = << >>, stack' = << >>, ran' = ran, NEW s \in Seq(Events)
  PROVE  Walked(s)' /\ ran' \in Seq(Events)
BY DEF Walked

\* Statements of kernel_main that touch no event keep the list.
LEMMA KeepList ==
  ASSUME ListInv, stack = << >>, stack' = << >>, ran' = ran,
         UNCHANGED <<timer_events, next, allocated, installed>>,
         pc' \notin {"install_link", "install_publish"}
  PROVE  ListInv'
<1>1. PICK s \in Seq(Events) : Chain(s) /\ Walked(s)
  BY DEF ListInv
<1>2. Chain(s)'
  BY <1>1 DEF Chain
<1>3. Walked(s)' /\ ran' \in Seq(Events)
  BY NothingRan, QuietWalk
<1> QED
  BY <1>2, <1>3 DEF ListInv

\* The new node is not in the list yet.
LEMMA KmallocList ==
  ASSUME ListInv, NEW event \in Events, NEW kind, install_kmalloc(event, kind)
  PROVE  ListInv'
<1>1. /\ stack = << >> /\ stack' = << >> /\ ran' = ran /\ pc' = "install_link"
      /\ event \notin allocated /\ allocated' = allocated \cup {event}
      /\ next' = [next EXCEPT ![event] = NULL] /\ new_event' = event
      /\ timer_events' = timer_events /\ installed' = installed
  BY DEF install_kmalloc, Main
<1>2. PICK s \in Seq(Events) : Chain(s) /\ Walked(s)
  BY DEF ListInv
<1>3. \A i \in 1 .. Len(s) : s[i] \in Events /\ s[i] # event
  BY <1>1, <1>2 DEF ListInv, Chain
<1>4. next' \in [Events -> Events \cup {NULL}] /\ \A i \in 1 .. Len(s) : next'[s[i]] = next[s[i]]
  BY <1>1, <1>3 DEF ListInv
<1>5. Chain(s)'
  BY <1>1, <1>2, <1>4 DEF Chain
<1>6. Walked(s)' /\ ran' \in Seq(Events)
  BY <1>1, NothingRan, QuietWalk
<1>7. /\ installed' \subseteq allocated' /\ allocated' \subseteq Events
      /\ new_event' \in allocated' \ installed'
  BY <1>1 DEF ListInv
<1> QED
  BY <1>1, <1>4, <1>5, <1>6, <1>7 DEF ListInv

\* install_timer_event links its node in front before it publishes it.
LEMMA LinkList ==
  ASSUME ListInv, install_link
  PROVE  ListInv'
<1>1. /\ stack = << >> /\ stack' = << >> /\ ran' = ran
      /\ pc = "install_link" /\ pc' = "install_publish"
      /\ next' = [next EXCEPT ![new_event] = timer_events]
      /\ UNCHANGED <<timer_events, installed, allocated, new_event>>
  BY DEF install_link, Main, locals
<1>2. PICK s \in Seq(Events) : Chain(s) /\ Walked(s)
  BY DEF ListInv
<1>3. new_event \in allocated \ installed /\ new_event \in Events
  BY <1>1 DEF ListInv
<1>4. \A i \in 1 .. Len(s) : s[i] \in Events /\ s[i] # new_event
  BY <1>2, <1>3 DEF Chain
<1>5. timer_events \in Events \cup {NULL}
  BY <1>2 DEF Chain, At
<1>6. /\ next' \in [Events -> Events \cup {NULL}] /\ next'[new_event] = timer_events
      /\ \A i \in 1 .. Len(s) : next'[s[i]] = next[s[i]]
  BY <1>1, <1>3, <1>4, <1>5 DEF ListInv
<1>7. Chain(s)'
  BY <1>1, <1>2, <1>6 DEF Chain
<1>8. Walked(s)' /\ ran' \in Seq(Events)
  BY <1>1, NothingRan, QuietWalk
<1> QED
  BY <1>1, <1>3, <1>6, <1>7, <1>8 DEF ListInv

\* The new node becomes the head of the list.
LEMMA PublishList ==
  ASSUME ListInv, StartInv, install_publish
  PROVE  ListInv'
<1>1. /\ stack = << >> /\ stack' = << >> /\ ran' = ran
      /\ pc = "install_publish" /\ pc' = back
      /\ timer_events' = new_event /\ installed' = installed \cup {new_event}
      /\ UNCHANGED <<next, allocated>>
  BY DEF install_publish, Main
<1>2. PICK s \in Seq(Events) : Chain(s) /\ Walked(s)
  BY DEF ListInv
<1>3. new_event \in allocated \ installed /\ new_event \in Events /\ next[new_event] = timer_events
  BY <1>1 DEF ListInv
<1>4. pc' \notin {"install_link", "install_publish"}
  BY <1>1 DEF StartInv, Installing
<1>5. PICK t \in Seq(Events) :
         /\ Len(s) \in Nat /\ Len(t) = Len(s) + 1 /\ t[1] = new_event
         /\ \A i \in 1 .. Len(s) : t[i + 1] = s[i]
         /\ \A i \in 2 .. Len(t) : i - 1 \in 1 .. Len(s) /\ t[i] = s[i - 1]
  <2> DEFINE u == << new_event >> \o s
  <2>1. /\ u \in Seq(Events) /\ Len(s) \in Nat /\ Len(u) = Len(s) + 1 /\ u[1] = new_event
        /\ \A i \in 1 .. Len(s) : u[i + 1] = s[i]
        /\ \A i \in 2 .. Len(u) : i - 1 \in 1 .. Len(s) /\ u[i] = s[i - 1]
    BY <1>3
  <2> HIDE DEF u
  <2> QED
    BY <2>1
<1>6. \A i \in 1 .. Len(s) : s[i] # new_event
  BY <1>2, <1>3 DEF Chain
<1>7. Chain(t)'
  <2>1. ASSUME NEW i \in 1 .. Len(t), NEW j \in 1 .. Len(t), t[i] = t[j]
        PROVE  i = j
    <3>1. CASE i = 1 /\ j = 1
      BY <3>1
    <3>2. CASE i # 1 /\ j # 1
      <4>1. i - 1 \in 1 .. Len(s) /\ j - 1 \in 1 .. Len(s) /\ s[i - 1] = s[j - 1]
        BY <3>2, <2>1, <1>5
      <4>2. i - 1 = j - 1
        BY <4>1, <1>2 DEF Chain
      <4> QED
        BY <4>2
    <3>3. i \in 2 .. Len(t) => t[i] # t[1]
      BY <1>5, <1>6
    <3>4. j \in 2 .. Len(t) => t[j] # t[1]
      BY <1>5, <1>6
    <3>5. i = 1 <=> j = 1
      BY <3>3, <3>4, <2>1
    <3> QED
      BY <3>1, <3>2, <3>5
  <2>2. installed' = {t[i] : i \in 1 .. Len(t)}
    <3>1. ASSUME NEW e \in installed' PROVE \E i \in 1 .. Len(t) : e = t[i]
      <4>1. CASE e = new_event
        BY <4>1, <1>5
      <4>2. CASE e \in installed
        <5>1. PICK i \in 1 .. Len(s) : e = s[i]
          BY <4>2, <1>2 DEF Chain
        <5> QED
          BY <5>1, <1>5
      <4> QED
        BY <4>1, <4>2, <1>1
    <3>2. ASSUME NEW i \in 1 .. Len(t) PROVE t[i] \in installed'
      <4>1. CASE i = 1
        BY <4>1, <1>1, <1>5
      <4>2. CASE i # 1
        BY <4>2, <1>1, <1>2, <1>5 DEF Chain
      <4> QED
        BY <4>1, <4>2
    <3> QED
      BY <3>1, <3>2
  <2>3. timer_events' = At(t, 1)
    BY <1>1, <1>5 DEF At
  <2>4. ASSUME NEW i \in 1 .. Len(t) PROVE next'[t[i]] = At(t, i + 1)
    <3>1. CASE i = 1
      <4>1. next'[t[i]] = At(s, 1)
        BY <3>1, <1>1, <1>2, <1>3, <1>5 DEF Chain
      <4>2. At(s, 1) = At(t, 2)
        BY <1>5 DEF At
      <4> QED
        BY <3>1, <4>1, <4>2
    <3>2. CASE i # 1
      <4>1. i - 1 \in 1 .. Len(s) /\ t[i] = s[i - 1] /\ (i - 1) + 1 = i
        BY <3>2, <1>5
      <4>2. next'[t[i]] = At(s, i)
        BY <4>1, <1>1, <1>2 DEF Chain
      <4>3. At(s, i) = At(t, i + 1)
        BY <4>1, <1>5 DEF At
      <4> QED
        BY <4>2, <4>3
    <3> QED
      BY <3>1, <3>2
  <2> QED
    BY <2>1, <2>2, <2>3, <2>4 DEF Chain
<1>8. Walked(t)' /\ ran' \in Seq(Events)
  BY <1>1, <1>5, NothingRan, QuietWalk
<1>9. installed' \subseteq allocated' /\ allocated' \subseteq Events
  BY <1>1, <1>3 DEF ListInv
<1> QED
  BY <1>1, <1>4, <1>5, <1>7, <1>8, <1>9 DEF ListInv

\* The list closes over the event that leaves it.
LEMMA UninstallList ==
  ASSUME ListInv, NEW event \in installed, uninstall_timer_event(event)
  PROVE  ListInv'
<1>1. /\ stack = << >> /\ stack' = << >> /\ ran' = ran /\ pc' = "run"
      /\ timer_events' = (IF timer_events = event THEN next[event] ELSE timer_events)
      /\ next' = [e \in Events |-> CASE e = event -> NULL
                                     [] e \in installed /\ next[e] = event -> next[event]
                                     [] OTHER -> next[e]]
      /\ allocated' = allocated \ {event} /\ installed' = installed \ {event}
  BY DEF uninstall_timer_event, Main
<1>2. PICK s \in Seq(Events) : Chain(s) /\ Walked(s)
  BY DEF ListInv
<1>3. /\ \A i, j \in 1 .. Len(s) : s[i] = s[j] => i = j
      /\ installed = {s[i] : i \in 1 .. Len(s)}
      /\ timer_events = At(s, 1)
      /\ \A i \in 1 .. Len(s) : next[s[i]] = At(s, i + 1)
      /\ \A i \in 1 .. Len(s) : s[i] \in Events /\ s[i] # NULL
      /\ Len(s) \in Nat
  BY <1>2, BoundsAssumption DEF Chain
<1>4. PICK k \in 1 .. Len(s) : event = s[k]
  BY <1>3
<1> DEFINE m == Len(s) - 1
<1>5. PICK t \in Seq(Events) :
         Len(t) = m /\ \A i \in 1 .. m : t[i] = IF i < k THEN s[i] ELSE s[i + 1]
  <2> DEFINE u == [i \in 1 .. m |-> IF i < k THEN s[i] ELSE s[i + 1]]
  <2>1. m \in Nat /\ \A i \in 1 .. m : u[i] \in Events
    BY <1>3, <1>4
  <2>2. u \in Seq(Events) /\ Len(u) = m
    BY <2>1
  <2> QED
    BY <2>2
<1>6. m \in Nat /\ Len(s) = m + 1 /\ k \in 1 .. m + 1
  BY <1>3, <1>4
<1> HIDE DEF m
\* t[i] is s[Old(i)].
<1> DEFINE Old(i) == IF i < k THEN i ELSE i + 1
<1>7. \A i \in 1 .. m : Old(i) \in 1 .. Len(s) /\ Old(i) # k /\ t[i] = s[Old(i)]
  BY <1>5, <1>6
<1>8. \A j \in 1 .. Len(s) : j # k => \E i \in 1 .. m : Old(i) = j
  <2> SUFFICES ASSUME NEW j \in 1 .. Len(s), j # k
               PROVE  \E i \in 1 .. m : Old(i) = j
    OBVIOUS
  <2>1. CASE j < k
    <3>1. j \in 1 .. m /\ Old(j) = j
      BY <2>1, <1>6
    <3> QED
      BY <3>1
  <2>2. CASE j > k
    <3>1. j - 1 \in 1 .. m /\ Old(j - 1) = j
      BY <2>2, <1>6
    <3> QED
      BY <3>1
  <2> QED
    BY <2>1, <2>2, <1>6
<1>9. \A i \in 1 .. m : next'[t[i]] = IF At(s, Old(i) + 1) = event THEN next[event] ELSE At(s, Old(i) + 1)
  <2> SUFFICES ASSUME NEW i \in 1 .. m
               PROVE  next'[t[i]] = IF At(s, Old(i) + 1) = event THEN next[event]
                                    ELSE At(s, Old(i) + 1)
    OBVIOUS
  <2> DEFINE e == t[i]
  <2>1. /\ e \in Events /\ e \in installed /\ e # event /\ next[e] = At(s, Old(i) + 1)
    <3> DEFINE o == Old(i)
    <3>1. o \in 1 .. Len(s) /\ o # k /\ e = s[o]
      BY <1>7
    <3> HIDE DEF o, e
    <3>2. e \in Events /\ e \in installed /\ next[e] = At(s, o + 1)
      BY <3>1, <1>3
    <3>3. e # event
      BY <3>1, <1>3, <1>4
    <3> QED
      BY <3>2, <3>3 DEF o
  <2> HIDE DEF e, Old
  <2>2. next'[e] = IF next[e] = event THEN next[event] ELSE next[e]
    BY <2>1, <1>1
  <2> QED
    BY <2>1, <2>2 DEF e
<1>10. \A j \in 1 .. Len(s) : At(s, j) = event <=> j = k
  BY <1>3, <1>4 DEF At
<1>11. next[event] = At(s, k + 1) /\ At(s, Len(s) + 1) = NULL /\ event # NULL
  BY <1>3, <1>4, <1>6 DEF At
<1>12. Chain(t)'
  <2>1. ASSUME NEW i \in 1 .. m, NEW j \in 1 .. m, t[i] = t[j]
        PROVE  i = j
    <3>1. s[Old(i)] = s[Old(j)] /\ Old(i) \in 1 .. Len(s) /\ Old(j) \in 1 .. Len(s)
      BY <2>1, <1>7
    <3>2. Old(i) = Old(j)
      BY <3>1, <1>3
    <3> QED
      BY <3>2, <1>6
  <2>2. installed' = {t[i] : i \in 1 .. m}
    <3>1. ASSUME NEW e \in installed' PROVE \E i \in 1 .. m : e = t[i]
      <4>1. PICK j \in 1 .. Len(s) : e = s[j]
        BY <1>1, <1>3
      <4>2. j # k
        BY <4>1, <1>1, <1>4
      <4> QED
        BY <4>1, <4>2, <1>7, <1>8
    <3>2. ASSUME NEW i \in 1 .. m PROVE t[i] \in installed'
      <4> DEFINE o == Old(i)
      <4>1. o \in 1 .. Len(s) /\ o # k /\ t[i] = s[o]
        BY <1>7
      <4> HIDE DEF o
      <4>2. s[o] \in installed
        BY <4>1, <1>3
      <4>3. s[o] # event
        BY <4>1, <1>3, <1>4
      <4> QED
        BY <4>1, <4>2, <4>3, <1>1
    <3> QED
      BY <3>1, <3>2
  <2>3. timer_events' = At(t, 1)
    <3>1. CASE k = 1
      <4>1. timer_events' = At(s, 2)
        BY <3>1, <1>1, <1>3, <1>4, <1>11 DEF At
      <4>2. At(s, 2) = At(t, 1)
        BY <3>1, <1>5, <1>6 DEF At
      <4> QED
        BY <4>1, <4>2
    <3>2. CASE k # 1
      <4>1. 1 \in 1 .. Len(s) /\ 1 \in 1 .. m /\ Old(1) = 1
        BY <3>2, <1>6
      <4>2. timer_events' = s[1]
        <5>1. timer_events = s[1] /\ s[1] # event
          BY <4>1, <3>2, <1>3, <1>4 DEF At
        <5> QED
          BY <5>1, <1>1
      <4>3. At(t, 1) = s[1]
        BY <4>1, <1>5, <1>7 DEF At
      <4> QED
        BY <4>2, <4>3
    <3> QED
      BY <3>1, <3>2
  <2>4. ASSUME NEW i \in 1 .. m PROVE next'[t[i]] = At(t, i + 1)
    <3>1. CASE i + 1 = k
      <4>1. Old(i) + 1 = k /\ At(s, k) = event
        BY <3>1, <1>4, <1>6 DEF At
      <4>2. next'[t[i]] = At(s, k + 1)
        BY <4>1, <1>9, <1>11
      <4>3. At(s, k + 1) = At(t, k)
        BY <1>5, <1>6 DEF At
      <4> QED
        BY <3>1, <4>2, <4>3
    <3>2. CASE i + 1 # k
      <4>1. Old(i) + 1 # k /\ Old(i) + 1 \in 1 .. Len(s) + 1
        BY <3>2, <1>6
      <4>2. At(s, Old(i) + 1) # event
        BY <4>1, <1>6, <1>10, <1>11
      <4>3. next'[t[i]] = At(s, Old(i) + 1)
        BY <4>2, <1>9
      <4>4. At(s, Old(i) + 1) = At(t, i + 1)
        BY <3>2, <1>5, <1>6 DEF At
      <4> QED
        BY <4>3, <4>4
    <3> QED
      BY <3>1, <3>2
  <2> QED
    BY <2>1, <2>2, <2>3, <2>4, <1>5 DEF Chain
<1>13. next' \in [Events -> Events \cup {NULL}]
  BY <1>1 DEF ListInv
<1>14. Walked(t)' /\ ran' \in Seq(Events)
  BY <1>1, NothingRan, QuietWalk
<1>15. installed' \subseteq allocated' /\ allocated' \subseteq Events
  BY <1>1 DEF ListInv
<1> QED
  BY <1>1, <1>12, <1>13, <1>14, <1>15 DEF ListInv

\* The statements that neither touch the list nor enter install_timer_event's middle.
LEMMA MainList ==
  ASSUME ListInv, StartInv, Proceed \/ Choose \/ isr_handler
  PROVE  ListInv'
<1>1. /\ stack = << >> /\ stack' = << >> /\ ran' = ran
  BY MainQuiet
<1>2. /\ pc = "read_return" => back \notin {"install_link", "install_publish"}
      /\ pc = "install_timer_event" => back \notin {"install_link", "install_publish"}
  BY DEF StartInv, Reading, Installing
<1>3. CASE Proceed
  <2>1. CASE \E event \in Events, kind \in {"locks", "plain"} : install_kmalloc(event, kind)
    BY <2>1, KmallocList
  <2>2. CASE install_link \/ install_publish
    BY <2>2, LinkList, PublishList
  <2>3. CASE ~(install_link \/ install_publish)
             /\ ~\E event \in Events, kind \in {"locks", "plain"} : install_kmalloc(event, kind)
    <3>1. /\ UNCHANGED <<timer_events, next, allocated, installed>>
          /\ pc' \notin {"install_link", "install_publish"}
      BY <1>2, <1>3, <2>3 DEF Proceed, idt_init, timer_init, irq_install_handler, multitasking_cli,
              multitasking_kmalloc, multitasking_abort, multitasking_task, multitasking_reset,
              multitasking_sti, read_first, read_second, read_return, install_no_memory, Main, list
    <3> QED
      BY <3>1, <1>1, KeepList
  <2> QED
    BY <2>1, <2>2, <2>3
<1>4. CASE \E event \in installed : uninstall_timer_event(event)
  BY <1>4, UninstallList
<1>5. CASE (Choose /\ ~\E event \in installed : uninstall_timer_event(event)) \/ isr_handler
  <2>1. /\ UNCHANGED <<timer_events, next, allocated, installed>>
        /\ pc' \notin {"install_link", "install_publish"}
    BY <1>5 DEF Choose, lock_scheduler, unlock_scheduler, call, irq_install_handler,
                irq_uninstall_handler, isr_handler, Main, list
  <2> QED
    BY <2>1, <1>1, KeepList
<1> QED
  BY <1>3, <1>4, <1>5

(***************************************************************************)
(* Start-up and the clock.                                                 *)
(***************************************************************************)
LEMMA MainStart ==
  ASSUME StartInv, Proceed \/ Choose \/ isr_handler
  PROVE  StartInv'
<1> USE DEF Early, Reading, Installing, Later
<1>0. "kernel_task" # NULL
  BY NullAssumption
<1>1. CASE idt_init \/ timer_init
           \/ irq_install_handler("timer_install", 0, "irq_0_handler", "multitasking_initialize")
           \/ multitasking_cli \/ multitasking_kmalloc \/ multitasking_abort
  BY <1>1 DEF StartInv, idt_init, timer_init, irq_install_handler, multitasking_cli,
              multitasking_kmalloc, multitasking_abort, Main, machine, list, locals
<1>2. CASE multitasking_task
  BY <1>0, <1>2 DEF StartInv, multitasking_task, Main, machine, list
<1>3. CASE multitasking_reset \/ multitasking_sti
           \/ irq_install_handler("keyboard_init", 1, "irq_1_handler", "run")
  BY <1>3 DEF StartInv, multitasking_reset, multitasking_sti, irq_install_handler, Main, machine,
              list, locals
<1>4. CASE read_first("lo") \/ read_first("hi") \/ read_second \/ read_return
  BY <1>4 DEF StartInv, read_first, read_second, read_return, Main, machine, list
<1>5. CASE install_no_memory \/ install_link \/ install_publish
  BY <1>5 DEF StartInv, install_no_memory, install_link, install_publish, Main, machine, list,
              locals
<1>6. CASE \E event \in Events, kind \in {"locks", "plain"} : install_kmalloc(event, kind)
  BY <1>6 DEF StartInv, install_kmalloc, Main, machine
<1>7. CASE Choose
  <2>1. CASE \E event \in installed : uninstall_timer_event(event)
    BY <2>1 DEF StartInv, uninstall_timer_event, Main, machine, locals
  <2>2. CASE ~\E event \in installed : uninstall_timer_event(event)
    BY <1>7, <2>2 DEF Choose, StartInv, lock_scheduler, unlock_scheduler, call,
              irq_install_handler, irq_uninstall_handler, Main, machine, list, locals
  <2> QED
    BY <2>1, <2>2
<1>8. CASE isr_handler
  BY <1>8 DEF StartInv, isr_handler, Main, machine, list, locals
<1> QED
  BY <1>1, <1>2, <1>3, <1>4, <1>5, <1>6, <1>7, <1>8 DEF Proceed

\* The increment of the two words is the increment of the clock.
LEMMA IncrementCounts ==
  ASSUME NEW n \in Nat, n + 1 < Word * Word
  PROVE  increment([lo |-> n % Word, hi |-> n \div Word])
           = [lo |-> (n + 1) % Word, hi |-> (n + 1) \div Word]
<1> DEFINE q == n \div Word
           r == n % Word
<1>1. /\ Word \in Nat \ {0}
      /\ q \in Int /\ r \in 0 .. Word - 1 /\ n = Word * q + r
  <2>1. Word \in Nat \ {0} /\ n \in Int
    BY BoundsAssumption
  <2> QED
    BY <2>1, DivBound
<1>2. increment([lo |-> r, hi |-> q]) =
        [lo |-> (r + 1) % Word, hi |-> IF r + 1 = Word THEN (q + 1) % Word ELSE q]
  BY DEF increment
<1> HIDE DEF q, r
<1>3. Word * q \in Int /\ Word * (q + 1) = Word * q + Word
  BY <1>1
<1>4. CASE r + 1 = Word
  <2>1. n + 1 = Word * (q + 1) + 0 /\ n + 1 \in Int /\ 0 \in 0 .. Word - 1 /\ q + 1 \in Int
    BY <1>1, <1>3, <1>4
  <2>2. (n + 1) \div Word = q + 1 /\ (n + 1) % Word = 0
    BY <2>1, <1>1, DivUnique
  <2>3. (r + 1) % Word = 0
    BY <1>1, <1>4
  <2>4. 0 <= q /\ q + 1 < Word
    <3>1. ~(Word <= q + 1)
      <4> SUFFICES ASSUME Word <= q + 1 PROVE FALSE
        OBVIOUS
      <4>1. Word - 1 < q + 1 /\ Word - 1 \in Int /\ q + 1 \in Int
        BY <1>1
      <4>2. Word * (Word - 1) + Word <= Word * (q + 1)
        BY <4>1, <1>1, MulStep
      <4>3. Word * (Word - 1) + Word = Word * Word /\ Word * Word \in Int
        BY <1>1
      <4> QED
        BY <4>2, <4>3, <2>1, <1>1
    <3>2. ~(q < 0)
      <4> SUFFICES ASSUME q < 0 PROVE FALSE
        OBVIOUS
      <4>1. Word * q + Word <= Word * 0
        BY <1>1, MulStep
      <4> QED
        BY <4>1, <1>1, <1>3
    <3> QED
      BY <3>1, <3>2, <1>1
  <2>5. (q + 1) % Word = q + 1
    BY <2>4, <1>1
  <2> QED
    BY <2>2, <2>3, <2>5, <1>2, <1>4 DEF q, r
<1>5. CASE r + 1 # Word
  <2>1. n + 1 = Word * q + (r + 1) /\ n + 1 \in Int /\ r + 1 \in 0 .. Word - 1
    BY <1>1, <1>3, <1>5
  <2>2. (n + 1) \div Word = q /\ (n + 1) % Word = r + 1
    BY <2>1, <1>1, DivUnique
  <2>3. (r + 1) % Word = r + 1
    BY <2>1, <1>1
  <2> QED
    BY <2>2, <2>3, <1>2, <1>5 DEF q, r
<1> QED
  BY <1>4, <1>5

\* ClockInv while kernel_main stands where it is and the clock has not run back.
LEMMA ClockKept ==
  ASSUME ClockInv, UNCHANGED <<pc, rd, start>>, now' \in now .. MaxTicks,
         pc \in {"boot", "timer_init", "timer_install"} => now' = now,
         ticks_since_boot' = [lo |-> now' % Word, hi |-> now' \div Word]
  PROVE  ClockInv'
<1>1. now \in Nat /\ now' \in Nat /\ now <= now' /\ now' \in 0 .. MaxTicks
  BY DEF ClockInv
<1>2. start \in 0 .. now => start \in 0 .. now'
  BY <1>1
<1>3. \A n \in start .. now : start \in 0 .. now => n \in start .. now'
  BY <1>1
<1> QED
  BY <1>1, <1>2, <1>3 DEF ClockInv

\* The timer handler runs only once timer_init has installed it, for line 0.
LEMMA HandlerClock ==
  ASSUME NoWrap, StackInv, StartInv, ClockInv, Handler
  PROVE  ClockInv'
<1>1. UNCHANGED <<pc, rd, start>>
  BY DEF Handler, irq_handler, irq_0_handler, run_event, next_event, irq_0_return, irq_1_handler,
         eoi_slave, eoi_master, iret, Goto, main, locals
<1>2. now \in 0 .. MaxTicks /\ MaxTicks \in Nat
  BY BoundsAssumption DEF ClockInv
<1>3. CASE UNCHANGED clock
  <2>1. now' = now /\ ticks_since_boot' = ticks_since_boot
    BY <1>3 DEF clock
  <2> QED
    BY <2>1, <1>1, <1>2, ClockKept DEF ClockInv
<1>4. CASE irq_0_handler /\ now # MaxTicks
  <2>1. /\ stack # << >> /\ Routine = "irq_0_handler"
        /\ now' = now + 1 /\ ticks_since_boot' = increment(ticks_since_boot)
    BY <1>4 DEF irq_0_handler, HandlerAt
  <2>2. Frame.int_no - 32 \in 0 .. 15
    <3>1. Len(stack) \in 1 .. Len(stack)
      BY <2>1 DEF StackInv
    <3>2. Frame \in Frames
      BY <3>1 DEF StackInv, Frame
    <3> QED
      BY <3>2 DEF Frames
  <2>3. irq_routines[0] = "irq_0_handler"
    BY <2>1, <2>2 DEF StackInv, Routine
  <2>4. pc \notin {"boot", "timer_init", "timer_install"}
    BY <2>3, NullAssumption DEF StartInv
  <2>5. now \in Nat /\ now + 1 \in now .. MaxTicks
    BY <1>2, <1>4
  <2>6. now + 1 < Word * Word
    <3>1. Word * Word \in Int
      BY BoundsAssumption
    <3> QED
      BY <3>1, <2>5, <1>2 DEF NoWrap
  <2>7. ticks_since_boot' = [lo |-> (now + 1) % Word, hi |-> (now + 1) \div Word]
    BY <2>1, <2>5, <2>6, IncrementCounts DEF ClockInv
  <2> QED
    BY <2>1, <2>4, <2>5, <2>7, <1>1, ClockKept
<1>5. UNCHANGED clock \/ (irq_0_handler /\ now # MaxTicks)
  BY DEF Handler, irq_handler, irq_0_handler, run_event, next_event, irq_0_return, irq_1_handler,
         eoi_slave, eoi_master, iret
<1> QED
  BY <1>3, <1>4, <1>5

\* Nothing of kernel_main but timer_init writes the clock, and only
\* read_ticks_since_boot the words loaded.
LEMMA MainClock ==
  ASSUME StartInv, ClockInv, Proceed \/ Choose \/ isr_handler
  PROVE  ClockInv'
<1> USE DEF Early, Reading, Installing, Later
<1>0. now \in Nat /\ now \in 0 .. now /\ now' = now /\ now \in 0 .. MaxTicks
  <2>1. now' = now
    BY MainQuiet
  <2>2. now \in 0 .. MaxTicks /\ MaxTicks \in Nat
    BY BoundsAssumption DEF ClockInv
  <2> QED
    BY <2>1, <2>2
<1>1. Word \in Nat \ {0} /\ now % Word \in Int /\ now \div Word \in Int /\ NULL \notin Int
  BY <1>0, BoundsAssumption
<1>2. 0 % Word = 0 /\ 0 \div Word = 0
  BY <1>1
<1> DEFINE Plain == /\ ticks_since_boot' = ticks_since_boot /\ rd' = rd
                    /\ pc' \in {"boot", "timer_init", "timer_install"} =>
                         pc \in {"boot", "timer_init", "timer_install"}
                    /\ pc \notin Reading
                    /\ pc' \notin {"read_second", "read_return"}
<1>3. CASE Plain
  BY <1>0, <1>3 DEF ClockInv
<1>4. CASE timer_init
  <2>1. /\ pc = "timer_init" /\ pc' = "timer_install" /\ rd' = rd
        /\ ticks_since_boot' = [lo |-> 0, hi |-> 0]
    BY <1>4 DEF timer_init, Main, locals
  <2> QED
    BY <2>1, <1>0, <1>2 DEF ClockInv
<1>5. CASE read_first("lo") \/ read_first("hi")
  <2>1. /\ pc = "read_first" /\ pc' = "read_second" /\ start' = now
        /\ ticks_since_boot' = ticks_since_boot
    BY <1>5 DEF read_first, Main, machine
  <2>2. rd = [lo |-> NULL, hi |-> NULL]
        /\ ticks_since_boot = [lo |-> now % Word, hi |-> now \div Word]
    BY <2>1 DEF ClockInv
  <2>3. \/ rd' = [lo |-> now % Word, hi |-> NULL]
        \/ rd' = [lo |-> NULL, hi |-> now \div Word]
    BY <2>2, <1>5 DEF read_first
  <2> QED
    BY <2>1, <2>2, <2>3, <1>0 DEF ClockInv
<1>6. CASE read_second
  <2>1. /\ pc = "read_second" /\ pc' = "read_return" /\ start' = start
        /\ ticks_since_boot' = ticks_since_boot
        /\ rd' = [w \in {"lo", "hi"} |-> IF rd[w] = NULL THEN ticks_since_boot[w] ELSE rd[w]]
    BY <1>6 DEF read_second, Main, machine
  <2>2. /\ start \in 0 .. now
        /\ ticks_since_boot = [lo |-> now % Word, hi |-> now \div Word]
        /\ \/ rd = [lo |-> start % Word, hi |-> NULL]
           \/ rd = [lo |-> NULL, hi |-> start \div Word]
    BY <2>1 DEF ClockInv
  <2>3. start % Word \in Int /\ start \div Word \in Int /\ now \in start .. now
    BY <2>2, <1>0, <1>1
  <2>4. rd' = [lo |-> IF rd.lo = NULL THEN ticks_since_boot.lo ELSE rd.lo,
               hi |-> IF rd.hi = NULL THEN ticks_since_boot.hi ELSE rd.hi]
    BY <2>1
  <2>5. \/ rd' = [lo |-> start % Word, hi |-> now \div Word]
        \/ rd' = [lo |-> now % Word, hi |-> start \div Word]
    BY <2>2, <2>3, <2>4, <1>1
  <2> QED
    BY <2>1, <2>2, <2>3, <2>5, <1>0 DEF ClockInv
<1>7. CASE read_return
  <2>1. /\ pc = "read_return" /\ pc' \in {"run", "install_timer_event"}
        /\ ticks_since_boot' = ticks_since_boot /\ rd' = [lo |-> NULL, hi |-> NULL]
    BY <1>7 DEF read_return, Main, machine, StartInv
  <2> QED
    BY <2>1, <1>0 DEF ClockInv
<1>8. CASE Proceed /\ ~timer_init /\ ~(read_first("lo") \/ read_first("hi")) /\ ~read_second
           /\ ~read_return
  <2>1. Plain
    BY <1>8 DEF Proceed, StartInv, idt_init, irq_install_handler, multitasking_cli,
              multitasking_kmalloc, multitasking_abort, multitasking_task, multitasking_reset,
              multitasking_sti, install_no_memory,
              install_link, install_publish, install_kmalloc, Main, machine, locals
  <2> QED
    BY <2>1, <1>3
<1>9. CASE Choose \/ isr_handler
  <2>1. Plain
    BY <1>9 DEF Choose, lock_scheduler, unlock_scheduler, call, uninstall_timer_event,
              irq_install_handler, irq_uninstall_handler, isr_handler, Main, machine, locals
  <2> QED
    BY <2>1, <1>3
<1> QED
  BY <1>4, <1>5, <1>6, <1>7, <1>8, <1>9

(***************************************************************************)
(* The inductive invariant holds.                                          *)
(***************************************************************************)
LEMMA InitInv == Init => IInv
<1> SUFFICES ASSUME Init PROVE IInv
  OBVIOUS
<1>1. StackInv
  <2>1. << >> \in Seq(Frames) /\ Len(<< >>) = 0 /\ 1 .. 0 = {}
    OBVIOUS
  <2>2. HandlersExclusive
    BY <2>1 DEF Init, HandlersExclusive
  <2>3. /\ irq_routines \in [0 .. 15 -> {NULL, "irq_0_handler", "irq_1_handler"}]
        /\ \A line \in 0 .. 15 : irq_routines[line] # "irq_0_handler"
    BY NullAssumption DEF Init
  <2> QED
    BY <2>1, <2>2, <2>3 DEF Init, StackInv
<1>2. ListInv
  <2>1. << >> \in Seq(Events) /\ Len(<< >>) = 0 /\ 1 .. 0 = {}
    OBVIOUS
  <2>2. Chain(<< >>) /\ Walked(<< >>)
    BY <2>1 DEF Init, Chain, Walked, At
  <2> QED
    BY <2>1, <2>2 DEF Init, ListInv
<1>3. StartInv
  BY DEF Init, StartInv, Early, Reading, Installing, Later
<1>4. ClockInv
  <2>1. Word \in Nat \ {0} /\ MaxTicks \in Nat
    BY BoundsAssumption
  <2>2. 0 % Word = 0 /\ 0 \div Word = 0 /\ 0 \in 0 .. MaxTicks
    BY <2>1
  <2> QED
    BY <2>2 DEF Init, ClockInv, Reading
<1> QED
  BY <1>1, <1>2, <1>3, <1>4 DEF IInv

\* Nothing that the invariant speaks of, except the request lines, changes.
LEMMA StillInv ==
  ASSUME IInv, UNCHANGED <<intr, stack, isr, list, clock, main, ran>>
  PROVE  IInv'
<1> USE DEF list, clock, main, locals
<1>1. StackInv'
  BY DEF IInv, StackInv, HandlersExclusive, Frame, Owes
<1>2. ListInv'
  BY DEF IInv, ListInv, Chain, Walked, Frame
<1>3. StartInv'
  BY DEF IInv, StartInv
<1>4. ClockInv => ClockInv'
  BY DEF ClockInv
<1> QED
  BY <1>1, <1>2, <1>3, <1>4 DEF IInv

\* Every step preserves the invariant.
LEMMA Inductive == IInv /\ [Next]_vars => IInv'
<1> SUFFICES ASSUME IInv, [Next]_vars PROVE IInv'
  OBVIOUS
<1> USE DEF IInv
<1>1. CASE Handler
  <2>1. UNCHANGED <<pc, back, current_task_PCB, irq_routines, installed>>
    BY <1>1 DEF Handler, irq_handler, irq_0_handler, run_event, next_event, irq_0_return,
                irq_1_handler, eoi_slave, eoi_master, iret, Goto, main, locals, list
  <2>2. StartInv'
    BY <2>1 DEF StartInv
  <2> QED
    BY <2>2, <1>1, HandlerStack, HandlerList, HandlerClock
<1>2. CASE Proceed \/ Choose \/ isr_handler
  BY <1>2, MainStack, MainList, MainStart, MainClock
<1>3. CASE Device
  <2>1. PICK line \in Lines : raise(line) \/ irq_common_stub(line)
    BY <1>3 DEF Device
  <2>2. CASE raise(line)
    BY <2>2, StillInv DEF raise
  <2>3. CASE irq_common_stub(line)
    <3>1. UNCHANGED <<list, clock, main>>
      BY <2>3 DEF irq_common_stub
    <3>2. StartInv'
      BY <3>1 DEF StartInv, list, main, locals
    <3>3. ClockInv => ClockInv'
      BY <3>1 DEF ClockInv, clock, main, locals
    <3> QED
      BY <3>2, <3>3, <2>3, DeviceStack, DeviceList
  <2> QED
    BY <2>1, <2>2, <2>3
<1>4. CASE abort_loop \/ UNCHANGED vars
  BY <1>4, StillInv DEF abort_loop, vars, pic
<1> QED
  BY <1>1, <1>2, <1>3, <1>4 DEF Next

\* The invariant holds in every reachable state.
LEMMA Invariance == Spec => []IInv
<1> QED
  BY InitInv, Inductive, PTL DEF Spec

(***************************************************************************)
(* The properties follow.                                                  *)
(***************************************************************************)
LEMMA ExclusiveFollows == IInv => HandlersExclusive
BY DEF IInv, StackInv

\* The lines in service are those of the handler before its EOI.
LEMMA MatchesFollows == IInv => InServiceMatches
<1> SUFFICES ASSUME StackInv
             PROVE  isr = UNION {Owes(stack[i]) : i \in 1 .. Len(stack)}
  BY DEF IInv, InServiceMatches
<1>1. CASE stack = << >>
  <2>1. 1 .. Len(stack) = {} /\ isr = {}
    BY <1>1 DEF StackInv
  <2> QED
    BY <2>1
<1>2. CASE stack # << >>
  <2>1. Len(stack) \in 1 .. Len(stack) /\ isr = Owes(stack[Len(stack)])
    BY <1>2 DEF StackInv, Frame
  <2>2. \A i \in 1 .. Len(stack) : i # Len(stack) => Owes(stack[i]) = {}
    <3>1. \A i \in 1 .. Len(stack) : i # Len(stack) => stack[i].pc = "iret"
      BY DEF StackInv, HandlersExclusive
    <3> QED
      BY <3>1 DEF Owes
  <2> QED
    BY <2>1, <2>2
<1> QED
  BY <1>1, <1>2

\* A list without repetitions is as long as the set of its nodes is large.
LEMMA ChainLength ==
  ASSUME NEW s \in Seq(Events), Chain(s)
  PROVE  Cardinality(installed) = Len(s)
<1>1. s \in [1 .. Len(s) -> installed] /\ Len(s) \in Nat
  BY DEF Chain
<1>2. s \in Bijection(1 .. Len(s), installed)
  <2>1. \A i, j \in 1 .. Len(s) : s[i] = s[j] => i = j
    BY DEF Chain
  <2>2. \A e \in installed : \E i \in 1 .. Len(s) : s[i] = e
    BY DEF Chain
  <2> QED
    BY <1>1, <2>1, <2>2 DEF Bijection, Injection, Surjection, IsInjective
<1> QED
  BY <1>1, <1>2, FS_CountingElements DEF ExistsBijection

\* What the walk ran is the part of the list in front of the cursor.
LEMMA RunOnceFollows == IInv => EventsRunOnce
<1> SUFFICES ASSUME StackInv, ListInv, NEW i \in 1 .. Len(stack)
             PROVE  /\ stack[i].node # NULL => stack[i].node \in installed \cap allocated
                    /\ (stack[i].pc = "walk" /\ stack[i].node = NULL) =>
                        /\ Len(ran) = Cardinality(installed)
                        /\ \A e \in installed : \E j \in 1 .. Len(ran) : ran[j] = e
  BY DEF IInv, EventsRunOnce
<1>1. PICK s \in Seq(Events) : Chain(s) /\ Walked(s)
  BY DEF ListInv
<1>2. CASE stack[i].pc \notin {"walk", "next"}
  BY <1>2 DEF ListInv
<1>3. CASE stack[i].pc \in {"walk", "next"}
  <2>1. i = Len(stack) /\ stack # << >> /\ stack[i] = Frame
    <3>1. HandlersExclusive /\ Len(stack) \in Nat
      BY DEF StackInv
    <3>2. ~(i < Len(stack))
      BY <1>3, <3>1 DEF HandlersExclusive
    <3>3. i = Len(stack) /\ Len(stack) # 0
      BY <3>1, <3>2
    <3> QED
      BY <3>3 DEF Frame
  <2>2. /\ Len(s) \in Nat /\ Len(ran) \in Nat /\ Len(ran) <= Len(s)
        /\ \A j \in 1 .. Len(ran) : ran[j] = s[j]
        /\ installed = {s[j] : j \in 1 .. Len(s)} /\ installed \subseteq allocated
        /\ \A j \in 1 .. Len(s) : s[j] # NULL
    <3>1. \A j \in 1 .. Len(s) : s[j] # NULL
      BY BoundsAssumption
    <3>2. Len(s) \in Nat /\ Len(ran) \in Nat
      BY DEF ListInv
    <3> QED
      BY <3>1, <3>2, <1>1 DEF ListInv, Walked, Chain
  <2>3. CASE Frame.pc = "next"
    <3>1. Frame.node = s[Len(ran)] /\ Len(ran) \in 1 .. Len(s)
      BY <1>1, <2>1, <2>2, <2>3 DEF Walked
    <3> QED
      BY <3>1, <2>1, <2>2, <2>3
  <2>4. CASE Frame.pc = "walk"
    <3>1. Frame.node = IF Len(ran) + 1 <= Len(s) THEN s[Len(ran) + 1] ELSE NULL
      BY <1>1, <2>1, <2>4 DEF Walked, At
    <3>2. CASE Len(ran) + 1 <= Len(s)
      <4>1. Len(ran) + 1 \in 1 .. Len(s)
        BY <3>2, <2>2
      <4> QED
        BY <4>1, <3>1, <3>2, <2>1, <2>2
    <3>3. CASE ~(Len(ran) + 1 <= Len(s))
      <4>1. Len(ran) = Len(s) /\ Frame.node = NULL
        BY <3>1, <3>3, <2>2
      <4>2. Len(ran) = Cardinality(installed)
        BY <4>1, <1>1, ChainLength
      <4>3. \A e \in installed : \E j \in 1 .. Len(ran) : ran[j] = e
        BY <4>1, <2>2
      <4> QED
        BY <4>1, <4>2, <4>3, <2>1
    <3> QED
      BY <3>2, <3>3
  <2> QED
    BY <1>3, <2>1, <2>3, <2>4
<1> QED
  BY <1>2, <1>3

\* The events are installed after the current task is set.
LEMMA AfterInitFollows == IInv => EventsAfterInit
<1> SUFFICES ASSUME ListInv, StartInv, ran # << >>
             PROVE  current_task_PCB # NULL
  BY DEF IInv, EventsAfterInit
<1>1. PICK s \in Seq(Events) : Chain(s) /\ Walked(s)
  BY DEF ListInv
<1>2. ran \in Seq(Events) /\ Len(ran) # 0 /\ Len(ran) <= Len(s) /\ Len(ran) \in Nat
  BY <1>1 DEF ListInv, Walked
<1>3. 1 \in 1 .. Len(s)
  BY <1>2
<1>4. installed # {}
  BY <1>1, <1>3 DEF Chain
<1> QED
  BY <1>4 DEF StartInv

\* Words of two moments between which the upper word did not change.
LEMMA MixedWords ==
  ASSUME NEW a \in Nat, NEW b \in Nat, a <= b, NEW n \in a .. b, a \div Word = b \div Word
  PROVE  /\ (n \div Word) * Word + (a % Word) = a
         /\ (a \div Word) * Word + (n % Word) = n
<1>1. Word \in Nat \ {0}
  BY BoundsAssumption
<1> DEFINE qa == a \div Word
           qb == b \div Word
           qn == n \div Word
           ra == a % Word
           rb == b % Word
           rn == n % Word
<1>2. /\ a = Word * qa + ra /\ ra \in 0 .. Word - 1 /\ qa \in Int
      /\ b = Word * qb + rb /\ rb \in 0 .. Word - 1 /\ qb \in Int
      /\ n = Word * qn + rn /\ rn \in 0 .. Word - 1 /\ qn \in Int
  <2>1. a \in Int /\ b \in Int /\ n \in Int
    OBVIOUS
  <2> QED
    BY <1>1, <2>1, DivBound
<1>3. qa = qb
  OBVIOUS
<1> HIDE DEF qa, qb, qn, ra, rb, rn
<1>4. Word * qa \in Int /\ Word * qb \in Int /\ Word * qn \in Int
  BY <1>1, <1>2
<1>5. a <= n /\ n <= b /\ a \in Int /\ n \in Int /\ b \in Int
  OBVIOUS
<1>6. ~(qn < qa)
  <2> SUFFICES ASSUME qn < qa PROVE FALSE
    OBVIOUS
  <2>1. Word * qn + Word <= Word * qa
    BY <1>1, <1>2, MulStep
  <2> QED
    BY <2>1, <1>1, <1>2, <1>4, <1>5
<1>7. ~(qb < qn)
  <2> SUFFICES ASSUME qb < qn PROVE FALSE
    OBVIOUS
  <2>1. Word * qb + Word <= Word * qn
    BY <1>1, <1>2, MulStep
  <2> QED
    BY <2>1, <1>1, <1>2, <1>4, <1>5
<1>8. qn = qa
  BY <1>2, <1>3, <1>6, <1>7
<1>9. qn * Word = Word * qn /\ qa * Word = Word * qn
  BY <1>1, <1>2, <1>8
<1>10. qn * Word + ra = a /\ qa * Word + rn = n
  BY <1>2, <1>8, <1>9
<1> QED
  BY <1>10 DEF qa, qn, ra, rn

\* Two words read at two moments lie between the two clocks.
LEMMA ReadFollows == NoWrap /\ IInv => ClockReadSound
<1> SUFFICES ASSUME ClockInv, pc = "read_return", start \div Word = now \div Word
             PROVE  start <= Value(rd) /\ Value(rd) <= now
  BY DEF IInv, ClockReadSound
<1>1. /\ start \in 0 .. now /\ now \in Nat
  BY BoundsAssumption DEF ClockInv
<1>2. PICK n \in start .. now : \/ rd = [lo |-> start % Word, hi |-> n \div Word]
                                \/ rd = [lo |-> n % Word, hi |-> start \div Word]
  BY DEF ClockInv
<1>3. start \in Nat /\ start <= now
  BY <1>1
<1>4. /\ (n \div Word) * Word + (start % Word) = start
      /\ (start \div Word) * Word + (n % Word) = n
  BY <1>1, <1>3, MixedWords
<1>5. Value(rd) = start \/ Value(rd) = n
  BY <1>2, <1>4 DEF Value
<1> QED
  BY <1>1, <1>3, <1>5

(***************************************************************************)
(* Theorems                                                                *)
(***************************************************************************)
\* At most one interrupt handler is at work at any time, whatever nests: the unlock
\* inside a timer event sets IF before irq_handler has sent its EOI, but line 0 in
\* service holds every other line back until then.  For any set of lines, any number
\* of events and any depth of the stack.
THEOREM OneHandlerAtWork == Spec => []HandlersExclusive
BY Invariance, ExclusiveFollows, PTL

\* The EOI of irq_handler, which names no line, ends the line of its own frame, on
\* one PIC or both, and no line stays in service without a frame that will end it.
THEOREM EoiEndsItsOwn == Spec => []InServiceMatches
BY Invariance, MatchesFollows, PTL

\* Each walk of irq_0_handler runs every installed event once and touches nothing
\* else, however install_timer_event, which does not lock, and uninstall_timer_event
\* interleave with ticks.
THEOREM WalkRunsAll == Spec => []EventsRunOnce
BY Invariance, RunOnceFollows, PTL

\* No timer event runs before multitasking_initialize has made a task current.
THEOREM NoEventBeforeTask == Spec => []EventsAfterInit
BY Invariance, AfterInitFollows, PTL

\* The two loads of read_ticks_since_boot, in either order and with any number of
\* ticks between them, give a time between the two, unless the upper word changed.
\* As long as the 64-bit count itself does not run over.
THEOREM ReadBetween ==
  ASSUME NoWrap
  PROVE  Spec => []ClockReadSound
BY Invariance, ReadFollows, PTL
=============================================================================
