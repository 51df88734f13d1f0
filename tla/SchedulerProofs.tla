-------------------------- MODULE SchedulerProofs --------------------------
(***************************************************************************)
(* The invariant of the scheduler's control: who runs, where the others    *)
(* wait and which locks are open, for any number of tasks, any program     *)
(* made of the three task functions and any clock.  What dead_tasks_cleanup*)
(* does to it depends on the lists, so the theorems that rest on it are in *)
(* SchedulerListsProofs.                                                   *)
(***************************************************************************)
EXTENDS Scheduler, FiniteSetTheorems, TLAPS

(***************************************************************************)
(* The inductive invariant.                                                *)
(***************************************************************************)
Kernel == ScheduleBody \cup {"yield", "schedule", "unlock", "unlock_tail"}
MainPlace == MainLocation \cup Kernel
TaskPlace == TaskLocation \cup Kernel
MainAfter == {"created", "loop", "hlt", "idle"}
TaskAfter == {"body", "block_sleeping", "blocked_sleeping", "block_terminated",
              "blocked_for_good"}
ParkedPlace == {"free", "start", "unlock_tail", "slept", "body", "abort"}
ReturnPlace == {"unlock", "unlock_tail", "slept", "body", "abort"}

\* Types of what decides who runs and whether interrupts are enabled.
ControlTypes ==
    /\ current_task_PCB \in TCB
    /\ IRQ_disable_counter \in Int /\ postpone_task_switches_counter \in Int
    /\ task_switches_postponed_flag \in {0, 1}
    /\ intr \in BOOLEAN /\ irq \in {"none", "timer"}
    /\ DOMAIN pc = TCB /\ pc = [t \in TCB |-> pc[t]]
    /\ DOMAIN after = TCB /\ after = [t \in TCB |-> after[t]]
    /\ ret \in [TCB -> ReturnPlace]

\* A task that is not running is at one of these places.
Parked == \A t \in TCB : t # current_task_PCB => pc[t] \in ParkedPlace

\* kernel_main leaves the CPU only from inside unlock_scheduler, so while any
\* other task runs one lock is open.  This is what keeps interrupts disabled in
\* the unlocked calls of schedule().
MainAway == current_task_PCB # Main => pc[Main] = "unlock_tail"

MainControl ==
    pc[Main] \in MainPlace /\ after[Main] \in MainAfter /\ ret[Main] \in {"unlock", "unlock_tail"}

TaskControl ==
    \A t \in TCB : t # Main => pc[t] \in TaskPlace /\ after[t] \in TaskAfter

\* schedule() gets past its early returns only unlocked and with a task to run.
BodyControl ==
    /\ pc[current_task_PCB] \in ScheduleBody => ret[current_task_PCB] # "unlock"
    /\ pc[current_task_PCB] = "pop" => first_ready_to_run_task # NULL
    /\ pc[current_task_PCB] \in ScheduleBody \ {"pop"} => next_task # NULL

Control == /\ Parked /\ MainAway /\ MainControl /\ TaskControl /\ BodyControl
           /\ PostponeClean /\ ScheduleUninterrupted

(***************************************************************************)
(* The shapes a step's effect on the control variables can have.           *)
(***************************************************************************)
\* The running task goes to l.
Moves(l) ==
    /\ irq = "none" /\ UNCHANGED <<current_task_PCB, irq>>
    /\ pc' = [pc EXCEPT ![current_task_PCB] = l]

KeepsOrSetsAfter ==
    \/ UNCHANGED after
    \/ /\ current_task_PCB = Main
       /\ \E a \in MainAfter : after' = [after EXCEPT ![current_task_PCB] = a]
    \/ /\ current_task_PCB # Main
       /\ \E a \in TaskAfter : after' = [after EXCEPT ![current_task_PCB] = a]

\* Nothing the control invariant looks at changes.
Idle == UNCHANGED <<current_task_PCB, irq, pc, locks, ret, after, first_ready_to_run_task, next_task>>

\* From one place outside every critical region to another.
CalmMove(l) ==
    /\ pc[current_task_PCB] \notin Critical /\ l \notin Critical
    /\ Moves(l) /\ UNCHANGED <<locks, ret, first_ready_to_run_task, next_task>>
    /\ (current_task_PCB = Main => l \in MainPlace) /\ (current_task_PCB # Main => l \in TaskPlace)
    /\ KeepsOrSetsAfter

\* lock_scheduler, up to the unlock or to a call of schedule() under the lock.
Acquires ==
    /\ pc[current_task_PCB] \notin {"unlock", "freeing", "unlock_tail", "schedule"} \cup ScheduleBody
    /\ lock_scheduler
    /\ UNCHANGED <<task_switches_postponed_flag, first_ready_to_run_task, next_task>>
    /\ \/ Moves("unlock") /\ UNCHANGED ret
       \/ Moves("freeing") /\ current_task_PCB = Main /\ UNCHANGED ret
       \/ Moves("schedule") /\ ret' = [ret EXCEPT ![current_task_PCB] = "unlock"]
    /\ KeepsOrSetsAfter

\* A task other than kernel_main on its way off the CPU.
Leaves(l) ==
    /\ pc[current_task_PCB] \in {"slept", "blocked_sleeping", "blocked_for_good"}
    /\ Moves(l) /\ UNCHANGED <<locks, after, first_ready_to_run_task, next_task>>
    /\ \/ l = "terminate" /\ UNCHANGED ret
       \/ /\ l = "schedule"
          /\ \E r \in {"slept", "body", "abort"} : ret' = [ret EXCEPT ![current_task_PCB] = r]

\* From one statement of schedule() to the next.
BodyMove(l) ==
    /\ pc[current_task_PCB] \in ScheduleBody /\ l \in ScheduleBody \ {"pop"}
    /\ Moves(l) /\ UNCHANGED <<locks, after, ret>>
    /\ next_task' # NULL

\* A step that changes no control variable preserves Control.
LEMMA IdleControl ==
  ASSUME Control, Idle
  PROVE  Control'
BY DEF Control, Idle, Parked, MainAway, MainControl, TaskControl, BodyControl,
       PostponeClean, ScheduleUninterrupted, InHandler, locks

\* What KeepsOrSetsAfter means for the return address of each task's unlock.
LEMMA AfterStep ==
  ASSUME ControlTypes, MainControl, TaskControl, KeepsOrSetsAfter
  PROVE  /\ after'[Main] \in MainAfter
         /\ \A t \in TCB : t # Main => after'[t] \in TaskAfter
BY TCBAssumption DEF MainControl, TaskControl, ControlTypes, KeepsOrSetsAfter

\* Moving between places outside the critical regions preserves Control.
LEMMA CalmControl ==
  ASSUME ControlTypes, Control, NEW l, CalmMove(l)
  PROVE  Control'
<1> USE TCBAssumption DEF ControlTypes, Control, CalmMove, Moves, locks
<1>1. Parked'
  BY DEF Parked
<1>2. MainAway'
  BY DEF MainAway
<1>3. MainControl'
  BY AfterStep DEF MainControl
<1>4. TaskControl'
  BY AfterStep DEF TaskControl
<1>5. BodyControl'
  BY DEF BodyControl, Critical, ScheduleBody
<1>6. PostponeClean'
  BY DEF PostponeClean, InHandler, Critical
<1>7. ScheduleUninterrupted'
  BY DEF ScheduleUninterrupted
<1> QED
  BY <1>1, <1>2, <1>3, <1>4, <1>5, <1>6, <1>7

\* lock_scheduler preserves Control: it clears IF before it counts.
LEMMA AcquireControl ==
  ASSUME ControlTypes, Control, Acquires
  PROVE  Control'
<1> USE TCBAssumption DEF ControlTypes, Control, Acquires, Moves, lock_scheduler
<1>1. Parked'
  BY DEF Parked
<1>2. MainAway'
  BY DEF MainAway
<1>3. MainControl'
  BY AfterStep DEF MainControl, MainPlace, MainLocation, Kernel
<1>4. TaskControl'
  BY AfterStep DEF TaskControl, TaskPlace, Kernel
<1>5. BodyControl'
  BY DEF BodyControl, ScheduleBody
<1>6. PostponeClean'
  BY DEF PostponeClean, InHandler
<1>7. ScheduleUninterrupted'
  BY DEF ScheduleUninterrupted
<1> QED
  BY <1>1, <1>2, <1>3, <1>4, <1>5, <1>6, <1>7

\* A task on its way off the CPU preserves Control: IF is already clear.
LEMMA LeaveControl ==
  ASSUME ControlTypes, Control, NEW l, Leaves(l)
  PROVE  Control'
<1> USE TCBAssumption DEF ControlTypes, Control, Leaves, Moves, locks
<1>0. current_task_PCB # Main
  BY DEF MainControl, MainPlace, Kernel, MainLocation, ScheduleBody
<1>1. Parked'
  BY DEF Parked
<1>2. MainAway'
  BY DEF MainAway
<1>3. MainControl'
  BY <1>0 DEF MainControl
<1>4. TaskControl'
  BY DEF TaskControl, TaskPlace, Kernel, TaskLocation
<1>5. BodyControl'
  BY DEF BodyControl, ScheduleBody
<1>6. PostponeClean'
  BY DEF PostponeClean, InHandler
<1>7. ScheduleUninterrupted'
  BY DEF ScheduleUninterrupted, Critical
<1> QED
  BY <1>1, <1>2, <1>3, <1>4, <1>5, <1>6, <1>7

\* The statements of schedule() preserve Control.
LEMMA BodyMoveControl ==
  ASSUME ControlTypes, Control, NEW l, BodyMove(l)
  PROVE  Control'
<1> USE TCBAssumption DEF ControlTypes, Control, BodyMove, Moves, locks
<1>1. Parked'
  BY DEF Parked
<1>2. MainAway'
  BY DEF MainAway
<1>3. MainControl'
  BY DEF MainControl, MainPlace, Kernel
<1>4. TaskControl'
  BY DEF TaskControl, TaskPlace, Kernel
<1>5. BodyControl'
  BY DEF BodyControl
<1>6. PostponeClean'
  BY DEF PostponeClean, InHandler, ScheduleBody
<1>7. ScheduleUninterrupted'
  BY DEF ScheduleUninterrupted, Critical
<1> QED
  BY <1>1, <1>2, <1>3, <1>4, <1>5, <1>6, <1>7

\* The first half of unlock_scheduler preserves Control.
LEMMA UnlockControl ==
  ASSUME ControlTypes, Control, unlock_scheduler
  PROVE  Control'
<1> USE TCBAssumption DEF ControlTypes, Control, unlock_scheduler, Running, Goto, CallSchedule
<1>1. Parked'
  BY DEF Parked
<1>2. MainAway'
  BY DEF MainAway
<1>3. MainControl'
  BY DEF MainControl, MainPlace, Kernel
<1>4. TaskControl'
  BY DEF TaskControl, TaskPlace, Kernel
<1>5. BodyControl'
  BY DEF BodyControl, ScheduleBody
<1>6. PostponeClean'
  BY DEF PostponeClean, InHandler, timer
<1>7. ScheduleUninterrupted'
  BY DEF ScheduleUninterrupted, Critical, timer
<1> QED
  BY <1>1, <1>2, <1>3, <1>4, <1>5, <1>6, <1>7

\* The second half of unlock_scheduler preserves Control, if it sets IF only
\* for kernel_main.
LEMMA UnlockTailControl ==
  ASSUME ControlTypes, Control, unlock_tail,
         current_task_PCB # Main => IRQ_disable_counter # 1
  PROVE  Control'
<1> USE TCBAssumption DEF ControlTypes, Control, unlock_tail, Running, Goto
<1>1. Parked'
  BY DEF Parked
<1>2. MainAway'
  BY DEF MainAway
<1>3. MainControl'
  BY DEF MainControl, MainPlace, MainLocation, MainAfter
<1>4. TaskControl'
  BY DEF TaskControl, TaskPlace, TaskLocation, TaskAfter
<1>5. BodyControl'
  BY DEF BodyControl, ScheduleBody, MainControl, TaskControl, MainAfter, TaskAfter
<1>6. PostponeClean'
  BY DEF PostponeClean, InHandler, timer, MainControl, TaskControl, MainAfter, TaskAfter
<1>7. ScheduleUninterrupted'
  <2>1. CASE current_task_PCB = Main
    BY <2>1 DEF ScheduleUninterrupted, Critical, ScheduleBody, timer, MainControl, MainAfter
  <2>2. CASE current_task_PCB # Main
    BY <2>2 DEF ScheduleUninterrupted, Critical, timer
  <2> QED
    BY <2>1, <2>2
<1> QED
  BY <1>1, <1>2, <1>3, <1>4, <1>5, <1>6, <1>7

\* The early returns of schedule() preserve Control: under a lock it returns to
\* the unlock.
LEMMA EnterControl ==
  ASSUME ControlTypes, Control, schedule_enter
  PROVE  Control'
<1> USE TCBAssumption DEF ControlTypes, Control, schedule_enter, Running, Goto
<1>0. postpone_task_switches_counter # 0 => ret[current_task_PCB] = "unlock"
  BY DEF PostponeClean, InHandler
<1>00. postpone_task_switches_counter = 0 => ret[current_task_PCB] # "unlock"
  BY DEF PostponeClean, InHandler
<1>1. Parked'
  BY DEF Parked
<1>2. MainAway'
  BY DEF MainAway
<1>3. MainControl'
  BY DEF MainControl, MainPlace, Kernel, ScheduleBody
<1>4. TaskControl'
  BY DEF TaskControl, TaskPlace, TaskLocation, Kernel, ScheduleBody, ReturnPlace
<1>5. BodyControl'
  BY <1>0, <1>00 DEF BodyControl, ScheduleBody, ReturnPlace, lists
<1>6. PostponeClean'
  BY <1>0, <1>00 DEF PostponeClean, InHandler, timer, ReturnPlace
<1>7. ScheduleUninterrupted'
  BY DEF ScheduleUninterrupted, Critical, timer
<1> QED
  BY <1>1, <1>2, <1>3, <1>4, <1>5, <1>6, <1>7

\* _switch_to_task preserves Control: the task that leaves is parked, and IF
\* goes over, clear, to the one that comes.
LEMMA SwitchControl ==
  ASSUME ControlTypes, Control, next_task \in Ptr, switch_to_task
  PROVE  Control'
<1> USE TCBAssumption DEF ControlTypes, Control, switch_to_task, Running, Goto
<1>0. /\ postpone_task_switches_counter = 0
      /\ task_switches_postponed_flag = 0
      /\ ret[current_task_PCB] \in {"unlock_tail", "slept", "body", "abort"}
      /\ next_task \in TCB
  BY DEF PostponeClean, InHandler, BodyControl, ScheduleBody, ReturnPlace, Ptr
<1>00. current_task_PCB' = next_task
  BY <1>0
<1>01. pc' = [pc EXCEPT ![current_task_PCB] = ret[current_task_PCB]] /\ irq = "none"
  OBVIOUS
<1>1. Parked'
  BY <1>0, <1>00, <1>01 DEF Parked, ParkedPlace
<1>10. pc'[next_task] \in ParkedPlace
  BY <1>0, <1>00, <1>01 DEF Parked, ParkedPlace
<1>2. MainAway'
  BY <1>0, <1>00, <1>01 DEF MainAway, MainControl
<1>3. MainControl'
  BY <1>0, <1>01 DEF MainControl, MainPlace, Kernel
<1>4. TaskControl'
  BY <1>0, <1>01 DEF TaskControl, TaskPlace, TaskLocation, Kernel
<1>5. BodyControl'
  BY <1>00, <1>10 DEF BodyControl, ScheduleBody, ParkedPlace
<1>6. PostponeClean'
  BY <1>0, <1>00, <1>10 DEF PostponeClean, InHandler, timer, ParkedPlace
<1>7. ScheduleUninterrupted'
  BY <1>01 DEF ScheduleUninterrupted, Critical, ScheduleBody, timer
<1> QED
  BY <1>1, <1>2, <1>3, <1>4, <1>5, <1>6, <1>7

\* task_start_up preserves Control: it sets IF outside every critical region.
LEMMA StartControl ==
  ASSUME ControlTypes, Control, task_start_up
  PROVE  Control'
<1> USE TCBAssumption DEF ControlTypes, Control, task_start_up, Running, Goto
<1>0. current_task_PCB # Main
  BY DEF MainControl, MainPlace, Kernel, MainLocation, ScheduleBody
<1>1. Parked'
  BY DEF Parked
<1>2. MainAway'
  BY DEF MainAway
<1>3. MainControl'
  BY <1>0 DEF MainControl
<1>4. TaskControl'
  BY DEF TaskControl, TaskPlace, TaskLocation
<1>5. BodyControl'
  BY DEF BodyControl, ScheduleBody
<1>6. PostponeClean'
  BY DEF PostponeClean, InHandler, timer
<1>7. ScheduleUninterrupted'
  BY DEF ScheduleUninterrupted, Critical, ScheduleBody, timer
<1> QED
  BY <1>1, <1>2, <1>3, <1>4, <1>5, <1>6, <1>7

\* create_kernel_task preserves Control.
LEMMA CreateControl ==
  ASSUME ControlTypes, Control, create_kernel_task
  PROVE  Control'
<1> USE TCBAssumption DEF ControlTypes, Control
<1>0. current_task_PCB = Main
  BY DEF create_kernel_task, Running, TaskControl, TaskPlace, TaskLocation, Kernel, ScheduleBody
<1>1. PICK t \in TCB :
         /\ pc[t] = "free"
         /\ after' = [after EXCEPT ![current_task_PCB] = "created"]
         /\ pc' = [pc EXCEPT ![t] = "start", ![current_task_PCB] = "unlock"]
  BY DEF create_kernel_task, LockUntil
<1>2. t # Main
  BY <1>1 DEF MainControl, MainPlace, MainLocation, Kernel, ScheduleBody
<1>3. /\ pc[Main] = "create" /\ irq = "none" /\ irq' = irq
      /\ current_task_PCB' = Main /\ ret' = ret
  BY <1>0 DEF create_kernel_task, Running, MainFrame, timer
<1>4. /\ intr' = FALSE
      /\ postpone_task_switches_counter' = postpone_task_switches_counter + 1
      /\ task_switches_postponed_flag' = task_switches_postponed_flag
  BY DEF create_kernel_task, LockUntil, lock_scheduler
<1>5. pc'[Main] = "unlock" /\ pc'[t] = "start" /\ \A x \in TCB \ {Main, t} : pc'[x] = pc[x]
  BY <1>0, <1>1, <1>2
<1>6. after'[Main] = "created" /\ \A x \in TCB \ {Main} : after'[x] = after[x]
  BY <1>0, <1>1
<1>7. Parked' /\ MainAway'
  BY <1>0, <1>3, <1>5 DEF Parked, ParkedPlace, MainAway
<1>8. MainControl'
  BY <1>3, <1>5, <1>6 DEF MainControl, MainPlace, Kernel, MainAfter
<1>9. TaskControl'
  BY <1>5, <1>6 DEF TaskControl, TaskPlace, TaskLocation
<1>10. BodyControl'
  BY <1>3, <1>5 DEF BodyControl, ScheduleBody
<1>11. PostponeClean'
  BY <1>0, <1>3, <1>4, <1>5 DEF PostponeClean, InHandler
<1>12. ScheduleUninterrupted'
  BY <1>3, <1>4 DEF ScheduleUninterrupted
<1> QED
  BY <1>7, <1>8, <1>9, <1>10, <1>11, <1>12

\* The timer interrupt comes in: only a place outside every critical region can
\* be interrupted, and it stays the place the handler returns to.
LEMMA IrqEnterControl ==
  ASSUME ControlTypes, Control, irq_0_handler
  PROVE  Control'
<1> USE TCBAssumption DEF ControlTypes, Control
<1>0. /\ pc[current_task_PCB] \notin Critical /\ irq = "none" /\ irq' = "timer"
      /\ UNCHANGED <<current_task_PCB, ret, after, next_task, first_ready_to_run_task,
                     task_switches_postponed_flag>>
      /\ postpone_task_switches_counter' = postpone_task_switches_counter + 1
      /\ intr' = FALSE
  BY DEF irq_0_handler, Interruptible, ScheduleUninterrupted, IrqFrame, lock_scheduler, lists
<1>1. /\ pc'[current_task_PCB] = IF pc[current_task_PCB] = "halted" THEN "loop"
                                 ELSE pc[current_task_PCB]
      /\ \A t \in TCB : t # current_task_PCB => pc'[t] = pc[t]
  BY DEF irq_0_handler, Wake
<1>2. Parked' /\ MainAway'
  BY <1>0, <1>1 DEF Parked, MainAway
<1>3. MainControl'
  BY <1>0, <1>1 DEF MainControl, MainPlace, MainLocation
<1>4. TaskControl'
  BY <1>0, <1>1 DEF TaskControl, TaskPlace, TaskLocation, Kernel, ScheduleBody
<1>5. BodyControl'
  BY <1>0, <1>1 DEF BodyControl, Critical, ScheduleBody
<1>6. PostponeClean'
  BY <1>0, <1>1 DEF PostponeClean, InHandler, Critical
<1>7. ScheduleUninterrupted'
  BY <1>0, <1>1 DEF ScheduleUninterrupted, Critical, ScheduleBody
<1> QED
  BY <1>2, <1>3, <1>4, <1>5, <1>6, <1>7

\* The handler walk of internal_update_awoken_taskes preserves Control.
LEMMA WakeControl ==
  ASSUME ControlTypes, Control, unblock_task \/ still_sleeping
  PROVE  Control'
<1> USE TCBAssumption DEF ControlTypes, Control
<1>1. /\ UNCHANGED <<current_task_PCB, irq, pc, locks, ret, after, next_task>>
      /\ irq = "timer"
  BY DEF unblock_task, still_sleeping, IrqFrame
<1>2. pc[current_task_PCB] \notin Critical
  BY <1>1 DEF ScheduleUninterrupted
<1>3. BodyControl'
  BY <1>1, <1>2 DEF BodyControl, Critical, ScheduleBody
<1> QED
  BY <1>1, <1>3 DEF Parked, MainAway, MainControl, TaskControl, PostponeClean,
                    ScheduleUninterrupted, InHandler, locks

\* The end of the timer handler preserves Control.
LEMMA IrqReturnControl ==
  ASSUME ControlTypes, Control, irq_0_return
  PROVE  Control'
<1> USE TCBAssumption DEF ControlTypes, Control
<1>1. /\ UNCHANGED <<current_task_PCB, pc, ret, after, next_task, first_ready_to_run_task,
                     task_switches_postponed_flag>>
      /\ postpone_task_switches_counter' = postpone_task_switches_counter - 1
      /\ irq = "timer" /\ irq' = "none"
  BY DEF irq_0_return, IrqFrame, lists
<1>2. pc[current_task_PCB] \notin Critical
  BY <1>1 DEF ScheduleUninterrupted
<1>3. ScheduleUninterrupted' /\ PostponeClean'
  BY <1>1, <1>2 DEF ScheduleUninterrupted, PostponeClean, InHandler
<1> QED
  BY <1>1, <1>3 DEF Parked, MainAway, MainControl, TaskControl, BodyControl

\* The keyboard interrupt preserves Control.
LEMMA KeyboardControl ==
  ASSUME ControlTypes, Control, irq_1_handler
  PROVE  Control'
<1> USE TCBAssumption DEF ControlTypes, Control
<1>1. current_task_PCB = Main
  BY DEF irq_1_handler, TaskControl, TaskPlace, TaskLocation, Kernel, ScheduleBody
<1>2. pc' = [pc EXCEPT ![Main] = "loop"] /\ pc[Main] = "halted"
  BY <1>1 DEF irq_1_handler, Wake
<1>3. irq = "none" /\ UNCHANGED <<current_task_PCB, irq, locks, ret, after, next_task,
                                  first_ready_to_run_task>>
  BY DEF irq_1_handler, Interruptible, IrqFrame, timer, lists
<1>4. CalmMove("loop")
  BY <1>1, <1>2, <1>3 DEF CalmMove, Moves, Critical, ScheduleBody, MainPlace, MainLocation,
                         KeepsOrSetsAfter
<1> QED
  BY <1>4, CalmControl

(***************************************************************************)
(* Every step has one of the shapes.                                       *)
(***************************************************************************)
Shape ==
    \/ Idle \/ Acquires \/ \E l : CalmMove(l) \/ Leaves(l) \/ BodyMove(l)
    \/ unlock_scheduler \/ unlock_tail \/ schedule_enter \/ switch_to_task \/ task_start_up
    \/ create_kernel_task \/ irq_0_handler \/ unblock_task \/ still_sleeping \/ irq_0_return
    \/ irq_1_handler

\* Who is running, from where it is.
LEMMA WhoRuns ==
  ASSUME ControlTypes, Control
  PROVE  /\ pc[current_task_PCB] \in TaskLocation => current_task_PCB # Main
         /\ pc[current_task_PCB] \in MainLocation => current_task_PCB = Main
BY TCBAssumption DEF ControlTypes, Control, MainControl, TaskControl, MainPlace, TaskPlace,
     Kernel, ScheduleBody, TaskLocation, MainLocation

\* The statements of schedule() have the shape BodyMove.
LEMMA BodyShape ==
  ASSUME ControlTypes, Control,
         schedule_pop \/ schedule_drain \/ schedule_charge \/ schedule_requeue \/ schedule_link
  PROVE  \E l : BodyMove(l)
<1> USE DEF ScheduleFrame, locks, timer, Running, Goto, BodyMove, Moves, ScheduleBody, lists
<1>0. BodyControl
  BY DEF Control
<1>1. CASE schedule_pop
  <2>1. BodyMove("drain")
    BY <1>0, <1>1 DEF schedule_pop, BodyControl
  <2> QED
    BY <2>1
<1>2. CASE schedule_drain
  <2>1. BodyMove("charge")
    BY <1>0, <1>2 DEF schedule_drain, BodyControl
  <2> QED
    BY <2>1
<1>3. CASE schedule_charge
  <2>1. BodyMove("requeue")
    BY <1>0, <1>3 DEF schedule_charge, BodyControl
  <2> QED
    BY <2>1
<1>4. CASE schedule_requeue
  <2>1. BodyMove("link") \/ BodyMove("switch")
    BY <1>0, <1>4 DEF schedule_requeue, BodyControl
  <2> QED
    BY <2>1
<1>5. CASE schedule_link
  <2>1. BodyMove("switch")
    BY <1>0, <1>5 DEF schedule_link, BodyControl
  <2> QED
    BY <2>1
<1> QED
  BY <1>1, <1>2, <1>3, <1>4, <1>5

\* Every operation that takes the lock has the shape Acquires.
LEMMA AcquireShape ==
  ASSUME ControlTypes, Control,
         \/ yield \/ micro_sleep_until \/ terminate_task \/ mark_task_for_death
         \/ block_task("block_sleeping", TASK_STATE_SLEEPING, "blocked_sleeping")
         \/ block_task("block_terminated", TASK_STATE_TERMINATED, "blocked_for_good")
         \/ create_out_of_memory
  PROVE  Acquires
<1> USE DEF TaskFrame, MainFrame, timer, Running, Goto, Acquires, Moves, LockUntil, lists,
            KeepsOrSetsAfter, CallSchedule, ScheduleBody
<1>1. CASE yield
  BY <1>1 DEF yield
<1>2. CASE micro_sleep_until
  BY <1>2, WhoRuns DEF micro_sleep_until, TaskLocation, TaskAfter
<1>3. CASE terminate_task
  BY <1>3, WhoRuns DEF terminate_task, TaskLocation, TaskAfter
<1>4. CASE mark_task_for_death
  BY <1>4, WhoRuns DEF mark_task_for_death, TaskLocation, TaskAfter
<1>5. CASE block_task("block_sleeping", TASK_STATE_SLEEPING, "blocked_sleeping")
  BY <1>5, WhoRuns DEF block_task, TaskLocation, TaskAfter
<1>6. CASE block_task("block_terminated", TASK_STATE_TERMINATED, "blocked_for_good")
  BY <1>6, WhoRuns DEF block_task, TaskLocation, TaskAfter
<1>7. CASE create_out_of_memory
  BY <1>7, WhoRuns DEF create_out_of_memory, MainLocation, MainAfter
<1> QED
  BY <1>1, <1>2, <1>3, <1>4, <1>5, <1>6, <1>7

\* The unlocked calls of schedule() have the shape Leaves.
LEMMA LeaveShape ==
  ASSUME \/ BlockedSchedule("blocked_sleeping", "slept")
         \/ BlockedSchedule("blocked_for_good", "abort")
         \/ Slept
  PROVE  \E l : Leaves(l)
<1> USE DEF TaskFrame, timer, Running, Goto, Moves, CallSchedule, lists
<1>1. CASE BlockedSchedule("blocked_sleeping", "slept")
  <2>1. Leaves("schedule")
    BY <1>1 DEF BlockedSchedule, Leaves
  <2> QED
    BY <2>1
<1>2. CASE BlockedSchedule("blocked_for_good", "abort")
  <2>1. Leaves("schedule")
    BY <1>2 DEF BlockedSchedule, Leaves
  <2> QED
    BY <2>1
<1>3. CASE Slept
  <2>1. Leaves("terminate") \/ Leaves("schedule")
    BY <1>3 DEF Slept, Leaves
  <2> QED
    BY <2>1
<1> QED
  BY <1>1, <1>2, <1>3

\* The loop heads of the task functions are calm moves.
LEMMA TaskShape ==
  ASSUME ControlTypes, Control, long_task \/ micro_sleep
  PROVE  \E l : CalmMove(l)
<1> USE WhoRuns DEF TaskFrame, timer, Running, Goto, CalmMove, Moves, lists, KeepsOrSetsAfter,
        Critical, ScheduleBody, TaskLocation, TaskPlace, Kernel, TaskAfter
<1>1. CASE long_task
  <2>1. CalmMove("yield") \/ CalmMove("death")
    BY <1>1 DEF long_task
  <2> QED
    BY <2>1
<1>2. CASE micro_sleep
  <2>1. CalmMove("micro_sleep_until") \/ CalmMove("death")
    BY <1>2 DEF micro_sleep
  <2> QED
    BY <2>1
<1> QED
  BY <1>1, <1>2

\* The steps of kernel_main that take no lock are calm moves.
LEMMA MainShape ==
  ASSUME ControlTypes, Control,
         \/ test_all \/ created \/ first_yield \/ loop_head \/ loop_body \/ hlt
         \/ test_exit \/ app_exit
  PROVE  Idle \/ \E l : CalmMove(l)
<1> USE WhoRuns DEF MainFrame, timer, Running, Goto, CalmMove, Moves, lists, KeepsOrSetsAfter,
        Critical, ScheduleBody, MainLocation, MainPlace, Kernel, MainAfter
<1>1. CASE test_all
  <2>1. CalmMove("create")
    BY <1>1 DEF test_all
  <2> QED
    BY <2>1
<1>2. CASE created
  <2> DEFINE l == CASE Len(watched) < Len(Program) -> "create"
                    [] phase = "test" -> "assert"
                    [] OTHER -> "loop"
  <2>0. l \in {"create", "assert", "loop"}
    OBVIOUS
  <2>1. CalmMove(l)
    BY <1>2, <2>0 DEF created
  <2> QED
    BY <2>1
<1>3. CASE first_yield
  <2>1. CalmMove("yield") \/ Idle
    BY <1>3 DEF first_yield, Idle
  <2> QED
    BY <2>1
<1>4. CASE loop_head
  <2>1. CalmMove("get_task_state")
    BY <1>4 DEF loop_head
  <2> QED
    BY <2>1
<1>5. CASE loop_body
  <2>1. CalmMove("yield")
    BY <1>5 DEF loop_body
  <2> QED
    BY <2>1
<1>6. CASE hlt
  <2>1. CalmMove("halted")
    BY <1>6 DEF hlt
  <2> QED
    BY <2>1
<1>7. CASE test_exit
  <2>1. CalmMove("create") \/ Idle
    BY <1>7 DEF test_exit, Idle
  <2> QED
    BY <2>1
<1>8. CASE app_exit
  <2>1. CalmMove("idle") \/ CalmMove("cleanup")
    BY <1>8 DEF app_exit
  <2> QED
    BY <2>1
<1> QED
  BY <1>1, <1>2, <1>3, <1>4, <1>5, <1>6, <1>7, <1>8

\* An answer of get_task_state is a calm move of kernel_main.
LEMMA AnswerShape ==
  ASSUME ControlTypes, Control, NEW v, Answer(v), WalkFrame, MainFrame,
         pc[current_task_PCB] \in {"get_task_state", "walk_ready", "walk_sleeping", "walk_dead"},
         irq = "none"
  PROVE  \E l : CalmMove(l)
<1>0. PICK l \in {"loop_body", "get_task_state", "loop_exit"} : Goto(l)
  BY DEF Answer
<1>1. CalmMove(l)
  BY <1>0, WhoRuns DEF Answer, WalkFrame, MainFrame, timer, Goto, CalmMove, Moves, lists,
      KeepsOrSetsAfter, Critical, ScheduleBody, MainLocation, MainPlace, Kernel
<1> QED
  BY <1>1

\* A walk that only moves its cursor changes no control variable.
LEMMA StepShape ==
  ASSUME ControlTypes, Control, WalkFrame, MainFrame, UNCHANGED pc
  PROVE  Idle
BY DEF WalkFrame, MainFrame, timer, lists, Idle

\* The steps of get_task_state are calm moves of kernel_main.
LEMMA WalkShape ==
  ASSUME ControlTypes, Control, get_task_state \/ walk_ready \/ walk_sleeping \/ walk_dead
  PROVE  Idle \/ \E l : CalmMove(l)
<1> USE DEF Running
<1>1. CASE get_task_state
  <2>1. CASE watched[wi] = current_task_PCB
    BY <1>1, <2>1, AnswerShape DEF get_task_state
  <2>2. CASE watched[wi] # current_task_PCB
    <3>1. CalmMove("walk_ready")
      BY <1>1, <2>2, WhoRuns DEF get_task_state, WalkFrame, MainFrame, timer, Goto, CalmMove, Moves,
         lists, KeepsOrSetsAfter, Critical, ScheduleBody, MainLocation, MainPlace, Kernel
    <3> QED
      BY <3>1
  <2> QED
    BY <2>1, <2>2
<1>2. CASE walk_ready
  <2>1. CASE node = NULL /\ Goto("walk_sleeping")
    <3>1. CalmMove("walk_sleeping")
      BY <1>2, <2>1, WhoRuns DEF walk_ready, Walk, WalkFrame, MainFrame, timer, Goto, CalmMove, Moves,
         lists, KeepsOrSetsAfter, Critical, ScheduleBody, MainLocation, MainPlace, Kernel
    <3> QED
      BY <3>1
  <2>2. CASE Answer(state[node])
    BY <1>2, <2>2, AnswerShape DEF walk_ready, Walk
  <2>3. CASE UNCHANGED pc
    BY <1>2, <2>3, StepShape DEF walk_ready, Walk
  <2> QED
    BY <1>2, <2>1, <2>2, <2>3 DEF walk_ready, Walk
<1>3. CASE walk_sleeping
  <2>1. CASE node = NULL /\ Goto("walk_dead")
    <3>1. CalmMove("walk_dead")
      BY <1>3, <2>1, WhoRuns DEF walk_sleeping, Walk, WalkFrame, MainFrame, timer, Goto, CalmMove,
         Moves, lists, KeepsOrSetsAfter, Critical, ScheduleBody, MainLocation, MainPlace, Kernel
    <3> QED
      BY <3>1
  <2>2. CASE Answer(state[node])
    BY <1>3, <2>2, AnswerShape DEF walk_sleeping, Walk
  <2>3. CASE UNCHANGED pc
    BY <1>3, <2>3, StepShape DEF walk_sleeping, Walk
  <2> QED
    BY <1>3, <2>1, <2>2, <2>3 DEF walk_sleeping, Walk
<1>4. CASE walk_dead
  <2>1. CASE node \in {NULL, watched[wi]}
    BY <1>4, <2>1, AnswerShape DEF walk_dead
  <2>2. CASE node \notin {NULL, watched[wi]}
    BY <1>4, <2>2, StepShape DEF walk_dead
  <2> QED
    BY <2>1, <2>2
<1> QED
  BY <1>1, <1>2, <1>3, <1>4

\* A step that is not one of dead_tasks_cleanup.
Ordinary == ~dead_tasks_cleanup /\ ~free_task /\ ~cleanup_done

\* Every other step has one of the shapes.
LEMMA NextShape ==
  ASSUME Ordinary, ControlTypes, Control, [Next]_vars
  PROVE  Shape
<1>1. CASE Schedule
  BY <1>1, BodyShape DEF Schedule, Shape
<1>2. CASE Task
  BY <1>2, AcquireShape, LeaveShape, TaskShape DEF Task, Shape
<1>3. CASE kernel_main
  <2>1. ~dead_tasks_cleanup /\ ~free_task /\ ~cleanup_done
    BY DEF Ordinary
  <2> QED
    BY <1>3, <2>1, AcquireShape, MainShape, WalkShape DEF kernel_main, Shape
<1>4. CASE Timer \/ irq_0_handler \/ irq_1_handler \/ unlock_scheduler \/ unlock_tail
  BY <1>4 DEF Timer, Shape
<1>5. CASE abort_loop \/ UNCHANGED vars
  BY <1>5 DEF abort_loop, vars, timer, lists, Idle, Shape
<1> QED
  BY <1>1, <1>2, <1>3, <1>4, <1>5 DEF Next, CPU

(***************************************************************************)
(* Counting the open locks.                                                *)
(***************************************************************************)
Holders == {t \in TCB : Holds(t)}

\* Finitely many tasks hold a lock.
LEMMA HoldersFinite ==
  /\ IsFiniteSet(Holders) /\ Cardinality(Holders) \in Nat
<1>1. Holders \in SUBSET TCB
  BY DEF Holders
<1>2. IsFiniteSet(Holders)
  BY <1>1, FS_Subset, TCBAssumption
<1> QED
  BY <1>2, FS_CardinalityType

\* While another task runs, kernel_main's lock is open as well as its own.
LEMMA TwoHolders ==
  ASSUME ControlTypes, Control, LockConservation, Running("unlock_tail"), current_task_PCB # Main
  PROVE  IRQ_disable_counter # 1
<1>1. Main \in Holders /\ current_task_PCB \in Holders
  BY TCBAssumption DEF Holders, Holds, Running, Control, MainAway, ControlTypes
<1>2. Cardinality(Holders) # 1
  BY <1>1, HoldersFinite, FS_Singleton
<1> QED
  BY <1>2, HoldersFinite DEF LockConservation, Holders, InHandler, Running

\* Steps that open and close no lock preserve the count.
LEMMA LockSame ==
  ASSUME LockConservation, UNCHANGED <<IRQ_disable_counter, irq>>,
         \A t \in TCB : Holds(t)' <=> Holds(t)
  PROVE  LockConservation'
<1>1. Holders' = Holders
  BY DEF Holders
<1> QED
  BY <1>1 DEF LockConservation, Holders, InHandler

\* Opening a lock adds one holder.
LEMMA LockAcquired ==
  ASSUME ControlTypes, LockConservation, UNCHANGED irq,
         IRQ_disable_counter' = IRQ_disable_counter + 1,
         NEW u \in TCB, ~Holds(u), Holds(u)',
         \A t \in TCB : t # u => (Holds(t)' <=> Holds(t))
  PROVE  LockConservation'
<1>1. Holders' = Holders \cup {u} /\ u \notin Holders
  BY DEF Holders
<1>2. Cardinality(Holders') = Cardinality(Holders) + 1
  BY <1>1, HoldersFinite, FS_AddElement
<1> QED
  BY <1>2, HoldersFinite DEF LockConservation, Holders, InHandler, ControlTypes

\* Closing a lock removes one holder.
LEMMA LockReleased ==
  ASSUME ControlTypes, LockConservation, UNCHANGED irq,
         IRQ_disable_counter' = IRQ_disable_counter - 1,
         NEW u \in TCB, Holds(u), ~Holds(u)',
         \A t \in TCB : t # u => (Holds(t)' <=> Holds(t))
  PROVE  LockConservation'
<1>1. Holders' = Holders \ {u} /\ u \in Holders
  BY DEF Holders
<1>2. Cardinality(Holders') = Cardinality(Holders) - 1
  BY <1>1, HoldersFinite, FS_RemoveElement
<1> QED
  BY <1>2, HoldersFinite DEF LockConservation, Holders, InHandler, ControlTypes

\* Every shape preserves LockConservation.
LEMMA LockStep ==
  ASSUME ControlTypes, Control, LockConservation, Shape
  PROVE  LockConservation'
<1> USE TCBAssumption
<1>1. CASE Idle
  BY <1>1, LockSame DEF Idle, locks, Holds
<1>2. CASE \E l : CalmMove(l)
  <2>1. PICK l : CalmMove(l)
    BY <1>2
  <2>2. \A t \in TCB : Holds(t)' <=> Holds(t)
    BY <2>1 DEF CalmMove, Moves, Holds, Critical, ControlTypes
  <2> QED
    BY <2>1, <2>2, LockSame DEF CalmMove, Moves, locks
<1>3. CASE Acquires
  <2>0. PICK u \in TCB : u = current_task_PCB
    BY DEF ControlTypes
  <2>1. ~Holds(u) /\ Holds(u)'
    BY <1>3, <2>0 DEF Acquires, Moves, Holds, ControlTypes
  <2>2. \A t \in TCB : t # u => (Holds(t)' <=> Holds(t))
    BY <1>3, <2>0 DEF Acquires, Moves, Holds, ControlTypes
  <2>3. IRQ_disable_counter' = IRQ_disable_counter + 1 /\ UNCHANGED irq
    BY <1>3 DEF Acquires, Moves, lock_scheduler
  <2> QED
    BY <2>1, <2>2, <2>3, LockAcquired
<1>4. CASE \E l : Leaves(l)
  <2>1. PICK l : Leaves(l)
    BY <1>4
  <2>2. \A t \in TCB : Holds(t)' <=> Holds(t)
    BY <2>1 DEF Leaves, Moves, Holds, ControlTypes, ScheduleBody
  <2> QED
    BY <2>1, <2>2, LockSame DEF Leaves, Moves, locks
<1>5. CASE \E l : BodyMove(l)
  <2>1. PICK l : BodyMove(l)
    BY <1>5
  <2>2. \A t \in TCB : Holds(t)' <=> Holds(t)
    BY <2>1 DEF BodyMove, Moves, Holds, ControlTypes, ScheduleBody
  <2> QED
    BY <2>1, <2>2, LockSame DEF BodyMove, Moves, locks
<1>6. CASE unlock_scheduler
  <2>1. \A t \in TCB : Holds(t)' <=> Holds(t)
    BY <1>6 DEF unlock_scheduler, Running, Goto, CallSchedule, Holds, ControlTypes
  <2> QED
    BY <1>6, <2>1, LockSame DEF unlock_scheduler, timer
<1>7. CASE unlock_tail
  <2>0. PICK u \in TCB : u = current_task_PCB
    BY DEF ControlTypes
  <2>1. after[u] \in MainAfter \cup TaskAfter
    BY DEF ControlTypes, Control, MainControl, TaskControl
  <2>2. Holds(u) /\ ~Holds(u)'
    BY <1>7, <2>0, <2>1 DEF unlock_tail, Running, Goto, Holds, ControlTypes, MainAfter, TaskAfter,
                            ScheduleBody
  <2>3. \A t \in TCB : t # u => (Holds(t)' <=> Holds(t))
    BY <1>7, <2>0 DEF unlock_tail, Goto, Holds, ControlTypes
  <2>4. IRQ_disable_counter' = IRQ_disable_counter - 1 /\ UNCHANGED irq
    BY <1>7 DEF unlock_tail, timer
  <2> QED
    BY <2>2, <2>3, <2>4, LockReleased
<1>8. CASE schedule_enter
  <2>1. \A t \in TCB : Holds(t)' <=> Holds(t)
    BY <1>8 DEF schedule_enter, Running, Goto, Holds, ControlTypes, ReturnPlace, ScheduleBody
  <2> QED
    BY <1>8, <2>1, LockSame DEF schedule_enter, timer
<1>9. CASE switch_to_task
  <2>1. \A t \in TCB : Holds(t)' <=> Holds(t)
    BY <1>9 DEF switch_to_task, Running, Goto, Holds, ControlTypes, ReturnPlace, ScheduleBody
  <2> QED
    BY <1>9, <2>1, LockSame DEF switch_to_task, timer
<1>10. CASE task_start_up
  <2>1. \A t \in TCB : Holds(t)' <=> Holds(t)
    BY <1>10 DEF task_start_up, Running, Goto, Holds, ControlTypes, ScheduleBody
  <2> QED
    BY <1>10, <2>1, LockSame DEF task_start_up, timer
<1>11. CASE create_kernel_task
  <2>0. PICK u \in TCB : u = current_task_PCB
    BY DEF ControlTypes
  <2>1. PICK t \in TCB : /\ pc[t] = "free"
                         /\ pc' = [pc EXCEPT ![t] = "start", ![u] = "unlock"]
    BY <1>11, <2>0 DEF create_kernel_task
  <2>2. /\ pc[u] = "create" /\ UNCHANGED <<irq, ret>>
        /\ IRQ_disable_counter' = IRQ_disable_counter + 1
    BY <1>11, <2>0 DEF create_kernel_task, Running, MainFrame, timer, LockUntil, lock_scheduler
  <2>3. ~Holds(u) /\ Holds(u)'
    BY <2>1, <2>2 DEF Holds, ControlTypes, ScheduleBody
  <2>4. \A x \in TCB : x # u => (Holds(x)' <=> Holds(x))
    BY <2>1, <2>2 DEF Holds, ControlTypes, ScheduleBody
  <2> QED
    BY <2>2, <2>3, <2>4, LockAcquired
<1>12. CASE irq_0_handler
  <2>1. \A t \in TCB : Holds(t)' <=> Holds(t)
    BY <1>12 DEF irq_0_handler, Wake, IrqFrame, Holds, ControlTypes, ScheduleBody
  <2>2. Holders' = Holders
    BY <2>1 DEF Holders
  <2>3. irq = "none" /\ irq' = "timer" /\ IRQ_disable_counter' = IRQ_disable_counter + 1
    BY <1>12 DEF irq_0_handler, Interruptible, lock_scheduler
  <2> QED
    BY <2>2, <2>3, HoldersFinite DEF LockConservation, Holders, InHandler, ControlTypes
<1>13. CASE unblock_task \/ still_sleeping
  BY <1>13, LockSame DEF unblock_task, still_sleeping, IrqFrame, locks, Holds
<1>14. CASE irq_0_return
  <2>1. Holders' = Holders
    BY <1>14 DEF irq_0_return, IrqFrame, Holders, Holds
  <2>2. irq = "timer" /\ irq' = "none" /\ IRQ_disable_counter' = IRQ_disable_counter - 1
    BY <1>14 DEF irq_0_return
  <2>3. IRQ_disable_counter = Cardinality(Holders) + 1
    BY <2>2 DEF LockConservation, Holders, InHandler
  <2>4. IRQ_disable_counter' = Cardinality(Holders') + 0
    BY <2>1, <2>2, <2>3, HoldersFinite
  <2> QED
    BY <2>2, <2>4 DEF LockConservation, Holders, InHandler
<1>15. CASE irq_1_handler
  <2>1. \A t \in TCB : Holds(t)' <=> Holds(t)
    BY <1>15 DEF irq_1_handler, Wake, IrqFrame, Holds, ControlTypes, ScheduleBody
  <2> QED
    BY <1>15, <2>1, LockSame DEF irq_1_handler, timer, locks
<1> QED
  BY <1>1, <1>2, <1>3, <1>4, <1>5, <1>6, <1>7, <1>8, <1>9, <1>10, <1>11, <1>12, <1>13,
     <1>14, <1>15 DEF Shape

\* Every shape preserves Control.
LEMMA ControlStep ==
  ASSUME ControlTypes, Control, LockConservation, next_task \in Ptr, Shape
  PROVE  Control'
<1>1. CASE unlock_tail
  BY <1>1, TwoHolders, UnlockTailControl DEF unlock_tail
<1> QED
  BY <1>1, IdleControl, CalmControl, AcquireControl, LeaveControl, BodyMoveControl,
     UnlockControl, EnterControl, SwitchControl, StartControl, CreateControl,
     IrqEnterControl, WakeControl, IrqReturnControl, KeyboardControl DEF Shape

(***************************************************************************)
(* Types.                                                                  *)
(***************************************************************************)
\* The types of the other variables.
DataTypes ==
    /\ first_ready_to_run_task \in Ptr /\ last_ready_to_run_task \in Ptr
    /\ sleeping_taskes \in Ptr /\ dead_tasks \in Ptr /\ curr \in Ptr /\ prev \in Ptr
    /\ next_task \in Ptr /\ node \in Ptr
    /\ next \in [TCB -> Ptr]
    /\ state \in [TCB -> TaskState]
    /\ target_wakeup_time \in [TCB -> Nat] /\ time_used \in [TCB -> Nat]
    /\ ticks_since_boot \in Nat /\ last_tick \in Nat
    /\ last_tick <= ticks_since_boot /\ ticks_since_boot <= MaxTicks
    /\ func \in [TCB -> Func] /\ n \in [TCB -> Nat] /\ arg \in [TCB -> Nat]
    /\ phase \in {"test", "app"} /\ watched \in Seq(TCB) /\ wi \in Nat \ {0}
    /\ panic \in {"none", "failed to allocate kernel task", "tests failed"}

\* Where kernel_main creates a task there is one left to create.
ProgramControl ==
    pc[Main] \in {"test_all", "create"} => Len(watched) < Len(Program)

IInv == ControlTypes /\ DataTypes /\ Control /\ LockConservation /\ ProgramControl

\* The invariant implies the type invariant.
LEMMA IInvTypeOK ==
  ASSUME IInv
  PROVE  TypeOK
<1>1. IRQ_disable_counter \in Nat
  BY HoldersFinite DEF IInv, LockConservation, Holders, InHandler
<1>2. postpone_task_switches_counter \in Nat
  BY DEF IInv, Control, PostponeClean, InHandler
<1>3. pc \in [TCB -> Location]
  <2>1. MainPlace \cup TaskPlace \subseteq Location
    BY DEF MainPlace, TaskPlace, Kernel, Location
  <2>2. \A t \in TCB : pc[t] \in MainPlace \cup TaskPlace
    BY DEF IInv, Control, MainControl, TaskControl
  <2> QED
    BY <2>1, <2>2 DEF IInv, ControlTypes
<1>4. \A t \in TCB : after[t] \in MainAfter \cup TaskAfter
  BY DEF IInv, Control, MainControl, TaskControl
<1>5. after \in [TCB -> {"body", "block_sleeping", "blocked_sleeping", "block_terminated",
                         "blocked_for_good", "created", "loop", "hlt", "idle"}]
  BY <1>4 DEF IInv, ControlTypes, MainAfter, TaskAfter
<1> QED
  BY <1>1, <1>2, <1>3, <1>5 DEF IInv, ControlTypes, DataTypes, TypeOK, ReturnPlace

\* multitasking_initialize establishes the invariant.
LEMMA InitIInv ==
  ASSUME Init
  PROVE  IInv
<1> USE TCBAssumption, ProgramAssumption, ClockAssumption DEF Init, multitasking_initialize
<1>1. ControlTypes
  BY DEF ControlTypes, ReturnPlace
<1>5. DataTypes
  BY DEF DataTypes, Ptr, TaskState, TASK_STATE_TERMINATED, TASK_STATE_SLEEPING, TASK_STATE_RUNNING, TASK_STATE_DEAD, Func
<1>2. Control
  BY DEF Control, Parked, ParkedPlace, MainAway, MainControl, MainPlace, MainLocation, MainAfter,
     TaskControl, TaskPlace, TaskLocation, TaskAfter, BodyControl, ScheduleBody, PostponeClean,
     InHandler, ScheduleUninterrupted, Critical
<1>3. LockConservation
  <2>1. Holders = {}
    BY DEF Holders, Holds, ScheduleBody
  <2>2. Cardinality(Holders) = 0
    BY <2>1, FS_EmptySet
  <2>3. IRQ_disable_counter = 0 /\ InHandler = 0
    BY DEF InHandler
  <2> HIDE DEF Init, multitasking_initialize
  <2>4. LockConservation <=> IRQ_disable_counter = Cardinality(Holders) + InHandler
    BY DEF LockConservation, Holders
  <2> QED
    BY <2>2, <2>3, <2>4
<1>4. ProgramControl
  BY DEF ProgramControl, Program
<1> QED
  BY <1>1, <1>2, <1>3, <1>4, <1>5 DEF IInv

\* Every shape preserves the types of the control variables.
LEMMA ControlTypesStep ==
  ASSUME ControlTypes, Control, next_task \in Ptr, Shape
  PROVE  ControlTypes'
<1> USE TCBAssumption DEF ControlTypes
<1>1. CASE Idle
  BY <1>1 DEF Idle, locks
<1>2. CASE \E l : CalmMove(l)
  BY <1>2 DEF CalmMove, Moves, locks, KeepsOrSetsAfter
<1>3. CASE Acquires
  <2>1. ret' \in [TCB -> ReturnPlace]
    BY <1>3 DEF Acquires, ReturnPlace
  <2>2. DOMAIN after' = TCB /\ after' = [t \in TCB |-> after'[t]]
    BY <1>3 DEF Acquires, KeepsOrSetsAfter
  <2>3. IRQ_disable_counter' \in Int /\ postpone_task_switches_counter' \in Int
    BY <1>3 DEF Acquires, lock_scheduler
  <2>4. intr' \in BOOLEAN
    BY <1>3 DEF Acquires, lock_scheduler
  <2> QED
    BY <1>3, <2>1, <2>2, <2>3, <2>4 DEF Acquires, Moves
<1>4. CASE \E l : Leaves(l)
  BY <1>4 DEF Leaves, Moves, locks, ReturnPlace
<1>5. CASE \E l : BodyMove(l)
  BY <1>5 DEF BodyMove, Moves, locks
<1>6. CASE unlock_scheduler
  BY <1>6 DEF unlock_scheduler, Running, Goto, CallSchedule, timer, ReturnPlace
<1>7. CASE unlock_tail
  BY <1>7 DEF unlock_tail, Running, Goto, timer
<1>8. CASE schedule_enter
  BY <1>8 DEF schedule_enter, Running, Goto, timer
<1>9. CASE switch_to_task
  <2>1. next_task \in TCB
    BY <1>9 DEF switch_to_task, Running, Control, BodyControl, ScheduleBody, Ptr
  <2> QED
    BY <1>9, <2>1 DEF switch_to_task, Running, Goto, timer
<1>10. CASE task_start_up
  BY <1>10 DEF task_start_up, Running, Goto, timer
<1>11. CASE create_kernel_task
  <2>1. DOMAIN pc' = TCB /\ pc' = [t \in TCB |-> pc'[t]]
    BY <1>11 DEF create_kernel_task
  <2>2. DOMAIN after' = TCB /\ after' = [t \in TCB |-> after'[t]]
    BY <1>11 DEF create_kernel_task, LockUntil
  <2>3. lock_scheduler /\ UNCHANGED <<task_switches_postponed_flag, current_task_PCB, ret, irq>>
    BY <1>11 DEF create_kernel_task, LockUntil, MainFrame, timer
  <2>4. IRQ_disable_counter' \in Int /\ postpone_task_switches_counter' \in Int
    BY <2>3 DEF lock_scheduler
  <2>5. intr' \in BOOLEAN
    BY <2>3 DEF lock_scheduler
  <2> QED
    BY <2>1, <2>2, <2>3, <2>4, <2>5
<1>12. CASE irq_0_handler
  <2>1. DOMAIN pc' = TCB /\ pc' = [t \in TCB |-> pc'[t]]
    BY <1>12 DEF irq_0_handler, Wake
  <2>2. IRQ_disable_counter' \in Int /\ postpone_task_switches_counter' \in Int
    BY <1>12 DEF irq_0_handler, lock_scheduler
  <2>3. intr' \in BOOLEAN
    BY <1>12 DEF irq_0_handler, lock_scheduler
  <2> QED
    BY <1>12, <2>1, <2>2, <2>3 DEF irq_0_handler, IrqFrame
<1>13. CASE unblock_task \/ still_sleeping
  BY <1>13 DEF unblock_task, still_sleeping, IrqFrame, locks
<1>14. CASE irq_0_return
  BY <1>14 DEF irq_0_return, IrqFrame
<1>15. CASE irq_1_handler
  BY <1>15 DEF irq_1_handler, Wake, IrqFrame, locks, timer
<1> QED
  BY <1>1, <1>2, <1>3, <1>4, <1>5, <1>6, <1>7, <1>8, <1>9, <1>10, <1>11, <1>12, <1>13,
     <1>14, <1>15 DEF Shape

\* The task states are task states.
LEMMA States ==
  {TASK_STATE_TERMINATED, TASK_STATE_DEAD, TASK_STATE_READY_TO_RUN, TASK_STATE_RUNNING,
   TASK_STATE_SLEEPING} \subseteq TaskState
BY DEF TaskState, TASK_STATE_TERMINATED, TASK_STATE_DEAD, TASK_STATE_READY_TO_RUN,
       TASK_STATE_RUNNING, TASK_STATE_SLEEPING

\* Most steps change no data.
DataSame == UNCHANGED <<lists, fields, clock, locals, next_task, main, panic, curr, prev>>

\* A step that changes no data preserves the types of the data.
LEMMA DataSameTypes ==
  ASSUME DataTypes, DataSame
  PROVE  DataTypes'
BY DEF DataTypes, DataSame, lists, fields, clock, locals, main

\* update_time_used charges a natural number of ticks.
LEMMA ChargeTypes ==
  ASSUME ControlTypes, DataTypes, update_time_used, UNCHANGED ticks_since_boot
  PROVE  time_used' \in [TCB -> Nat] /\ last_tick' \in Nat /\ last_tick' <= ticks_since_boot'
<1>0. /\ ticks_since_boot \in Nat /\ last_tick \in Nat /\ last_tick <= ticks_since_boot
      /\ time_used \in [TCB -> Nat] /\ current_task_PCB \in TCB
  BY DEF DataTypes, ControlTypes
<1>1. ticks_since_boot - last_tick \in Nat
  BY <1>0
<1>2. time_used[current_task_PCB] + (ticks_since_boot - last_tick) \in Nat
  BY <1>0, <1>1
<1>3. time_used' = [time_used EXCEPT ![current_task_PCB] =
                      time_used[current_task_PCB] + (ticks_since_boot - last_tick)]
  BY <1>0 DEF update_time_used
<1>4. time_used' \in [TCB -> Nat]
  BY <1>0, <1>2, <1>3
<1> QED
  BY <1>0, <1>4 DEF update_time_used

\* Appending to the ready list keeps the links pointers.
LEMMA EnqueueTypes ==
  ASSUME DataTypes, NEW t \in TCB, NEW links \in [TCB -> Ptr], Enqueue(t, links)
  PROVE  /\ next' \in [TCB -> Ptr]
         /\ first_ready_to_run_task' \in Ptr /\ last_ready_to_run_task' \in Ptr
BY DEF Enqueue, DataTypes, Ptr

\* Every step preserves the types of the data.
LEMMA DataStep ==
  ASSUME Ordinary, ControlTypes, Control, DataTypes, ProgramControl, [Next]_vars
  PROVE  DataTypes'
<1> USE TCBAssumption DEF Running
<1>1. CASE unlock_scheduler \/ unlock_tail \/ schedule_enter \/ task_start_up \/ yield
  BY <1>1, DataSameTypes DEF unlock_scheduler, unlock_tail, schedule_enter, task_start_up,
     yield, DataSame, TaskFrame, timer
<1>2. CASE \/ BlockedSchedule("blocked_sleeping", "slept")
           \/ BlockedSchedule("blocked_for_good", "abort")
  BY <1>2, DataSameTypes DEF BlockedSchedule, DataSame, TaskFrame, timer
<1>3. CASE created \/ first_yield \/ loop_body \/ hlt \/ app_exit \/ create_out_of_memory
  <2>1. CASE created \/ loop_body \/ hlt \/ app_exit
    BY <2>1, DataSameTypes DEF created, loop_body, hlt, app_exit, DataSame, MainFrame, timer
  <2>2. CASE first_yield \/ create_out_of_memory
    BY <2>2 DEF first_yield, create_out_of_memory, DataTypes, MainFrame, timer, lists, fields,
       clock, locals, main
  <2> QED
    BY <1>3, <2>1, <2>2
<1>4. CASE schedule_pop
  <2>1. first_ready_to_run_task \in TCB
    BY <1>4 DEF schedule_pop, Control, BodyControl, DataTypes, Ptr
  <2> QED
    BY <1>4, <2>1 DEF schedule_pop, ScheduleFrame, DataTypes, timer, fields, locals, main
<1>5. CASE schedule_drain
  BY <1>5 DEF schedule_drain, ScheduleFrame, DataTypes, timer, fields, locals, main, Ptr
<1>6. CASE schedule_charge
  BY <1>6, ChargeTypes DEF schedule_charge, ScheduleFrame, DataTypes, timer, lists, locals, main
<1>7. CASE schedule_requeue
  <2>0. state \in [TCB -> TaskState] /\ next \in [TCB -> Ptr] /\ NULL \in Ptr
    BY DEF DataTypes, Ptr
  <2>1. state' \in [TCB -> TaskState] /\ next' \in [TCB -> Ptr]
    BY <1>7, <2>0, States DEF schedule_requeue
  <2> QED
    BY <1>7, <2>1 DEF schedule_requeue, ScheduleFrame, DataTypes, timer, locals, main
<1>8. CASE schedule_link
  <2>1. /\ next' \in [TCB -> Ptr]
        /\ first_ready_to_run_task' \in Ptr /\ last_ready_to_run_task' \in Ptr
    <3>1. /\ next \in [TCB -> Ptr] /\ current_task_PCB \in Ptr
          /\ first_ready_to_run_task \in Ptr
      BY DEF DataTypes, ControlTypes, Ptr
    <3> QED
      BY <1>8, <3>1 DEF schedule_link
  <2> QED
    BY <1>8, <2>1 DEF schedule_link, ScheduleFrame, DataTypes, timer, fields, locals, main
<1>9. CASE switch_to_task
  <2>1. state' \in [TCB -> TaskState]
    BY <1>9, States DEF switch_to_task, DataTypes
  <2> QED
    BY <1>9, <2>1 DEF switch_to_task, DataTypes, timer, lists, clock, locals, main
<1>10. CASE long_task
  <2>0. n \in [TCB -> Nat] /\ current_task_PCB \in TCB
    BY DEF DataTypes, ControlTypes
  <2>1. n' \in [TCB -> Nat]
    BY <1>10, <2>0 DEF long_task
  <2> QED
    BY <1>10, <2>1 DEF long_task, TaskFrame, DataTypes, timer, lists, fields, clock, main
<1>11. CASE micro_sleep
  <2>1. Delay(func[current_task_PCB]) \in Nat
    BY ProgramAssumption DEF Delay
  <2>2. Clock(ticks_since_boot + Delay(func[current_task_PCB])) \in Nat
    <3>1. ticks_since_boot \in Nat
      BY DEF DataTypes
    <3> QED
      BY <2>1, <3>1, ClockAssumption DEF Clock
  <2>3. arg' \in [TCB -> Nat]
    BY <1>11, <2>2 DEF micro_sleep, DataTypes
  <2> QED
    BY <1>11, <2>3 DEF micro_sleep, TaskFrame, DataTypes, timer, lists, fields, clock, main
<1>12. CASE micro_sleep_until
  <2>1. \A a \in Nat : a % Wrap \in Nat
    BY ClockAssumption
  <2>2. /\ target_wakeup_time' \in [TCB -> Nat]
        /\ next' \in [TCB -> Ptr] /\ sleeping_taskes' \in Ptr
    BY <1>12, <2>1 DEF micro_sleep_until, DataTypes, ControlTypes, Ptr
  <2> QED
    BY <1>12, <2>2 DEF micro_sleep_until, TaskFrame, DataTypes, timer, clock, locals, main
<1>13. CASE \/ block_task("block_sleeping", TASK_STATE_SLEEPING, "blocked_sleeping")
            \/ block_task("block_terminated", TASK_STATE_TERMINATED, "blocked_for_good")
  <2>1. state' \in [TCB -> TaskState]
    BY <1>13, States DEF block_task, DataTypes
  <2> QED
    BY <1>13, <2>1 DEF block_task, TaskFrame, DataTypes, timer, lists, clock, locals, main
<1>14. CASE Slept
  <2>0. n \in [TCB -> Nat] /\ current_task_PCB \in TCB
    BY DEF DataTypes, ControlTypes
  <2>1. n' \in [TCB -> Nat]
    BY <1>14, <2>0 DEF Slept
  <2> QED
    BY <1>14, <2>1 DEF Slept, TaskFrame, DataTypes, timer, lists, fields, clock, main
<1>15. CASE terminate_task
  BY <1>15 DEF terminate_task, TaskFrame, DataTypes, ControlTypes, timer, fields, clock, locals,
     main, Ptr
<1>16. CASE mark_task_for_death
  <2>1. state' \in [TCB -> TaskState] /\ next' \in [TCB -> Ptr] /\ dead_tasks' \in Ptr
    BY <1>16, States DEF mark_task_for_death, DataTypes, ControlTypes, Ptr
  <2> QED
    BY <1>16, <2>1 DEF mark_task_for_death, TaskFrame, DataTypes, timer, clock, locals, main
<1>17. CASE test_all
  BY <1>17, ChargeTypes DEF test_all, MainFrame, DataTypes, timer, lists, locals, main
<1>18. CASE create_kernel_task
  <2>1. PICK t \in TCB :
          /\ Enqueue(t, [next EXCEPT ![t] = NULL])
          /\ state' = [state EXCEPT ![t] = TASK_STATE_READY_TO_RUN]
          /\ time_used' = [time_used EXCEPT ![t] = 0]
          /\ target_wakeup_time' = [target_wakeup_time EXCEPT ![t] = 0]
          /\ func' = [func EXCEPT ![t] = Program[Len(watched) + 1]]
          /\ n' = [n EXCEPT ![t] = 0]
          /\ watched' = Append(watched, t)
    BY <1>18 DEF create_kernel_task
  <2>2. current_task_PCB = Main /\ pc[Main] = "create"
    BY <1>18, WhoRuns DEF create_kernel_task, MainLocation
  <2>3. Program[Len(watched) + 1] \in Func
    <3>1. Program \in Seq(Func)
      BY ProgramAssumption DEF Program
    <3>2. Len(watched) + 1 \in 1..Len(Program)
      <4>1. watched \in Seq(TCB) /\ Len(watched) < Len(Program)
        BY <2>2 DEF ProgramControl, DataTypes
      <4> QED
        BY <3>1, <4>1
    <3> QED
      BY <3>1, <3>2
  <2>4. [next EXCEPT ![t] = NULL] \in [TCB -> Ptr]
    BY DEF DataTypes, Ptr
  <2>5. /\ next' \in [TCB -> Ptr]
        /\ first_ready_to_run_task' \in Ptr /\ last_ready_to_run_task' \in Ptr
    BY <2>1, <2>4, EnqueueTypes
  <2>60. /\ time_used \in [TCB -> Nat] /\ target_wakeup_time \in [TCB -> Nat]
         /\ n \in [TCB -> Nat] /\ watched \in Seq(TCB)
    BY DEF DataTypes
  <2>6. /\ time_used' \in [TCB -> Nat] /\ target_wakeup_time' \in [TCB -> Nat]
        /\ n' \in [TCB -> Nat] /\ watched' \in Seq(TCB)
    BY <2>1, <2>60
  <2>7. state' \in [TCB -> TaskState] /\ func' \in [TCB -> Func]
    BY <2>1, <2>3, States DEF DataTypes
  <2> QED
    BY <1>18, <2>5, <2>6, <2>7 DEF create_kernel_task, MainFrame, DataTypes, timer, clock
<1>19. CASE loop_head
  BY <1>19 DEF loop_head, MainFrame, DataTypes, timer, lists, fields, clock, locals
<1>20. CASE get_task_state \/ walk_ready \/ walk_sleeping \/ walk_dead
  <2>1. wi' \in Nat \ {0} /\ node' \in Ptr
    <3>0. \A v : Answer(v) => wi' \in Nat \ {0} /\ node' \in Ptr
      <4>1. wi \in Nat \ {0} /\ node \in Ptr
        BY DEF DataTypes
      <4> QED
        BY <4>1 DEF Answer
    <3>00. node # NULL => next[node] \in Ptr
      BY DEF DataTypes, Ptr
    <3>1. CASE get_task_state
      BY <3>0, <3>1 DEF get_task_state, DataTypes
    <3>2. CASE walk_ready \/ walk_sleeping
      BY <3>0, <3>00, <3>2 DEF walk_ready, walk_sleeping, Walk, DataTypes
    <3>3. CASE walk_dead
      BY <3>0, <3>00, <3>3 DEF walk_dead, DataTypes
    <3> QED
      BY <1>20, <3>1, <3>2, <3>3
  <2>2. WalkFrame /\ MainFrame
    BY <1>20 DEF get_task_state, walk_ready, walk_sleeping, walk_dead, Walk
  <2> QED
    BY <2>1, <2>2 DEF WalkFrame, MainFrame, DataTypes, timer, lists, fields, clock, locals
<1>21. CASE test_exit
  <2>1. CASE IRQ_disable_counter = 0
    <3>1. /\ update_time_used /\ phase' = "app" /\ watched' = << >> /\ panic' = panic
          /\ UNCHANGED <<lists, state, target_wakeup_time, ticks_since_boot, locals, wi, node>>
          /\ MainFrame
      BY <1>21, <2>1 DEF test_exit
    <3>2. time_used' \in [TCB -> Nat] /\ last_tick' \in Nat /\ last_tick' <= ticks_since_boot'
      BY <3>1, ChargeTypes
    <3>3. watched' \in Seq(TCB) /\ phase' \in {"test", "app"} /\ panic' = panic
      BY <3>1
    <3>4. UNCHANGED <<lists, state, target_wakeup_time, ticks_since_boot, locals, wi, node>> /\ MainFrame
      BY <3>1
    <3> QED
      BY <3>2, <3>3, <3>4 DEF MainFrame, DataTypes, timer, lists, locals
  <2>2. CASE IRQ_disable_counter # 0
    BY <1>21, <2>2 DEF test_exit, MainFrame, DataTypes, timer, lists, locals
  <2> QED
    BY <2>1, <2>2
<1>22. CASE irq_0_handler
  <2>1. /\ ticks_since_boot' \in Nat /\ ticks_since_boot' <= MaxTicks
        /\ last_tick <= ticks_since_boot'
    <3>1. ticks_since_boot' = Clock(ticks_since_boot + 1)
      BY <1>22 DEF irq_0_handler
    <3> QED
      <4>1. /\ ticks_since_boot \in Nat /\ last_tick \in Nat
            /\ last_tick <= ticks_since_boot /\ ticks_since_boot <= MaxTicks
        BY DEF DataTypes
      <4> QED
        BY <3>1, <4>1, ClockAssumption DEF Clock
  <2> QED
    BY <1>22, <2>1 DEF irq_0_handler, IrqFrame, DataTypes, lists, fields, locals, main, Ptr
<1>23. CASE unblock_task
  <2>1. curr \in TCB
    BY <1>23 DEF unblock_task, DataTypes, Ptr
  <2>2. [Unlink EXCEPT ![curr] = NULL] \in [TCB -> Ptr]
    BY <2>1 DEF Unlink, DataTypes, Ptr
  <2>3. /\ next' \in [TCB -> Ptr]
        /\ first_ready_to_run_task' \in Ptr /\ last_ready_to_run_task' \in Ptr
    BY <1>23, <2>1, <2>2, EnqueueTypes DEF unblock_task
  <2>4. state' \in [TCB -> TaskState] /\ curr' \in Ptr /\ sleeping_taskes' \in Ptr
    BY <1>23, <2>1, States DEF unblock_task, DataTypes
  <2> QED
    BY <1>23, <2>3, <2>4 DEF unblock_task, IrqFrame, DataTypes, locals, main
<1>24. CASE still_sleeping
  BY <1>24 DEF still_sleeping, IrqFrame, DataTypes, lists, fields, locals, main, Ptr
<1>25. CASE irq_0_return \/ irq_1_handler
  BY <1>25, DataSameTypes DEF irq_0_return, irq_1_handler, IrqFrame, DataSame, timer, clock
<1>26. CASE abort_loop \/ UNCHANGED vars
  BY <1>26, DataSameTypes DEF abort_loop, vars, DataSame, timer
<1>27. ~dead_tasks_cleanup /\ ~free_task /\ ~cleanup_done
  BY DEF Ordinary
<1> QED
  BY <1>1, <1>2, <1>3, <1>4, <1>5, <1>6, <1>7, <1>8, <1>9, <1>10, <1>11, <1>12, <1>13, <1>14,
     <1>15, <1>16, <1>17, <1>18, <1>19, <1>20, <1>21, <1>22, <1>23, <1>24, <1>25, <1>26, <1>27
     DEF Next, CPU, Schedule, Task, kernel_main, Timer

\* A step that leaves what kernel_main watches alone, and does not bring it to
\* where it creates a task.
LEMMA ProgramSame ==
  ASSUME ControlTypes, ProgramControl, UNCHANGED <<watched, phase>>,
         NEW l, l \notin {"test_all", "create"},
         pc' = [pc EXCEPT ![current_task_PCB] = l] \/ UNCHANGED pc
  PROVE  ProgramControl'
BY TCBAssumption DEF ControlTypes, ProgramControl, Program

\* Every step preserves ProgramControl.
LEMMA ProgramStep ==
  ASSUME Ordinary, ControlTypes, Control, DataTypes, ProgramControl, [Next]_vars
  PROVE  ProgramControl'
<1> USE TCBAssumption DEF Running, Goto, main
<1>1. CASE unlock_scheduler
  <2>1. \/ pc' = [pc EXCEPT ![current_task_PCB] = "schedule"]
        \/ pc' = [pc EXCEPT ![current_task_PCB] = "unlock_tail"]
    BY <1>1 DEF unlock_scheduler, CallSchedule
  <2>2. UNCHANGED <<watched, phase>>
    BY <1>1 DEF unlock_scheduler
  <2> QED
    BY <2>1, <2>2, ProgramSame
<1>2. CASE unlock_tail
  <2>1. after[current_task_PCB] \notin {"test_all", "create"}
    BY DEF Control, ControlTypes, MainControl, TaskControl, MainAfter, TaskAfter
  <2> QED
    BY <1>2, <2>1, ProgramSame DEF unlock_tail
<1>3. CASE schedule_enter \/ switch_to_task
  <2>1. ret[current_task_PCB] \notin {"test_all", "create"}
    BY DEF ControlTypes, ReturnPlace
  <2>2. \/ pc' = [pc EXCEPT ![current_task_PCB] = "pop"]
        \/ pc' = [pc EXCEPT ![current_task_PCB] = ret[current_task_PCB]]
    BY <1>3 DEF schedule_enter, switch_to_task
  <2>3. UNCHANGED <<watched, phase>>
    BY <1>3 DEF schedule_enter, switch_to_task
  <2> QED
    BY <2>1, <2>2, <2>3, ProgramSame
<1>4. CASE schedule_pop \/ schedule_drain \/ schedule_charge \/ schedule_requeue \/ schedule_link
  <2>1. PICK l \in {"drain", "charge", "requeue", "link", "switch"} :
           pc' = [pc EXCEPT ![current_task_PCB] = l]
    BY <1>4 DEF schedule_pop, schedule_drain, schedule_charge, schedule_requeue, schedule_link
  <2>2. UNCHANGED <<watched, phase>>
    BY <1>4 DEF schedule_pop, schedule_drain, schedule_charge, schedule_requeue, schedule_link,
       ScheduleFrame
  <2> QED
    BY <2>1, <2>2, ProgramSame
<1>5. CASE Task
  <2>1. PICK l \in {"body", "schedule", "yield", "death", "micro_sleep_until", "unlock", "terminate"} :
           pc' = [pc EXCEPT ![current_task_PCB] = l]
    BY <1>5 DEF Task, task_start_up, yield, long_task, micro_sleep, micro_sleep_until, block_task,
       BlockedSchedule, Slept, terminate_task, mark_task_for_death, CallSchedule
  <2>2. UNCHANGED <<watched, phase>>
    BY <1>5 DEF Task, task_start_up, yield, long_task, micro_sleep, micro_sleep_until, block_task,
       BlockedSchedule, Slept, terminate_task, mark_task_for_death, TaskFrame
  <2> QED
    BY <2>1, <2>2, ProgramSame
<1>6. CASE test_all
  <2>1. current_task_PCB = Main
    BY <1>6, WhoRuns DEF test_all, MainLocation
  <2> QED
    BY <1>6, <2>1 DEF test_all, ProgramControl, Program
<1>7. CASE create_kernel_task
  <2>1. current_task_PCB = Main
    BY <1>7, WhoRuns DEF create_kernel_task, MainLocation
  <2>2. pc'[Main] = "unlock"
    BY <1>7, <2>1 DEF create_kernel_task, ControlTypes
  <2> QED
    BY <2>2 DEF ProgramControl
<1>8. CASE created
  <2>1. current_task_PCB = Main
    BY <1>8, WhoRuns DEF created, MainLocation
  <2>2. UNCHANGED <<watched, phase>>
    BY <1>8 DEF created
  <2>3. CASE Len(watched) < Len(Program)
    BY <2>2, <2>3 DEF ProgramControl, Program
  <2>4. CASE ~(Len(watched) < Len(Program))
    BY <1>8, <2>1, <2>4 DEF created, ProgramControl, ControlTypes
  <2> QED
    BY <2>3, <2>4
<1>9. CASE test_exit
  <2>1. CASE IRQ_disable_counter = 0
    <3>1. watched' = << >> /\ Program' = AppFuncs
      BY <1>9, <2>1 DEF test_exit, Program
    <3>2. Len(AppFuncs) > 0
      BY ProgramAssumption
    <3> QED
      BY <3>1, <3>2 DEF ProgramControl
  <2>2. CASE IRQ_disable_counter # 0
    BY <1>9, <2>2 DEF test_exit, ProgramControl, Program
  <2> QED
    BY <2>1, <2>2
<1>10. CASE create_out_of_memory \/ first_yield \/ loop_head \/ loop_body \/ hlt \/ app_exit
  <2>1. \/ \E l \in {"unlock", "yield", "get_task_state", "halted", "idle", "cleanup"} :
              pc' = [pc EXCEPT ![current_task_PCB] = l]
        \/ UNCHANGED pc
    BY <1>10 DEF create_out_of_memory, first_yield, loop_head, loop_body, hlt, app_exit
  <2>2. UNCHANGED <<watched, phase>>
    BY <1>10 DEF create_out_of_memory, first_yield, loop_head, loop_body, hlt, app_exit
  <2>3. CASE UNCHANGED pc
    BY <2>2, <2>3 DEF ProgramControl, Program
  <2>4. CASE ~UNCHANGED pc
    <3>1. PICK l \in {"unlock", "yield", "get_task_state", "halted", "idle", "cleanup"} :
              pc' = [pc EXCEPT ![current_task_PCB] = l]
      BY <2>1, <2>4
    <3> QED
      BY <2>2, <3>1, ProgramSame
  <2> QED
    BY <2>3, <2>4
<1>11. CASE get_task_state \/ walk_ready \/ walk_sleeping \/ walk_dead
  <2>0. \A v : Answer(v) => \E l \in {"loop_body", "get_task_state", "loop_exit"} :
                               pc' = [pc EXCEPT ![current_task_PCB] = l]
    BY DEF Answer
  <2>1. \/ \E l \in {"loop_body", "get_task_state", "loop_exit"} :
              pc' = [pc EXCEPT ![current_task_PCB] = l]
        \/ pc' = [pc EXCEPT ![current_task_PCB] = "walk_ready"]
        \/ pc' = [pc EXCEPT ![current_task_PCB] = "walk_sleeping"]
        \/ pc' = [pc EXCEPT ![current_task_PCB] = "walk_dead"]
        \/ UNCHANGED pc
    BY <1>11, <2>0 DEF get_task_state, walk_ready, walk_sleeping, walk_dead, Walk
  <2>2. UNCHANGED <<watched, phase>>
    BY <1>11 DEF get_task_state, walk_ready, walk_sleeping, walk_dead, Walk, WalkFrame
  <2>3. CASE UNCHANGED pc
    BY <2>2, <2>3 DEF ProgramControl, Program
  <2>4. CASE ~UNCHANGED pc
    <3>1. PICK l \in {"loop_body", "get_task_state", "loop_exit", "walk_ready", "walk_sleeping",
                      "walk_dead"} : pc' = [pc EXCEPT ![current_task_PCB] = l]
      BY <2>1, <2>4
    <3> QED
      BY <2>2, <3>1, ProgramSame
  <2> QED
    BY <2>3, <2>4
<1>12. CASE irq_0_handler \/ irq_1_handler
  BY <1>12 DEF irq_0_handler, irq_1_handler, Wake, IrqFrame, ControlTypes, ProgramControl, Program
<1>13. CASE Timer \/ abort_loop \/ UNCHANGED vars
  BY <1>13 DEF Timer, unblock_task, still_sleeping, irq_0_return, IrqFrame, abort_loop, vars,
     ProgramControl, Program
<1>14. ~dead_tasks_cleanup /\ ~free_task /\ ~cleanup_done
  BY DEF Ordinary
<1> QED
  BY <1>1, <1>2, <1>3, <1>4, <1>5, <1>6, <1>7, <1>8, <1>9, <1>10, <1>11, <1>12, <1>13, <1>14
     DEF Next, CPU, Schedule, kernel_main

(***************************************************************************)
(* The theorems.                                                           *)
(***************************************************************************)
\* Every step preserves the invariant.
LEMMA NextIInv ==
  ASSUME Ordinary, IInv, [Next]_vars
  PROVE  IInv'
<1>1. Shape
  BY NextShape DEF IInv
<1>2. next_task \in Ptr
  BY DEF IInv, DataTypes
<1>3. ControlTypes' /\ Control' /\ LockConservation'
  BY <1>1, <1>2, ControlTypesStep, ControlStep, LockStep DEF IInv
<1>4. DataTypes' /\ ProgramControl'
  BY DataStep, ProgramStep DEF IInv
<1> QED
  BY <1>3, <1>4 DEF IInv

\* What the lists' invariant says of the block that free_task frees.
Freeable == node \in TCB /\ node # Main /\ pc[node] = "abort"

\* dead_tasks_cleanup takes the lock.
LEMMA CleanupLocks ==
  ASSUME IInv, dead_tasks_cleanup
  PROVE  IInv'
<1>1. current_task_PCB = Main /\ pc[Main] = "cleanup"
  BY WhoRuns DEF IInv, dead_tasks_cleanup, Running, MainLocation
<1>2. Acquires
  <2>1. KeepsOrSetsAfter
    BY <1>1 DEF dead_tasks_cleanup, LockUntil, KeepsOrSetsAfter, MainAfter
  <2> QED
    BY <1>1, <2>1 DEF dead_tasks_cleanup, LockUntil, Acquires, Moves, Running, Goto, MainFrame, timer,
       lists, ScheduleBody
<1>3. ControlTypes' /\ Control' /\ LockConservation'
  <2>1. Shape /\ next_task \in Ptr
    BY <1>2 DEF Shape, IInv, DataTypes
  <2> QED
    BY <2>1, ControlTypesStep, ControlStep, LockStep DEF IInv
<1>4. DataTypes'
  BY DEF IInv, dead_tasks_cleanup, MainFrame, timer, DataTypes, lists, fields, clock, locals
<1>5. ProgramControl'
  BY <1>1, TCBAssumption DEF IInv, ControlTypes, dead_tasks_cleanup, Goto, ProgramControl, Program
<1> QED
  BY <1>3, <1>4, <1>5 DEF IInv

\* free_task takes away a block that holds no lock and does not run.
LEMMA FreeKeeps ==
  ASSUME IInv, free_task, Freeable
  PROVE  IInv'
<1>1. current_task_PCB = Main /\ pc[Main] = "freeing"
  BY WhoRuns DEF IInv, free_task, Running, MainLocation
<1>2. /\ pc' = [pc EXCEPT ![node] = "free"] /\ UNCHANGED <<current_task_PCB, irq, locks, ret, after>>
      /\ UNCHANGED <<lists, fields, clock, locals, next_task, phase, watched, wi, panic, curr, prev>>
      /\ node' = next[node]
  BY DEF free_task, MainFrame, timer
<1>3. ControlTypes'
  BY <1>2 DEF IInv, ControlTypes, locks
<1>4. DataTypes'
  BY <1>2 DEF IInv, DataTypes, Freeable, lists, fields, clock, locals
<1>5. \A t \in TCB : pc'[t] = IF t = node THEN "free" ELSE pc[t]
  BY <1>2 DEF IInv, ControlTypes, Freeable
<1>6. pc'[Main] = "freeing"
  BY <1>1, <1>5, TCBAssumption DEF Freeable
<1>7. Control'
  <2> USE TCBAssumption, <1>1, <1>2, <1>5, <1>6 DEF IInv, Control, Freeable, locks
  <2>1. Parked'
    BY DEF Parked, ParkedPlace
  <2>2. MainAway'
    BY DEF MainAway
  <2>3. MainControl'
    BY DEF MainControl
  <2>4. TaskControl'
    BY DEF TaskControl, TaskPlace, TaskLocation
  <2>5. BodyControl'
    BY DEF BodyControl, ScheduleBody
  <2>6. PostponeClean'
    BY DEF PostponeClean, InHandler
  <2>7. ScheduleUninterrupted'
    BY DEF ScheduleUninterrupted
  <2> QED
    BY <2>1, <2>2, <2>3, <2>4, <2>5, <2>6, <2>7
<1>8. LockConservation'
  <2>1. \A t \in TCB : Holds(t)' <=> Holds(t)
    BY <1>2, <1>5 DEF Holds, Freeable, ScheduleBody
  <2> QED
    BY <1>2, <2>1, LockSame DEF IInv, locks
<1>9. ProgramControl'
  BY <1>6 DEF ProgramControl
<1> QED
  BY <1>3, <1>4, <1>7, <1>8, <1>9 DEF IInv

\* The end of dead_tasks_cleanup.
LEMMA CleanupUnlocks ==
  ASSUME IInv, cleanup_done
  PROVE  IInv'
<1>1. current_task_PCB = Main /\ pc[Main] = "freeing"
  BY WhoRuns DEF IInv, cleanup_done, Running, MainLocation
<1>2. /\ pc' = [pc EXCEPT ![Main] = "unlock"] /\ UNCHANGED <<current_task_PCB, irq, locks, ret, after>>
      /\ UNCHANGED <<first_ready_to_run_task, last_ready_to_run_task, sleeping_taskes, next, fields,
                     clock, locals, next_task, main, panic, curr, prev>>
      /\ dead_tasks' = NULL
  BY <1>1 DEF cleanup_done, Goto, MainFrame, timer
<1>3. ControlTypes'
  BY <1>2 DEF IInv, ControlTypes, locks
<1>4. DataTypes'
  BY <1>2 DEF IInv, DataTypes, fields, clock, locals, main, Ptr
<1>5. \A t \in TCB : pc'[t] = IF t = Main THEN "unlock" ELSE pc[t]
  BY <1>2 DEF IInv, ControlTypes
<1>6. pc'[Main] = "unlock"
  BY <1>5, TCBAssumption
<1>7. Control'
  <2> USE TCBAssumption, <1>1, <1>2, <1>5, <1>6 DEF IInv, Control, locks
  <2>1. Parked'
    BY DEF Parked
  <2>2. MainAway'
    BY DEF MainAway
  <2>3. MainControl'
    BY DEF MainControl, MainPlace, Kernel
  <2>4. TaskControl'
    BY DEF TaskControl
  <2>5. BodyControl'
    BY DEF BodyControl, ScheduleBody
  <2>6. PostponeClean'
    BY DEF PostponeClean, InHandler
  <2>7. ScheduleUninterrupted'
    BY DEF ScheduleUninterrupted, Critical
  <2> QED
    BY <2>1, <2>2, <2>3, <2>4, <2>5, <2>6, <2>7
<1>8. LockConservation'
  <2>1. \A t \in TCB : Holds(t)' <=> Holds(t)
    BY <1>1, <1>2, <1>5 DEF Holds, ScheduleBody
  <2> QED
    BY <1>2, <2>1, LockSame DEF IInv, locks
<1>9. ProgramControl'
  BY <1>6 DEF ProgramControl
<1> QED
  BY <1>3, <1>4, <1>7, <1>8, <1>9 DEF IInv
=============================================================================
