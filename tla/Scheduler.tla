----------------------------- MODULE Scheduler -----------------------------
(***************************************************************************)
(* The task scheduler of the ChoOS kernel, run by the program the kernel   *)
(* ships: kernel_main runs the scheduler's self test (two long_task        *)
(* tasks), then the two sleeping demo tasks, then idles.                   *)
(*                                                                         *)
(* There is one CPU.  A task gives it up only in schedule(); the timer     *)
(* interrupt may run between any two steps while EFLAGS.IF is set.  One    *)
(* action is one statement, or a run of statements that touch no variable  *)
(* an interrupt handler shares.  The location pc[t] is the statement task  *)
(* t executes next; for a task that is not current it is where             *)
(* _switch_to_task will return to on that task's saved stack.              *)
(***************************************************************************)
EXTENDS Integers, Sequences, FiniteSets

CONSTANTS
    TCB,          \* addresses the heap has for task control blocks
    Main,         \* the block multitasking_initialize made for kernel_main
    NULL,         \* the null pointer
    TestFuncs,    \* what test_multitasking_scheduler creates, in order
    AppFuncs,     \* what kernel_main creates, in order
    LongIters,    \* loop bound of long_task (10 in the code)
    SleepIters,   \* loop bound of test_sleep and test_sleep1 (10)
    TermIter,     \* iteration in which test_sleep1 terminates itself (5)
    SleepDelay,   \* micro_sleep argument of test_sleep (100)
    SleepDelay1,  \* micro_sleep argument of test_sleep1 (200)
    BootTicks,    \* ticks that passed before multitasking_initialize
    MaxTicks,     \* bound: clock readings from MaxTicks on are one value
    Wrap,         \* size of the uint32_t a wakeup time goes through (2^32)
    CleanupDead   \* is the call of dead_tasks_cleanup compiled in? (no)

Func == {"long_task", "test_sleep", "test_sleep1"}

ASSUME TCBAssumption == IsFiniteSet(TCB) /\ Main \in TCB /\ NULL \notin TCB
ASSUME ProgramAssumption ==
    /\ TestFuncs \in Seq(Func) \ {<< >>}
    /\ AppFuncs \in Seq(Func) \ {<< >>}
    /\ {LongIters, SleepIters, TermIter, SleepDelay, SleepDelay1} \subseteq Nat
    /\ CleanupDead \in BOOLEAN
ASSUME ClockAssumption ==
    BootTicks \in Nat /\ MaxTicks \in Nat /\ Wrap \in Nat \ {0} /\ BootTicks <= MaxTicks

VARIABLES
    \* scheduler.c and sleep.c: the lists, linked through next
    current_task_PCB, first_ready_to_run_task, last_ready_to_run_task,
    sleeping_taskes, dead_tasks, next,
    \* the other fields of a task control block
    state, target_wakeup_time, time_used,
    \* scheduler.c: nesting of lock_scheduler and the postponed switch
    IRQ_disable_counter, postpone_task_switches_counter,
    task_switches_postponed_flag,
    \* timer.c and scheduler.c: the clock
    ticks_since_boot, last_tick,
    \* EFLAGS.IF of the CPU
    intr,
    \* the timer interrupt: is its handler running, and its two cursors
    irq, curr, prev,
    \* per task: location, return address of schedule(), return address of
    \* unlock_scheduler(), entry function, loop counter, deadline of the sleep
    pc, ret, after, func, n, arg,
    next_task,    \* the local of schedule()
    \* kernel_main: which loop it runs, the tasks the loop watches, the one
    \* get_task_state is asked for, and the cursor of that walk
    phase, watched, wi, node,
    panic         \* the message abort() stopped the machine with

lists  == <<first_ready_to_run_task, last_ready_to_run_task, sleeping_taskes,
            dead_tasks, next>>
fields == <<state, target_wakeup_time, time_used>>
locks  == <<IRQ_disable_counter, postpone_task_switches_counter,
            task_switches_postponed_flag, intr>>
clock  == <<ticks_since_boot, last_tick>>
timer  == <<irq, curr, prev>>
locals == <<func, n, arg>>
main   == <<phase, watched, wi, node>>
vars   == <<current_task_PCB, lists, fields, locks, clock, timer, pc, ret,
            after, locals, next_task, main, panic>>

(***************************************************************************)
(* task.h                                                                  *)
(***************************************************************************)
TASK_STATE_TERMINATED   == -2
TASK_STATE_NOT_FOUND    == -1
TASK_STATE_DEAD         == 0
TASK_STATE_READY_TO_RUN == 1
TASK_STATE_RUNNING      == 2
TASK_STATE_SLEEPING     == 3

TaskState == TASK_STATE_TERMINATED..TASK_STATE_SLEEPING
Ptr == TCB \cup {NULL}

\* Locations inside schedule(), in program order, after its two early returns.
ScheduleBody == {"pop", "drain", "charge", "requeue", "link", "switch"}
MainLocation == {"test_all", "create", "created", "assert", "loop", "get_task_state",
                 "walk_ready", "walk_sleeping", "walk_dead", "loop_body", "loop_exit",
                 "hlt", "halted", "cleanup", "freeing", "idle"}
TaskLocation == {"free", "start", "body", "micro_sleep_until", "block_sleeping",
                 "blocked_sleeping", "slept", "terminate", "block_terminated",
                 "blocked_for_good", "death", "abort"}
Location == MainLocation \cup TaskLocation \cup ScheduleBody
            \cup {"yield", "schedule", "unlock", "unlock_tail"}

\* Every clock reading from MaxTicks on stands for "MaxTicks or later".
Clock(x) == IF x < MaxTicks THEN x ELSE MaxTicks

Running(l) == panic = "none" /\ irq = "none" /\ pc[current_task_PCB] = l
Goto(l) == pc' = [pc EXCEPT ![current_task_PCB] = l]

(***************************************************************************)
(* lock_scheduler and unlock_scheduler.  A region between the two is one   *)
(* action: it begins with cli.  LockUntil(l) is such a region's lock and   *)
(* leaves the task at the unlock that closes it, which returns to l.       *)
(***************************************************************************)
lock_scheduler ==
    /\ intr' = FALSE
    /\ IRQ_disable_counter' = IRQ_disable_counter + 1
    /\ postpone_task_switches_counter' = postpone_task_switches_counter + 1

LockUntil(l) ==
    /\ lock_scheduler
    /\ after' = [after EXCEPT ![current_task_PCB] = l]
    /\ UNCHANGED task_switches_postponed_flag

\* Call schedule(), to return to r.
CallSchedule(r) ==
    /\ ret' = [ret EXCEPT ![current_task_PCB] = r]
    /\ Goto("schedule")

\* Defect: the pending switch is not cleared before it is carried out.
unlock_keeps_flag ==
    /\ Running("unlock")
    /\ postpone_task_switches_counter' = postpone_task_switches_counter - 1
    /\ IF postpone_task_switches_counter = 1 /\ task_switches_postponed_flag # 0
       THEN CallSchedule("unlock_tail")
       ELSE Goto("unlock_tail") /\ UNCHANGED ret
    /\ UNCHANGED <<current_task_PCB, lists, fields, IRQ_disable_counter, intr, clock,
                   task_switches_postponed_flag, timer, after, locals, next_task, main, panic>>

\* Defect: the pending switch is forgotten.
unlock_drops_switch ==
    /\ Running("unlock")
    /\ postpone_task_switches_counter' = postpone_task_switches_counter - 1
    /\ task_switches_postponed_flag' = 0
    /\ Goto("unlock_tail")
    /\ UNCHANGED <<current_task_PCB, lists, fields, IRQ_disable_counter, intr, clock,
                   timer, ret, after, locals, next_task, main, panic>>

unlock_scheduler ==
    /\ Running("unlock")
    /\ postpone_task_switches_counter' = postpone_task_switches_counter - 1
    /\ IF postpone_task_switches_counter = 1 /\ task_switches_postponed_flag # 0
       THEN task_switches_postponed_flag' = 0 /\ CallSchedule("unlock_tail")
       ELSE Goto("unlock_tail") /\ UNCHANGED <<task_switches_postponed_flag, ret>>
    /\ UNCHANGED <<current_task_PCB, lists, fields, IRQ_disable_counter, intr, clock,
                   timer, after, locals, next_task, main, panic>>

\* Defect: sti without looking at the nesting depth.
unlock_tail_always_sti ==
    /\ Running("unlock_tail")
    /\ IRQ_disable_counter' = IRQ_disable_counter - 1
    /\ intr' = TRUE
    /\ Goto(after[current_task_PCB])
    /\ UNCHANGED <<current_task_PCB, lists, fields, postpone_task_switches_counter,
                   task_switches_postponed_flag, clock, timer, ret, after, locals,
                   next_task, main, panic>>

\* The second half of unlock_scheduler: IF comes back with the last unlock.
unlock_tail ==
    /\ Running("unlock_tail")
    /\ IRQ_disable_counter' = IRQ_disable_counter - 1
    /\ intr' = (intr \/ IRQ_disable_counter = 1)
    /\ Goto(after[current_task_PCB])
    /\ UNCHANGED <<current_task_PCB, lists, fields, postpone_task_switches_counter,
                   task_switches_postponed_flag, clock, timer, ret, after, locals,
                   next_task, main, panic>>

(***************************************************************************)
(* schedule(): one action per statement, since the timer handler appends   *)
(* to the same list and nothing in schedule() itself disables interrupts.  *)
(***************************************************************************)
ScheduleFrame == UNCHANGED <<locks, ticks_since_boot, timer, ret, after, locals, main, panic>>

schedule_enter ==
    /\ Running("schedule")
    /\ \/ /\ postpone_task_switches_counter # 0
          /\ task_switches_postponed_flag' = 1
          /\ Goto(ret[current_task_PCB])
       \/ /\ postpone_task_switches_counter = 0
          /\ Goto(IF first_ready_to_run_task = NULL THEN ret[current_task_PCB] ELSE "pop")
          /\ UNCHANGED task_switches_postponed_flag
    /\ UNCHANGED <<current_task_PCB, lists, fields, IRQ_disable_counter,
                   postpone_task_switches_counter, intr, clock, timer, ret, after,
                   locals, next_task, main, panic>>

schedule_pop ==
    /\ Running("pop")
    /\ next_task' = first_ready_to_run_task
    /\ first_ready_to_run_task' = next[first_ready_to_run_task]
    /\ Goto("drain")
    /\ UNCHANGED <<current_task_PCB, last_ready_to_run_task, sleeping_taskes, dead_tasks,
                   next, fields, last_tick>>
    /\ ScheduleFrame

\* Defect: the tail pointer survives the last task of the list.
schedule_drain_nothing ==
    /\ Running("drain")
    /\ Goto("charge")
    /\ UNCHANGED <<current_task_PCB, lists, fields, last_tick, next_task>>
    /\ ScheduleFrame

schedule_drain ==
    /\ Running("drain")
    /\ last_ready_to_run_task' = IF first_ready_to_run_task = NULL THEN NULL
                                 ELSE last_ready_to_run_task
    /\ Goto("charge")
    /\ UNCHANGED <<current_task_PCB, first_ready_to_run_task, sleeping_taskes, dead_tasks,
                   next, fields, last_tick, next_task>>
    /\ ScheduleFrame

\* Defect: the ticks charged are not taken off the clock.
update_time_used_twice ==
    /\ time_used' = [time_used EXCEPT ![current_task_PCB] =
                        @ + (ticks_since_boot - last_tick)]
    /\ UNCHANGED last_tick

update_time_used ==
    /\ time_used' = [time_used EXCEPT ![current_task_PCB] =
                        @ + (ticks_since_boot - last_tick)]
    /\ last_tick' = ticks_since_boot

schedule_charge ==
    /\ Running("charge")
    /\ update_time_used
    /\ Goto("requeue")
    /\ UNCHANGED <<current_task_PCB, lists, state, target_wakeup_time, next_task>>
    /\ ScheduleFrame

\* Defect: the state test guards the state only, and a task that sleeps or is
\* dead is queued like any other.
schedule_requeue_any ==
    /\ Running("requeue")
    /\ state' = [state EXCEPT ![current_task_PCB] =
                    IF @ = TASK_STATE_RUNNING THEN TASK_STATE_READY_TO_RUN ELSE @]
    /\ next' = [next EXCEPT ![current_task_PCB] = NULL]
    /\ Goto("link")
    /\ UNCHANGED <<current_task_PCB, first_ready_to_run_task, last_ready_to_run_task,
                   sleeping_taskes, dead_tasks, target_wakeup_time, time_used,
                   last_tick, next_task>>
    /\ ScheduleFrame

schedule_requeue ==
    /\ Running("requeue")
    /\ IF state[current_task_PCB] \in {TASK_STATE_RUNNING, TASK_STATE_READY_TO_RUN}
       THEN /\ state' = [state EXCEPT ![current_task_PCB] = TASK_STATE_READY_TO_RUN]
            /\ next' = [next EXCEPT ![current_task_PCB] = NULL]
            /\ Goto("link")
       ELSE Goto("switch") /\ UNCHANGED <<state, next>>
    /\ UNCHANGED <<current_task_PCB, first_ready_to_run_task, last_ready_to_run_task,
                   sleeping_taskes, dead_tasks, target_wakeup_time, time_used,
                   last_tick, next_task>>
    /\ ScheduleFrame

\* Defect: the task that leaves is put first in line.
schedule_link_front ==
    /\ Running("link")
    /\ next' = [next EXCEPT ![current_task_PCB] = first_ready_to_run_task]
    /\ first_ready_to_run_task' = current_task_PCB
    /\ last_ready_to_run_task' = IF last_ready_to_run_task = NULL THEN current_task_PCB
                                 ELSE last_ready_to_run_task
    /\ Goto("switch")
    /\ UNCHANGED <<current_task_PCB, sleeping_taskes, dead_tasks, fields, last_tick,
                   next_task>>
    /\ ScheduleFrame

schedule_link ==
    /\ Running("link")
    /\ IF last_ready_to_run_task # NULL
       THEN /\ next' = [next EXCEPT ![last_ready_to_run_task] = current_task_PCB]
            /\ UNCHANGED first_ready_to_run_task
       ELSE first_ready_to_run_task' = current_task_PCB /\ UNCHANGED next
    /\ last_ready_to_run_task' = current_task_PCB
    /\ Goto("switch")
    /\ UNCHANGED <<current_task_PCB, sleeping_taskes, dead_tasks, fields, last_tick,
                   next_task>>
    /\ ScheduleFrame

\* _switch_to_task: IF is not part of what is saved and restored, so the next
\* task goes on with the IF of the one that left.
switch_to_task ==
    /\ Running("switch")
    /\ IF postpone_task_switches_counter # 0
       THEN /\ task_switches_postponed_flag' = 1
            /\ UNCHANGED <<current_task_PCB, state>>
       ELSE /\ current_task_PCB' = next_task
            /\ state' = [state EXCEPT ![next_task] = TASK_STATE_RUNNING]
            /\ UNCHANGED task_switches_postponed_flag
    /\ Goto(ret[current_task_PCB])
    /\ UNCHANGED <<lists, target_wakeup_time, time_used, IRQ_disable_counter,
                   postpone_task_switches_counter, intr, clock, timer, ret, after,
                   locals, next_task, main, panic>>

(***************************************************************************)
(* Tasks: the stack _forge_kernel_stack builds makes a new task run        *)
(* task_start_up, then its function, then mark_task_for_death.             *)
(***************************************************************************)
\* Defect: a new task undoes a lock it does not hold.
task_start_up_unlocks ==
    /\ Running("start")
    /\ intr' = TRUE
    /\ IRQ_disable_counter' = IRQ_disable_counter - 1
    /\ Goto("body")
    /\ UNCHANGED <<current_task_PCB, lists, fields, postpone_task_switches_counter,
                   task_switches_postponed_flag, clock, timer, ret, after, locals,
                   next_task, main, panic>>

task_start_up ==
    /\ Running("start")
    /\ intr' = TRUE
    /\ Goto("body")
    /\ UNCHANGED <<current_task_PCB, lists, fields, IRQ_disable_counter,
                   postpone_task_switches_counter, task_switches_postponed_flag, clock,
                   timer, ret, after, locals, next_task, main, panic>>

TaskFrame == UNCHANGED <<current_task_PCB, clock, timer, next_task, main, panic>>

\* lock_scheduler(); schedule(); unlock_scheduler(); the form in which long_task
\* and kernel_main give up the CPU.
yield ==
    /\ Running("yield")
    /\ lock_scheduler
    /\ CallSchedule("unlock")
    /\ UNCHANGED <<lists, fields, task_switches_postponed_flag, after, locals>>
    /\ TaskFrame

long_task ==
    /\ Running("body") /\ func[current_task_PCB] = "long_task"
    /\ IF n[current_task_PCB] < LongIters
       THEN /\ n' = [n EXCEPT ![current_task_PCB] = @ + 1]
            /\ after' = [after EXCEPT ![current_task_PCB] = "body"]
            /\ Goto("yield")
       ELSE Goto("death") /\ UNCHANGED <<n, after>>
    /\ UNCHANGED <<lists, fields, locks, ret, func, arg>>
    /\ TaskFrame

Delay(f) == IF f = "test_sleep" THEN SleepDelay ELSE SleepDelay1

\* The loop head of test_sleep and test_sleep1, and micro_sleep: the clock is
\* read before the scheduler is locked.
micro_sleep ==
    /\ Running("body") /\ func[current_task_PCB] \in {"test_sleep", "test_sleep1"}
    /\ IF n[current_task_PCB] < SleepIters
       THEN /\ arg' = [arg EXCEPT ![current_task_PCB] =
                          Clock(ticks_since_boot + Delay(func[current_task_PCB]))]
            /\ Goto("micro_sleep_until")
       ELSE Goto("death") /\ UNCHANGED arg
    /\ UNCHANGED <<lists, fields, locks, ret, after, func, n>>
    /\ TaskFrame

micro_sleep_until ==
    /\ Running("micro_sleep_until")
    /\ LockUntil("block_sleeping")
    /\ target_wakeup_time' = [target_wakeup_time EXCEPT ![current_task_PCB] =
                                 arg[current_task_PCB] % Wrap]
    /\ next' = [next EXCEPT ![current_task_PCB] = sleeping_taskes]
    /\ sleeping_taskes' = current_task_PCB
    /\ Goto("unlock")
    /\ UNCHANGED <<first_ready_to_run_task, last_ready_to_run_task, dead_tasks, state,
                   time_used, ret, locals>>
    /\ TaskFrame

\* block_task(reason) up to its unlock; BlockedSchedule is its call of schedule().
block_task(at, reason, l) ==
    /\ Running(at)
    /\ LockUntil(l)
    /\ state' = [state EXCEPT ![current_task_PCB] = reason]
    /\ Goto("unlock")
    /\ UNCHANGED <<lists, target_wakeup_time, time_used, ret, locals>>
    /\ TaskFrame

BlockedSchedule(at, r) ==
    /\ Running(at)
    /\ CallSchedule(r)
    /\ UNCHANGED <<lists, fields, locks, after, locals>>
    /\ TaskFrame

\* Defect: the demo tasks yield the way long_task does, and are suspended with
\* their lock still open.
SleptYield ==
    /\ Running("slept")
    /\ IF func[current_task_PCB] = "test_sleep1" /\ n[current_task_PCB] = TermIter
       THEN Goto("terminate") /\ UNCHANGED <<n, after>>
       ELSE /\ n' = [n EXCEPT ![current_task_PCB] = @ + 1]
            /\ after' = [after EXCEPT ![current_task_PCB] = "body"]
            /\ Goto("yield")
    /\ UNCHANGED <<lists, fields, locks, ret, func, arg>>
    /\ TaskFrame

\* test_sleep and test_sleep1 after micro_sleep returned.
Slept ==
    /\ Running("slept")
    /\ IF func[current_task_PCB] = "test_sleep1" /\ n[current_task_PCB] = TermIter
       THEN Goto("terminate") /\ UNCHANGED <<n, ret>>
       ELSE /\ n' = [n EXCEPT ![current_task_PCB] = @ + 1]
            /\ CallSchedule("body")
    /\ UNCHANGED <<lists, fields, locks, after, func, arg>>
    /\ TaskFrame

terminate_task ==
    /\ Running("terminate")
    /\ LockUntil("block_terminated")
    /\ next' = [next EXCEPT ![current_task_PCB] = dead_tasks]
    /\ dead_tasks' = current_task_PCB
    /\ Goto("unlock")
    /\ UNCHANGED <<first_ready_to_run_task, last_ready_to_run_task, sleeping_taskes,
                   fields, ret, locals>>
    /\ TaskFrame

mark_task_for_death ==
    /\ Running("death")
    /\ LockUntil("blocked_for_good")
    /\ state' = [state EXCEPT ![current_task_PCB] = TASK_STATE_DEAD]
    /\ next' = [next EXCEPT ![current_task_PCB] = dead_tasks]
    /\ dead_tasks' = current_task_PCB
    /\ Goto("unlock")
    /\ UNCHANGED <<first_ready_to_run_task, last_ready_to_run_task, sleeping_taskes,
                   target_wakeup_time, time_used, ret, locals>>
    /\ TaskFrame

(***************************************************************************)
(* kernel_main.                                                            *)
(***************************************************************************)
MainFrame == UNCHANGED <<current_task_PCB, timer, next_task>>

\* Appending to the ready list as create_kernel_task and unblock_task do it:
\* they decide on the first pointer, schedule() decides on the last one.
Enqueue(t, links) ==
    /\ next' = [x \in TCB |-> CASE x = last_ready_to_run_task
                                      /\ first_ready_to_run_task # NULL -> t
                                [] OTHER -> links[x]]
    /\ first_ready_to_run_task' = IF first_ready_to_run_task = NULL THEN t
                                  ELSE first_ready_to_run_task
    /\ last_ready_to_run_task' = t

\* test_all reads its CPU time before the first test.
test_all ==
    /\ Running("test_all")
    /\ update_time_used
    /\ Goto("create")
    /\ UNCHANGED <<lists, state, target_wakeup_time, locks, ticks_since_boot, ret, after,
                   locals, main, panic>>
    /\ MainFrame

Program == IF phase = "test" THEN TestFuncs ELSE AppFuncs

create_kernel_task ==
    /\ Running("create")
    /\ \E t \in TCB :
          /\ pc[t] = "free"
          /\ LockUntil("created")
          /\ Enqueue(t, [next EXCEPT ![t] = NULL])
          /\ state' = [state EXCEPT ![t] = TASK_STATE_READY_TO_RUN]
          /\ time_used' = [time_used EXCEPT ![t] = 0]
          /\ target_wakeup_time' = [target_wakeup_time EXCEPT ![t] = 0]
          /\ pc' = [pc EXCEPT ![t] = "start", ![current_task_PCB] = "unlock"]
          /\ func' = [func EXCEPT ![t] = Program[Len(watched) + 1]]
          /\ n' = [n EXCEPT ![t] = 0]
          /\ watched' = Append(watched, t)
    /\ UNCHANGED <<sleeping_taskes, dead_tasks, clock, ret, arg, phase, wi, node, panic>>
    /\ MainFrame

\* kmalloc returned NULL for the block or for its stack, which depends on the
\* heap as a whole: abort() with the scheduler locked.
create_out_of_memory ==
    /\ Running("create")
    /\ LockUntil("created")
    /\ panic' = "failed to allocate kernel task"
    /\ Goto("unlock")
    /\ UNCHANGED <<lists, fields, clock, ret, locals, main>>
    /\ MainFrame

created ==
    /\ Running("created")
    /\ Goto(CASE Len(watched) < Len(Program) -> "create"
              [] phase = "test" -> "assert"
              [] OTHER -> "loop")
    /\ UNCHANGED <<lists, fields, locks, clock, ret, after, locals, main, panic>>
    /\ MainFrame

\* test_multitasking_scheduler between creating the tasks and its loop.
first_yield ==
    /\ Running("assert")
    /\ IF IRQ_disable_counter = 0
       THEN /\ after' = [after EXCEPT ![current_task_PCB] = "loop"]
            /\ Goto("yield")
            /\ UNCHANGED panic
       ELSE panic' = "tests failed" /\ UNCHANGED <<pc, after>>
    /\ UNCHANGED <<lists, fields, locks, clock, ret, locals, main>>
    /\ MainFrame

\* The condition of both waiting loops starts with the first task created.
loop_head ==
    /\ Running("loop")
    /\ wi' = 1
    /\ Goto("get_task_state")
    /\ UNCHANGED <<lists, fields, locks, clock, ret, after, locals, phase, watched, node,
                   panic>>
    /\ MainFrame

\* get_task_state returned v: "> 0 ||" goes on to the next watched task.
Answer(v) ==
    /\ wi' = IF v <= 0 /\ wi < Len(watched) THEN wi + 1 ELSE wi
    /\ Goto(CASE v > 0 -> "loop_body"
              [] v <= 0 /\ wi < Len(watched) -> "get_task_state"
              [] OTHER -> "loop_exit")
    /\ UNCHANGED node

WalkFrame == UNCHANGED <<lists, fields, locks, clock, ret, after, locals, phase, watched,
                         panic>>

get_task_state ==
    /\ Running("get_task_state")
    /\ IF watched[wi] = current_task_PCB
       THEN Answer(state[current_task_PCB])
       ELSE /\ node' = first_ready_to_run_task
            /\ Goto("walk_ready")
            /\ UNCHANGED wi
    /\ WalkFrame
    /\ MainFrame

\* One step of a list walk of get_task_state: it takes no lock.
Walk(at, head, then) ==
    /\ Running(at)
    /\ \/ /\ node = NULL
          /\ node' = head
          /\ Goto(then)
          /\ UNCHANGED wi
       \/ /\ node = watched[wi]
          /\ Answer(state[node])
       \/ /\ node \notin {NULL, watched[wi]}
          /\ node' = next[node]
          /\ UNCHANGED <<wi, pc>>
    /\ WalkFrame
    /\ MainFrame

walk_ready    == Walk("walk_ready", sleeping_taskes, "walk_sleeping")
walk_sleeping == Walk("walk_sleeping", dead_tasks, "walk_dead")

walk_dead ==
    /\ Running("walk_dead")
    /\ IF node \in {NULL, watched[wi]}
       THEN Answer(IF node = NULL THEN TASK_STATE_NOT_FOUND ELSE state[node])
       ELSE node' = next[node] /\ UNCHANGED <<wi, pc>>
    /\ WalkFrame
    /\ MainFrame

loop_body ==
    /\ Running("loop_body")
    /\ after' = [after EXCEPT ![current_task_PCB] = IF phase = "test" THEN "loop" ELSE "hlt"]
    /\ Goto("yield")
    /\ UNCHANGED <<lists, fields, locks, clock, ret, locals, main, panic>>
    /\ MainFrame

hlt ==
    /\ Running("hlt")
    /\ Goto("halted")
    /\ UNCHANGED <<lists, fields, locks, clock, ret, after, locals, main, panic>>
    /\ MainFrame

\* The self test is over: its last assertion, the CPU time test_all reports,
\* and kernel_main goes on to the demo tasks.
test_exit ==
    /\ Running("loop_exit") /\ phase = "test"
    /\ IF IRQ_disable_counter = 0
       THEN /\ update_time_used
            /\ phase' = "app"
            /\ watched' = << >>
            /\ Goto("create")
            /\ UNCHANGED panic
       ELSE panic' = "tests failed" /\ UNCHANGED <<time_used, last_tick, phase, watched, pc>>
    /\ UNCHANGED <<lists, state, target_wakeup_time, locks, ticks_since_boot, ret, after,
                   locals, wi, node>>
    /\ MainFrame

app_exit ==
    /\ Running("loop_exit") /\ phase = "app"
    /\ Goto(IF CleanupDead THEN "cleanup" ELSE "idle")
    /\ UNCHANGED <<lists, fields, locks, clock, ret, after, locals, main, panic>>
    /\ MainFrame

\* dead_tasks_cleanup: lock, one free_task per node, unlock.
dead_tasks_cleanup ==
    /\ Running("cleanup")
    /\ LockUntil("idle")
    /\ node' = dead_tasks
    /\ Goto("freeing")
    /\ UNCHANGED <<lists, fields, clock, ret, locals, phase, watched, wi, panic>>
    /\ MainFrame

free_task ==
    /\ Running("freeing") /\ node # NULL
    /\ pc' = [pc EXCEPT ![node] = "free"]
    /\ node' = next[node]
    /\ UNCHANGED <<lists, fields, locks, clock, ret, after, locals, phase, watched, wi, panic>>
    /\ MainFrame

\* Defects: the list head is left pointing at freed blocks; the lock is kept.
cleanup_dangling ==
    /\ Running("freeing") /\ node = NULL
    /\ Goto("unlock")
    /\ UNCHANGED <<lists, fields, locks, clock, ret, after, locals, main, panic>>
    /\ MainFrame

cleanup_keeps_lock ==
    /\ Running("freeing") /\ node = NULL
    /\ dead_tasks' = NULL
    /\ Goto("idle")
    /\ UNCHANGED <<first_ready_to_run_task, last_ready_to_run_task, sleeping_taskes, next,
                   fields, locks, clock, ret, after, locals, main, panic>>
    /\ MainFrame

cleanup_done ==
    /\ Running("freeing") /\ node = NULL
    /\ dead_tasks' = NULL
    /\ Goto("unlock")
    /\ UNCHANGED <<first_ready_to_run_task, last_ready_to_run_task, sleeping_taskes, next,
                   fields, locks, clock, ret, after, locals, main, panic>>
    /\ MainFrame

(***************************************************************************)
(* The timer interrupt.  The PIC keeps other interrupts away until its     *)
(* EOI, so the sti of the handler's own unlock lets nothing in; iret sets  *)
(* IF again, since only a CPU with IF set takes the interrupt.             *)
(***************************************************************************)
\* Any interrupt ends the hlt of the waiting loop.
Wake == pc' = [pc EXCEPT ![current_task_PCB] = IF @ = "halted" THEN "loop" ELSE @]

Interruptible == intr /\ irq = "none" /\ panic = "none"

IrqFrame == UNCHANGED <<current_task_PCB, last_tick, ret, after, locals, next_task, main, panic>>

\* irq_0_handler calls internal_update_awoken_taskes, which locks the scheduler.
irq_0_handler ==
    /\ Interruptible
    /\ ticks_since_boot' = Clock(ticks_since_boot + 1)
    /\ lock_scheduler
    /\ irq' = "timer"
    /\ curr' = sleeping_taskes
    /\ prev' = NULL
    /\ Wake
    /\ UNCHANGED <<lists, fields, task_switches_postponed_flag>>
    /\ IrqFrame

Unlink == IF prev = NULL THEN next ELSE [next EXCEPT ![prev] = next[curr]]

\* Defect: off by one tick.
unblock_task_early ==
    /\ irq = "timer" /\ curr # NULL
    /\ target_wakeup_time[curr] <= ticks_since_boot + 1
    /\ sleeping_taskes' = IF prev = NULL THEN next[curr] ELSE sleeping_taskes
    /\ state' = [state EXCEPT ![curr] = TASK_STATE_READY_TO_RUN]
    /\ Enqueue(curr, [Unlink EXCEPT ![curr] = NULL])
    /\ curr' = next[curr]
    /\ UNCHANGED <<prev, irq, dead_tasks, target_wakeup_time, time_used, locks,
                   ticks_since_boot, pc>>
    /\ IrqFrame

\* A sleeper whose time has come is unlinked and given to unblock_task, whose
\* own lock and unlock cancel out.
unblock_task ==
    /\ irq = "timer" /\ curr # NULL
    /\ target_wakeup_time[curr] <= ticks_since_boot
    /\ sleeping_taskes' = IF prev = NULL THEN next[curr] ELSE sleeping_taskes
    /\ state' = [state EXCEPT ![curr] = TASK_STATE_READY_TO_RUN]
    /\ Enqueue(curr, [Unlink EXCEPT ![curr] = NULL])
    /\ curr' = next[curr]
    /\ UNCHANGED <<prev, irq, dead_tasks, target_wakeup_time, time_used, locks,
                   ticks_since_boot, pc>>
    /\ IrqFrame

still_sleeping ==
    /\ irq = "timer" /\ curr # NULL
    /\ target_wakeup_time[curr] > ticks_since_boot
    /\ prev' = curr
    /\ curr' = next[curr]
    /\ UNCHANGED <<irq, lists, fields, locks, ticks_since_boot, pc>>
    /\ IrqFrame

\* The handler's unlock.  It would switch tasks inside the interrupt if a
\* switch were pending; PostponeClean says that none ever is.
irq_0_return ==
    /\ irq = "timer" /\ curr = NULL
    /\ task_switches_postponed_flag = 0
    /\ irq' = "none"
    /\ intr' = TRUE
    /\ IRQ_disable_counter' = IRQ_disable_counter - 1
    /\ postpone_task_switches_counter' = postpone_task_switches_counter - 1
    /\ UNCHANGED <<curr, prev, lists, fields, task_switches_postponed_flag,
                   ticks_since_boot, pc>>
    /\ IrqFrame

\* The keyboard interrupt leaves the scheduler alone but ends a hlt.
irq_1_handler ==
    /\ Interruptible
    /\ pc[current_task_PCB] = "halted"
    /\ Wake
    /\ UNCHANGED <<timer, lists, fields, locks, ticks_since_boot>>
    /\ IrqFrame

(***************************************************************************)
(* The state after multitasking_initialize, and the specification.         *)
(***************************************************************************)
multitasking_initialize ==
    /\ current_task_PCB = Main
    /\ first_ready_to_run_task = NULL /\ last_ready_to_run_task = NULL
    /\ sleeping_taskes = NULL /\ dead_tasks = NULL
    /\ next = [t \in TCB |-> IF t = Main THEN Main ELSE NULL]
    /\ state = [t \in TCB |-> IF t = Main THEN TASK_STATE_RUNNING ELSE TASK_STATE_DEAD]
    /\ target_wakeup_time = [t \in TCB |-> 0]
    /\ time_used = [t \in TCB |-> 0]
    /\ IRQ_disable_counter = 0 /\ postpone_task_switches_counter = 0
    /\ task_switches_postponed_flag = 0
    /\ ticks_since_boot = BootTicks /\ last_tick = BootTicks
    /\ intr = TRUE

Init ==
    /\ multitasking_initialize
    /\ irq = "none" /\ curr = NULL /\ prev = NULL
    /\ pc = [t \in TCB |-> IF t = Main THEN "test_all" ELSE "free"]
    /\ ret = [t \in TCB |-> "unlock"]
    /\ after = [t \in TCB |-> IF t = Main THEN "created" ELSE "body"]
    /\ func = [t \in TCB |-> "long_task"]
    /\ n = [t \in TCB |-> 0]
    /\ arg = [t \in TCB |-> 0]
    /\ next_task = NULL
    /\ phase = "test" /\ watched = << >> /\ wi = 1 /\ node = NULL
    /\ panic = "none"

Schedule ==
    \/ schedule_enter \/ schedule_pop \/ schedule_drain \/ schedule_charge
    \/ schedule_requeue \/ schedule_link \/ switch_to_task

Task ==
    \/ task_start_up \/ yield \/ long_task \/ micro_sleep \/ micro_sleep_until
    \/ block_task("block_sleeping", TASK_STATE_SLEEPING, "blocked_sleeping")
    \/ block_task("block_terminated", TASK_STATE_TERMINATED, "blocked_for_good")
    \/ BlockedSchedule("blocked_sleeping", "slept")
    \/ BlockedSchedule("blocked_for_good", "abort")
    \/ Slept \/ terminate_task \/ mark_task_for_death

kernel_main ==
    \/ test_all \/ create_kernel_task \/ create_out_of_memory \/ created \/ first_yield
    \/ loop_head \/ get_task_state \/ walk_ready \/ walk_sleeping \/ walk_dead
    \/ loop_body \/ hlt \/ test_exit \/ app_exit
    \/ dead_tasks_cleanup \/ free_task \/ cleanup_done

\* abort() ends in a hlt loop with IF clear.
abort_loop == panic # "none" /\ UNCHANGED vars

Timer == unblock_task \/ still_sleeping \/ irq_0_return

CPU == unlock_scheduler \/ unlock_tail \/ Schedule \/ Task \/ kernel_main

Next == CPU \/ irq_0_handler \/ Timer \/ irq_1_handler \/ abort_loop

Spec == Init /\ [][Next]_vars

\* The CPU goes on between two interrupts (a handler is far shorter than the
\* millisecond between ticks), a handler runs to its end, and the PIC keeps a
\* timer request pending until IF lets it in.
Fairness == SF_vars(CPU) /\ WF_vars(Timer) /\ SF_vars(irq_0_handler)

FairSpec == Spec /\ Fairness

(***************************************************************************)
(* Properties.                                                             *)
(***************************************************************************)
\* Every variable has the type of the C object it stands for; the counters,
\* which are unsigned, are never decremented below zero.
TypeOK ==
    /\ current_task_PCB \in TCB
    /\ {first_ready_to_run_task, last_ready_to_run_task, sleeping_taskes, dead_tasks,
        curr, prev, next_task, node} \subseteq Ptr
    /\ next \in [TCB -> Ptr]
    /\ state \in [TCB -> TaskState]
    /\ target_wakeup_time \in [TCB -> Nat] /\ time_used \in [TCB -> Nat]
    /\ IRQ_disable_counter \in Nat /\ postpone_task_switches_counter \in Nat
    /\ task_switches_postponed_flag \in {0, 1}
    /\ ticks_since_boot \in Nat /\ last_tick \in Nat /\ last_tick <= ticks_since_boot
    /\ intr \in BOOLEAN /\ irq \in {"none", "timer"}
    /\ pc \in [TCB -> Location]
    /\ ret \in [TCB -> {"unlock", "unlock_tail", "slept", "body", "abort"}]
    /\ after \in [TCB -> {"body", "block_sleeping", "blocked_sleeping", "block_terminated",
                         "blocked_for_good", "created", "loop", "hlt", "idle"}]
    /\ func \in [TCB -> Func] /\ n \in [TCB -> Nat] /\ arg \in [TCB -> Nat]
    /\ phase \in {"test", "app"} /\ watched \in Seq(TCB) /\ wi \in Nat \ {0}
    /\ panic \in {"none", "failed to allocate kernel task", "tests failed"}

\* Task t is between lock_scheduler and the last decrement of the unlock that
\* closes the region, suspended in the middle of it or not.
Holds(t) ==
    \/ pc[t] \in {"unlock", "unlock_tail", "freeing"}
    \/ pc[t] \in ScheduleBody \cup {"schedule"} /\ ret[t] \in {"unlock", "unlock_tail"}

InHandler == IF irq = "timer" THEN 1 ELSE 0

\* IRQ_disable_counter is one global counter, yet a task that leaves the CPU
\* inside unlock_scheduler decrements it only when it runs again.  It always
\* equals the number of open locks, over all tasks, plus the handler's.
LockConservation ==
    IRQ_disable_counter = Cardinality({t \in TCB : Holds(t)}) + InHandler

\* Only the running task or the handler can keep task switches postponed: no
\* suspended task does.  A switch is pending only inside such a region, so the
\* handler's unlock never switches tasks in the middle of an interrupt.
PostponeClean ==
    LET open == \/ pc[current_task_PCB] \in {"unlock", "freeing"}
                \/ pc[current_task_PCB] = "schedule" /\ ret[current_task_PCB] = "unlock"
    IN  /\ postpone_task_switches_counter = (IF open THEN 1 ELSE 0) + InHandler
        /\ task_switches_postponed_flag # 0 => pc[current_task_PCB] = "unlock"

\* Where a task is half way off a list, half way onto one, or about to leave the
\* CPU in a state other than RUNNING.
Critical == ScheduleBody \cup
    {"schedule", "unlock", "unlock_tail", "freeing", "block_sleeping", "blocked_sleeping",
     "slept", "terminate", "block_terminated", "blocked_for_good"}

\* schedule() never disables interrupts, and block_task, mark_task_for_death and
\* the demo tasks call it unlocked; still the timer handler, which edits the
\* same lists, can never run inside it or between a task's putting itself on a
\* list and its leaving the CPU.
ScheduleUninterrupted ==
    pc[current_task_PCB] \in Critical => ~intr /\ irq = "none"

\* The hlt of kernel_main's loop is only executed with interrupts enabled and no
\* open lock, so it always ends.
HaltNeedsInterrupts ==
    pc[current_task_PCB] = "halted" => intr /\ IRQ_disable_counter = 0

\* The self test's assertions hold, and no task is resumed that was marked for
\* death, terminated or freed (the aborts in mark_task_for_death and
\* terminate_task are never reached).
NoPanic == panic # "tests failed" /\ pc[current_task_PCB] \notin {"abort", "free"}

\* micro_sleep returns only once the clock has reached the deadline it computed.
SleepsLongEnough ==
    pc[current_task_PCB] = "slept" => ticks_since_boot >= arg[current_task_PCB]

\* "task doesnt exist or already cleanedup" (task.c): get_task_state answers
\* TASK_STATE_NOT_FOUND only for a task that was freed.
NotFoundMeansGone ==
    pc[Main] = "walk_dead" /\ node = NULL => pc[watched[wi]] = "free"

\* A task that was marked for death or terminated is never changed back: no step
\* takes it to another state, to another location than the abort it is
\* suspended at (but for free_task), or onto the CPU.
DeadStayDead ==
    [][\A t \in TCB : (pc[t] = "abort" /\ state[t] \in {TASK_STATE_DEAD, TASK_STATE_TERMINATED})
          => /\ state'[t] = state[t]
             /\ pc'[t] \in {"abort", "free"}
             /\ current_task_PCB' # t]_vars

\* kernel_main gets to its idle loop: both waiting loops end.
ReachesIdle == <>(pc[Main] = "idle" \/ panic # "none")
=============================================================================
