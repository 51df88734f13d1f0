--------------------------- MODULE SchedulerLists ---------------------------
(***************************************************************************)
(* What the scheduler's linked lists hold: they are well formed, every     *)
(* task is in one place, and the scheduler implements RoundRobin.          *)
(***************************************************************************)
EXTENDS Scheduler, FiniteSetsExt, SequencesExt

\* The pointers met when following next from head; NULL once the list ended.
Follow(head) ==
    LET link == [p \in Ptr |-> IF p = NULL THEN NULL ELSE next[p]]
        at[k \in 0..Cardinality(TCB)] == IF k = 0 THEN head ELSE link[at[k - 1]]
    IN  at

\* The tasks of a list in order (of its first Cardinality(TCB) nodes if cyclic).
Chain(head) ==
    LET at == Follow(head)
        len == Cardinality({k \in 0..(Cardinality(TCB) - 1) : at[k] # NULL})
    IN  [k \in 1..len |-> at[k - 1]]

WellFormed(head) == Follow(head)[Cardinality(TCB)] = NULL

\* Inside schedule() after the pop: next_task is on no list.
Popped == pc[current_task_PCB] \in ScheduleBody \ {"pop"}

\* A task is on the CPU until _switch_to_task has left it, whatever list it has put
\* itself on (on the ready list it is the last), and the task schedule() has popped
\* is still the first to run.
Queued ==
    LET c == Chain(first_ready_to_run_task)
    IN  IF c # << >> /\ Last(c) = current_task_PCB THEN Front(c) ELSE c
Ready == (IF Popped THEN <<next_task>> ELSE << >>) \o Queued
Sleeping == ToSet(Chain(sleeping_taskes)) \ {current_task_PCB}
Gone == {t \in ToSet(Chain(dead_tasks)) \ {current_task_PCB} : pc[t] # "free"}
Created == {t \in TCB : pc[t] # "free"}

\* The ready, sleeping and dead lists end, share no task, and hold each task
\* that exists once, in the state that goes with the list; the tail pointer
\* of the ready list is its last node.
QueueIntegrity ==
    /\ WellFormed(first_ready_to_run_task) /\ WellFormed(sleeping_taskes)
    /\ WellFormed(dead_tasks)
    /\ LET where == <<ToSet(Ready), Sleeping, Gone, {current_task_PCB}>>
       IN  /\ \A i, j \in DOMAIN where : i # j => where[i] \cap where[j] = {}
           /\ UNION ToSet(where) = Created
    /\ IsInjective(Ready)
    /\ \A t \in ToSet(Ready) : state[t] = TASK_STATE_READY_TO_RUN
    /\ \A t \in Sleeping : state[t] = TASK_STATE_SLEEPING
    /\ \A t \in Gone : state[t] \in {TASK_STATE_DEAD, TASK_STATE_TERMINATED}
    /\ pc[current_task_PCB] # "drain" =>
          last_ready_to_run_task = IF first_ready_to_run_task = NULL THEN NULL
                                   ELSE Last(Chain(first_ready_to_run_task))

\* Outside dead_tasks_cleanup no list leads to a freed block, the running task is
\* not in one, and no block is freed twice.
NoDanglingList ==
    /\ \A h \in {first_ready_to_run_task, sleeping_taskes, dead_tasks} :
          pc[current_task_PCB] # "freeing" => ToSet(Chain(h)) \subseteq Created
    /\ pc[current_task_PCB] = "freeing" /\ node # NULL => node \in Created \ {current_task_PCB}

\* update_time_used charges each tick once: what the tasks were charged adds up
\* to the clock when it was last read.
CpuTimeConserved ==
    MapThenSumSet(LAMBDA t : time_used[t], TCB) = last_tick - BootTicks

RR == INSTANCE RoundRobin WITH Task <- TCB, Boot <- Main, running <- current_task_PCB,
                               ready <- Ready, sleeping <- Sleeping, gone <- Gone

\* Every step of the scheduler is a step of cooperative round robin or none.
ImplementsRoundRobin == RR!Spec

\* A task that became ready gets the CPU, unless kernel_main stopped scheduling.
ReadyRuns ==
    \A t \in TCB :
       (\E i \in DOMAIN Ready : Ready[i] = t)
          ~> (current_task_PCB = t \/ pc[Main] = "idle" \/ panic # "none")
=============================================================================
