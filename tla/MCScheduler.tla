---------------------------- MODULE MCScheduler ----------------------------
(* The program kernel_main ships, with smaller loop bounds and delays. *)
EXTENDS SchedulerLists

CONSTANTS m, t1, t2, t3, t4

Pool == {m, t1, t2, t3, t4}
SmallPool == {m, t1, t2, t3}
OnlyLong == <<"long_task">>
TwoLong == <<"long_task", "long_task">>
TwoSleepers == <<"test_sleep", "test_sleep1">>

\* The blocks of the heap are interchangeable.
Blocks == Permutations(TCB \ {Main})
=============================================================================
