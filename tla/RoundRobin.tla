----------------------------- MODULE RoundRobin -----------------------------
(***************************************************************************)
(* What the scheduler promises its callers: cooperative round robin.  The  *)
(* running task leaves the CPU to the task that has been ready longest, a  *)
(* task that became ready waits behind all others, and a task is in one    *)
(* place at a time.                                                        *)
(***************************************************************************)
EXTENDS Sequences

CONSTANTS Task, Boot

VARIABLES
    running,   \* the task on the CPU
    ready,     \* the tasks that wait for the CPU, longest wait first
    sleeping,  \* the tasks that wait for the clock
    gone       \* the tasks that ended and whose memory is not freed yet

vars == <<running, ready, sleeping, gone>>

Waiting == {ready[i] : i \in DOMAIN ready}
Known == {running} \cup Waiting \cup sleeping \cup gone

Init == running = Boot /\ ready = << >> /\ sleeping = {} /\ gone = {}

Create(t) ==
    /\ t \notin Known
    /\ ready' = Append(ready, t)
    /\ UNCHANGED <<running, sleeping, gone>>

Yield ==
    /\ ready # << >>
    /\ running' = Head(ready)
    /\ ready' = Append(Tail(ready), running)
    /\ UNCHANGED <<sleeping, gone>>

Sleep ==
    /\ ready # << >>
    /\ running' = Head(ready)
    /\ ready' = Tail(ready)
    /\ sleeping' = sleeping \cup {running}
    /\ UNCHANGED gone

Exit ==
    /\ ready # << >>
    /\ running' = Head(ready)
    /\ ready' = Tail(ready)
    /\ gone' = gone \cup {running}
    /\ UNCHANGED sleeping

Wake(t) ==
    /\ t \in sleeping
    /\ sleeping' = sleeping \ {t}
    /\ ready' = Append(ready, t)
    /\ UNCHANGED <<running, gone>>

Reap(t) ==
    /\ t \in gone
    /\ gone' = gone \ {t}
    /\ UNCHANGED <<running, ready, sleeping>>

Next ==
    \/ Yield \/ Sleep \/ Exit
    \/ \E t \in Task : Create(t) \/ Wake(t) \/ Reap(t)

Spec == Init /\ [][Next]_vars
=============================================================================
