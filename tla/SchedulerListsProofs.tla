------------------------ MODULE SchedulerListsProofs ------------------------
(***************************************************************************)
(* Proofs about the scheduler's linked lists: each is a list, every task   *)
(* is on one of them, and the scheduler implements RoundRobin, for any     *)
(* number of tasks and any program made of the three task functions, with  *)
(* or without the cleanup of the dead at the end.  Then what kernel_main   *)
(* and its self test rely on: the CPU time the tasks were charged adds up  *)
(* to the clock, the self test's assertions hold, and the waiting loop     *)
(* never halts for good.                                                   *)
(***************************************************************************)
EXTENDS SchedulerLists, SchedulerProofs, NumberLemmas, SequenceTheorems

(***************************************************************************)
(* Lists linked through a next pointer                                     *)
(***************************************************************************)
\* s is what following nx from h meets, up to NULL.
IsList(h, s, nx) ==
    /\ s \in Seq(TCB)
    /\ \A i, j \in 1..Len(s) : s[i] = s[j] => i = j
    /\ h = IF Len(s) = 0 THEN NULL ELSE s[1]
    /\ \A i \in 1..Len(s) : nx[s[i]] = IF i = Len(s) THEN NULL ELSE s[i + 1]

Elems(s) == {s[i] : i \in 1..Len(s)}
Nth(s, i) == IF i \in 1..Len(s) THEN s[i] ELSE NULL

(***************************************************************************)
(* Where the tasks are                                                     *)
(***************************************************************************)
InSchedule == ScheduleBody \cup {"schedule"}
YieldAfter == {"body", "created", "loop", "hlt", "idle"}

\* What the running task is about: where its unlock or its schedule() returns to.
Region ==
    IF pc[current_task_PCB] \in {"unlock", "unlock_tail"} THEN after[current_task_PCB]
    ELSE IF pc[current_task_PCB] \in InSchedule THEN ret[current_task_PCB]
    ELSE pc[current_task_PCB]

\* The running task has put itself on the sleeping list, on the dead list, or
\* back on the ready list, and has not left the CPU yet.
Dozing == /\ pc[current_task_PCB] # "slept"
          /\ Region \in {"block_sleeping", "blocked_sleeping", "slept"}
Dying  == Region \in {"block_terminated", "blocked_for_good", "abort"}
Linked == pc[current_task_PCB] = "switch" /\ Region \in {"unlock_tail", "body"}

\* The state goes with what the task is about.
RunState ==
    IF Dozing /\ Region # "block_sleeping" THEN {TASK_STATE_SLEEPING}
    ELSE IF Dying /\ Region # "block_terminated" THEN {TASK_STATE_DEAD, TASK_STATE_TERMINATED}
    ELSE IF pc[current_task_PCB] \in {"link", "switch"} THEN {TASK_STATE_READY_TO_RUN}
    ELSE {TASK_STATE_RUNNING}

\* The clock has reached the time the task asked for.
Due(t) == arg[t] % Wrap <= ticks_since_boot

\* A task that waits for the CPU.
Waits(t) ==
    /\ state[t] = TASK_STATE_READY_TO_RUN
    /\ pc[t] \in {"start", "unlock_tail", "slept", "body"}
    /\ pc[t] = "unlock_tail" => after[t] \in YieldAfter
    /\ pc[t] = "slept" => Due(t)

\* The running task.
Runs ==
    /\ pc[current_task_PCB] \notin {"free", "abort"}
    /\ state[current_task_PCB] \in RunState
    /\ pc[current_task_PCB] = "yield" => after[current_task_PCB] \in YieldAfter
    /\ pc[current_task_PCB] \in InSchedule /\ ret[current_task_PCB] \in {"unlock", "unlock_tail"}
          => after[current_task_PCB] \in YieldAfter
    /\ task_switches_postponed_flag # 0 => after[current_task_PCB] \in YieldAfter
    /\ pc[current_task_PCB] = "link" => /\ next[current_task_PCB] = NULL
                                        /\ Region \in {"unlock_tail", "body"}
    /\ pc[current_task_PCB] = "slept" => Due(current_task_PCB)
    /\ \A t \in TCB : arg[t] <= MaxTicks

\* The cursors of internal_update_awoken_taskes are at two neighbours of the list.
Cursor(sq) ==
    irq = "timer" => \E i \in 1..(Len(sq) + 1) : curr = Nth(sq, i) /\ prev = Nth(sq, i - 1)

\* rq, sq and dq are the ready, the sleeping and the dead list.
Lists(rq, sq, dq) ==
    /\ IsList(first_ready_to_run_task, rq, next)
    /\ IsList(sleeping_taskes, sq, next)
    /\ IsList(dead_tasks, dq, next)
    /\ Elems(rq) \cap Elems(sq) = {} /\ Elems(rq) \cap Elems(dq) = {}
    /\ Elems(sq) \cap Elems(dq) = {}
    /\ Len(rq) # 0 => last_ready_to_run_task = rq[Len(rq)]
    /\ Len(rq) = 0 /\ pc[current_task_PCB] # "drain" => last_ready_to_run_task = NULL
    /\ Cursor(sq)

\* Every task is in one place, in the state that goes with the place.
Places(rq, sq, dq) ==
    /\ current_task_PCB \in Elems(sq) <=> Dozing
    /\ current_task_PCB \in Elems(dq) <=> Dying
    /\ current_task_PCB \in Elems(rq) <=> Linked
    /\ Linked => rq[Len(rq)] = current_task_PCB
    /\ \A t \in Elems(rq) : t # current_task_PCB => Waits(t)
    /\ \A t \in Elems(sq) : /\ target_wakeup_time[t] = arg[t] % Wrap
                            /\ t # current_task_PCB => state[t] = TASK_STATE_SLEEPING /\ pc[t] = "slept"
    /\ \A t \in Elems(dq) : t # current_task_PCB =>
            state[t] \in {TASK_STATE_DEAD, TASK_STATE_TERMINATED} /\ pc[t] = "abort"
    /\ Popped => /\ next_task \in TCB /\ next_task # current_task_PCB /\ Waits(next_task)
                 /\ next_task \notin Elems(rq) \cup Elems(sq) \cup Elems(dq)
    /\ \A t \in TCB : \/ pc[t] = "free" \/ t = current_task_PCB \/ (Popped /\ t = next_task)
                      \/ t \in Elems(rq) \cup Elems(sq) \cup Elems(dq)

(***************************************************************************)
(* The operations on lists                                                 *)
(***************************************************************************)
\* A list does not depend on the pointers of other blocks.
LEMMA ListSame ==
  ASSUME NEW h, NEW s, NEW nx, NEW nx2, IsList(h, s, nx),
         \A t \in Elems(s) : nx2[t] = nx[t]
  PROVE  IsList(h, s, nx2)
BY DEF IsList, Elems

\* The members of a list are blocks.
LEMMA ListMembers ==
  ASSUME NEW h, NEW s, NEW nx, IsList(h, s, nx)
  PROVE  /\ Elems(s) \subseteq TCB
         /\ Len(s) \in Nat
         /\ h = NULL <=> Len(s) = 0
         /\ Len(s) # 0 => /\ h = s[1] /\ h \in Elems(s)
                          /\ s[Len(s)] \in Elems(s)
<1>1. s \in Seq(TCB) /\ h = IF Len(s) = 0 THEN NULL ELSE s[1]
  BY DEF IsList
<1>2. \A i \in 1..Len(s) : s[i] \in TCB
  BY <1>1
<1>3. Len(s) \in Nat
  BY <1>1
<1>4. Len(s) # 0 => 1 \in 1..Len(s) /\ Len(s) \in 1..Len(s)
  BY <1>3
<1> QED
  BY <1>1, <1>2, <1>3, <1>4, TCBAssumption DEF Elems

\* Pushing in front.
LEMMA ListPush ==
  ASSUME NEW h, NEW s, NEW nx, NEW nx2, IsList(h, s, nx), NEW t \in TCB, t \notin Elems(s),
         nx2[t] = h, \A u \in Elems(s) : nx2[u] = nx[u]
  PROVE  /\ IsList(t, <<t>> \o s, nx2)
         /\ Elems(<<t>> \o s) = {t} \cup Elems(s)
         /\ (<<t>> \o s)[1] = t
<1> DEFINE p == <<t>> \o s
<1>1. s \in Seq(TCB) /\ Len(s) \in Nat /\ h = IF Len(s) = 0 THEN NULL ELSE s[1]
  BY DEF IsList
<1>2. p \in Seq(TCB) /\ Len(p) = Len(s) + 1 /\ p[1] = t
  BY <1>1
<1>3. \A i \in 1..Len(s) : p[i + 1] = s[i]
  BY <1>1
<1>4. \A i \in 1..Len(p) : i # 1 => i - 1 \in 1..Len(s) /\ p[i] = s[i - 1]
  BY <1>1, <1>2, <1>3
<1> HIDE DEF p
<1>5. \A i \in 1..Len(s) : s[i] \in Elems(s)
  BY DEF Elems
<1>6. \A i, j \in 1..Len(p) : p[i] = p[j] => i = j
  <2> SUFFICES ASSUME NEW i \in 1..Len(p), NEW j \in 1..Len(p), p[i] = p[j] PROVE i = j
    OBVIOUS
  <2>1. CASE i = 1 /\ j = 1
    BY <2>1
  <2>2. CASE i # 1 /\ j # 1
    <3>1. i - 1 \in 1..Len(s) /\ j - 1 \in 1..Len(s) /\ s[i - 1] = s[j - 1]
      BY <1>4, <2>2
    <3>2. i - 1 = j - 1
      BY <3>1 DEF IsList
    <3> QED
      BY <1>2, <3>2
  <2>3. CASE (i = 1 /\ j # 1) \/ (i # 1 /\ j = 1)
    BY <1>2, <1>4, <1>5, <2>3
  <2> QED
    BY <2>1, <2>2, <2>3
<1>7. \A i \in 1..Len(p) : nx2[p[i]] = IF i = Len(p) THEN NULL ELSE p[i + 1]
  <2> SUFFICES ASSUME NEW i \in 1..Len(p)
               PROVE  nx2[p[i]] = IF i = Len(p) THEN NULL ELSE p[i + 1]
    OBVIOUS
  <2>1. CASE i = 1
    <3>1. i # Len(p) => Len(s) # 0 /\ 1 \in 1..Len(s)
      BY <1>1, <1>2, <2>1
    <3>2. i # Len(p) => p[i + 1] = s[1]
      BY <1>3, <2>1, <3>1
    <3>3. i = Len(p) => Len(s) = 0
      BY <1>1, <1>2, <2>1
    <3>4. nx2[p[i]] = IF Len(s) = 0 THEN NULL ELSE s[1]
      BY <1>1, <1>2, <2>1
    <3> QED
      BY <3>1, <3>2, <3>3, <3>4, Zenon
  <2>2. CASE i # 1
    <3>1. i - 1 \in 1..Len(s) /\ p[i] = s[i - 1]
      BY <1>4, <2>2
    <3>2. nx2[p[i]] = IF i - 1 = Len(s) THEN NULL ELSE s[(i - 1) + 1]
      BY <1>5, <3>1 DEF IsList
    <3>3. i # Len(p) => p[i + 1] = s[(i - 1) + 1]
      <4>1. (i - 1) + 1 = i /\ (i # Len(p) => i \in 1..Len(s))
        BY <1>1, <1>2
      <4> QED
        BY <1>3, <4>1
    <3> QED
      BY <1>1, <1>2, <3>1, <3>2, <3>3
  <2> QED
    BY <2>1, <2>2
<1>8. Elems(p) = {t} \cup Elems(s)
  <2>1. Elems(p) \subseteq {t} \cup Elems(s)
    BY <1>2, <1>4, <1>5 DEF Elems
  <2>2. t \in Elems(p)
    BY <1>1, <1>2 DEF Elems
  <2>3. ASSUME NEW u \in Elems(s) PROVE u \in Elems(p)
    <3>1. PICK i \in 1..Len(s) : u = s[i]
      BY DEF Elems
    <3>2. i + 1 \in 1..Len(p) /\ p[i + 1] = u
      BY <1>1, <1>2, <1>3, <3>1
    <3> QED
      BY <3>2 DEF Elems
  <2> QED
    BY <2>1, <2>2, <2>3
<1>9. IsList(t, p, nx2)
  BY <1>1, <1>2, <1>6, <1>7 DEF IsList
<1> QED
  BY <1>2, <1>8, <1>9 DEF p

\* Appending at the end.
LEMMA ListAppend ==
  ASSUME NEW h, NEW s, NEW nx, NEW nx2, IsList(h, s, nx), NEW t \in TCB, t \notin Elems(s),
         nx2[t] = NULL,
         \A u \in Elems(s) : nx2[u] = IF u = s[Len(s)] THEN t ELSE nx[u]
  PROVE  /\ IsList(IF h = NULL THEN t ELSE h, Append(s, t), nx2)
         /\ Elems(Append(s, t)) = Elems(s) \cup {t}
         /\ Len(Append(s, t)) # 0 /\ Append(s, t)[Len(Append(s, t))] = t
<1> DEFINE p == Append(s, t)
<1>1. s \in Seq(TCB) /\ Len(s) \in Nat /\ h = IF Len(s) = 0 THEN NULL ELSE s[1]
  BY DEF IsList
<1>2. p \in Seq(TCB) /\ Len(p) = Len(s) + 1 /\ p[Len(p)] = t /\ Len(p) # 0
  BY <1>1
<1>3. \A i \in 1..Len(s) : p[i] = s[i] /\ s[i] \in Elems(s) /\ i \in 1..Len(p)
  BY <1>1 DEF Elems
<1>4. \A i \in 1..Len(p) : i # Len(p) => i \in 1..Len(s)
  BY <1>1, <1>2
<1> HIDE DEF p
<1>6. \A i, j \in 1..Len(p) : p[i] = p[j] => i = j
  <2> SUFFICES ASSUME NEW i \in 1..Len(p), NEW j \in 1..Len(p), p[i] = p[j] PROVE i = j
    OBVIOUS
  <2>1. CASE i = Len(p) /\ j = Len(p)
    BY <2>1
  <2>2. CASE i # Len(p) /\ j # Len(p)
    BY <1>3, <1>4, <2>2 DEF IsList
  <2>3. CASE (i = Len(p) /\ j # Len(p)) \/ (i # Len(p) /\ j = Len(p))
    BY <1>2, <1>3, <1>4, <2>3
  <2> QED
    BY <2>1, <2>2, <2>3
<1>7. \A i \in 1..Len(p) : nx2[p[i]] = IF i = Len(p) THEN NULL ELSE p[i + 1]
  <2> SUFFICES ASSUME NEW i \in 1..Len(p)
               PROVE  nx2[p[i]] = IF i = Len(p) THEN NULL ELSE p[i + 1]
    OBVIOUS
  <2>1. CASE i = Len(p)
    BY <1>2, <2>1
  <2>2. CASE i = Len(s)
    <3>1. i \in 1..Len(s) /\ i # Len(p) /\ i + 1 = Len(p)
      BY <1>1, <1>2, <2>2
    <3> QED
      BY <1>2, <1>3, <2>2, <3>1
  <2>3. CASE i # Len(p) /\ i # Len(s)
    <3>1. i \in 1..Len(s) /\ i + 1 \in 1..Len(s)
      BY <1>1, <1>2, <2>3
    <3>2. Len(s) \in 1..Len(s) /\ s[i] # s[Len(s)]
      BY <1>1, <2>3, <3>1 DEF IsList
    <3>3. nx[s[i]] = s[i + 1]
      BY <2>3, <3>1 DEF IsList
    <3> QED
      BY <1>3, <2>3, <3>1, <3>2, <3>3
  <2> QED
    BY <2>1, <2>2, <2>3
<1>8. Elems(p) = Elems(s) \cup {t}
  <2>1. Elems(p) \subseteq Elems(s) \cup {t}
    BY <1>2, <1>3, <1>4 DEF Elems
  <2>2. t \in Elems(p)
    BY <1>1, <1>2 DEF Elems
  <2>3. Elems(s) \subseteq Elems(p)
    BY <1>3 DEF Elems
  <2> QED
    BY <2>1, <2>2, <2>3
<1>9. (IF h = NULL THEN t ELSE h) = p[1]
  <2>1. CASE Len(s) = 0
    BY <1>1, <1>2, <2>1
  <2>2. CASE Len(s) # 0
    <3>1. 1 \in 1..Len(s)
      BY <1>1, <2>2
    <3>2. h = s[1] /\ h \in TCB /\ p[1] = s[1]
      BY <1>1, <1>3, <2>2, <3>1
    <3> QED
      BY <3>2, TCBAssumption
  <2> QED
    BY <2>1, <2>2
<1>10. IsList(IF h = NULL THEN t ELSE h, p, nx2)
  BY <1>2, <1>6, <1>7, <1>9 DEF IsList
<1> QED
  BY <1>2, <1>8, <1>10 DEF p

\* Taking the first off.
LEMMA ListPop ==
  ASSUME NEW h, NEW s, NEW nx, IsList(h, s, nx), h # NULL
  PROVE  /\ IsList(nx[h], Tail(s), nx)
         /\ h \in Elems(s) /\ Elems(Tail(s)) = Elems(s) \ {h}
         /\ Len(s) # 0 /\ s[1] = h
         /\ Len(Tail(s)) # 0 => Tail(s)[Len(Tail(s))] = s[Len(s)]
<1> DEFINE p == Tail(s)
<1>1. s \in Seq(TCB) /\ Len(s) \in Nat /\ Len(s) # 0 /\ h = s[1] /\ 1 \in 1..Len(s)
  BY DEF IsList
<1>2. p \in Seq(TCB) /\ Len(p) = Len(s) - 1 /\ Len(p) \in Nat
  BY <1>1
<1>3. \A i \in 1..Len(p) : p[i] = s[i + 1] /\ i + 1 \in 1..Len(s)
  BY <1>1
<1> HIDE DEF p
<1>4. \A i, j \in 1..Len(p) : p[i] = p[j] => i = j
  <2> SUFFICES ASSUME NEW i \in 1..Len(p), NEW j \in 1..Len(p), p[i] = p[j] PROVE i = j
    OBVIOUS
  <2>1. i + 1 = j + 1
    BY <1>3 DEF IsList
  <2> QED
    BY <2>1
<1>5. \A i \in 1..Len(p) : nx[p[i]] = IF i = Len(p) THEN NULL ELSE p[i + 1]
  <2> SUFFICES ASSUME NEW i \in 1..Len(p)
               PROVE  nx[p[i]] = IF i = Len(p) THEN NULL ELSE p[i + 1]
    OBVIOUS
  <2>1. nx[p[i]] = IF i + 1 = Len(s) THEN NULL ELSE s[(i + 1) + 1]
    BY <1>3 DEF IsList
  <2>2. i + 1 = Len(s) <=> i = Len(p)
    BY <1>1, <1>2
  <2>3. i # Len(p) => i + 1 \in 1..Len(p)
    BY <1>2
  <2>4. i # Len(p) => p[i + 1] = s[(i + 1) + 1]
    BY <1>3, <2>3
  <2> QED
    BY <2>1, <2>2, <2>4
<1>6. nx[h] = IF Len(p) = 0 THEN NULL ELSE p[1]
  <2>1. nx[h] = IF 1 = Len(s) THEN NULL ELSE s[1 + 1]
    BY <1>1 DEF IsList
  <2>2. Len(p) # 0 => 1 \in 1..Len(p) /\ 1 # Len(s)
    BY <1>1, <1>2
  <2>3. Len(p) = 0 => 1 = Len(s)
    BY <1>1, <1>2
  <2> QED
    BY <1>3, <2>1, <2>2, <2>3
<1>7. Elems(p) = Elems(s) \ {h}
  <2>1. ASSUME NEW u \in Elems(p) PROVE u \in Elems(s) /\ u # h
    <3>1. PICK i \in 1..Len(p) : u = p[i]
      BY DEF Elems
    <3>2. i + 1 \in 1..Len(s) /\ u = s[i + 1] /\ i + 1 # 1
      BY <1>3, <3>1
    <3> QED
      BY <1>1, <3>2 DEF Elems, IsList
  <2>2. ASSUME NEW u \in Elems(s), u # h PROVE u \in Elems(p)
    <3>1. PICK i \in 1..Len(s) : u = s[i]
      BY DEF Elems
    <3>2. i - 1 \in 1..Len(p) /\ (i - 1) + 1 = i
      BY <1>1, <1>2, <2>2, <3>1
    <3>3. p[i - 1] = u
      BY <1>3, <3>1, <3>2
    <3> QED
      BY <3>2, <3>3 DEF Elems
  <2> QED
    BY <2>1, <2>2
<1>8. Len(p) # 0 => p[Len(p)] = s[Len(s)]
  <2>1. Len(p) # 0 => Len(p) \in 1..Len(p) /\ Len(p) + 1 = Len(s)
    BY <1>1, <1>2
  <2> QED
    BY <1>3, <2>1
<1>9. h \in Elems(s)
  BY <1>1 DEF Elems
<1> QED
  BY <1>1, <1>2, <1>4, <1>5, <1>6, <1>7, <1>8, <1>9 DEF p, IsList

\* A list without its i-th element.
Without(s, i) == [k \in 1..(Len(s) - 1) |-> IF k < i THEN s[k] ELSE s[k + 1]]

\* Taking the i-th element out, as internal_update_awoken_taskes does it.
LEMMA ListRemove ==
  ASSUME NEW h, NEW s, NEW nx, NEW nx2, IsList(h, s, nx), NEW i \in 1..Len(s),
         \A u \in Elems(s) : u # s[i] /\ ~(i # 1 /\ u = s[i - 1]) => nx2[u] = nx[u],
         i # 1 => nx2[s[i - 1]] = nx[s[i]]
  PROVE  /\ IsList(IF i = 1 THEN nx[s[i]] ELSE h, Without(s, i), nx2)
         /\ Elems(Without(s, i)) = Elems(s) \ {s[i]}
         /\ Len(Without(s, i)) = Len(s) - 1
         /\ Nth(Without(s, i), i) = Nth(s, i + 1)
         /\ Nth(Without(s, i), i - 1) = Nth(s, i - 1)
<1> DEFINE p == Without(s, i)
<1>1. s \in Seq(TCB) /\ Len(s) \in Nat /\ Len(s) # 0 /\ h = s[1] /\ i \in Nat
  BY DEF IsList
<1>2. /\ \A k \in 1..Len(s) : s[k] \in TCB /\ s[k] \in Elems(s)
      /\ \A k, m \in 1..Len(s) : s[k] = s[m] => k = m
      /\ \A k \in 1..Len(s) : nx[s[k]] = IF k = Len(s) THEN NULL ELSE s[k + 1]
  BY <1>1 DEF IsList, Elems
<1>3. \A k \in 1..(Len(s) - 1) : k \in 1..Len(s) /\ k + 1 \in 1..Len(s) /\ p[k] \in TCB
  BY <1>1, <1>2 DEF Without
<1>4. p \in Seq(TCB) /\ Len(p) = Len(s) - 1 /\ Len(p) \in Nat
  BY <1>1, <1>3 DEF Without
<1>5. \A k \in 1..Len(p) : p[k] = IF k < i THEN s[k] ELSE s[k + 1]
  BY <1>4 DEF Without
<1> HIDE DEF p
<1>6. \A k, m \in 1..Len(p) : p[k] = p[m] => k = m
  <2> SUFFICES ASSUME NEW k \in 1..Len(p), NEW m \in 1..Len(p), p[k] = p[m] PROVE k = m
    OBVIOUS
  <2> DEFINE a == IF k < i THEN k ELSE k + 1
             b == IF m < i THEN m ELSE m + 1
  <2>0. /\ a \in 1..Len(s) /\ p[k] = s[a]
        /\ b \in 1..Len(s) /\ p[m] = s[b]
    BY <1>3, <1>4, <1>5
  <2>1. a = b
    <3> HIDE DEF a, b
    <3>1. a \in 1..Len(s) /\ b \in 1..Len(s) /\ s[a] = s[b]
      BY <2>0
    <3>2. \A c, d \in 1..Len(s) : s[c] = s[d] => c = d
      BY <1>2
    <3> QED
      BY <3>1, <3>2
  <2> QED
    BY <1>1, <2>1
<1>7. \A k \in 1..Len(p) : nx2[p[k]] = IF k = Len(p) THEN NULL ELSE p[k + 1]
  <2> SUFFICES ASSUME NEW k \in 1..Len(p)
               PROVE  nx2[p[k]] = IF k = Len(p) THEN NULL ELSE p[k + 1]
    OBVIOUS
  <2>0. k \in 1..Len(s) /\ k + 1 \in 1..Len(s) /\ k \in Nat
    BY <1>3, <1>4
  <2>1. CASE k >= i
    <3>1. p[k] = s[k + 1] /\ s[k + 1] # s[i] /\ s[k + 1] \in Elems(s)
      BY <1>1, <1>2, <1>5, <2>0, <2>1
    <3>2. ~(i # 1 /\ s[k + 1] = s[i - 1])
      <4>1. i # 1 => i - 1 \in 1..Len(s) /\ i - 1 # k + 1
        BY <1>1, <2>0, <2>1
      <4> QED
        BY <1>2, <2>0, <4>1
    <3>3. nx2[p[k]] = IF k + 1 = Len(s) THEN NULL ELSE s[(k + 1) + 1]
      BY <1>2, <2>0, <3>1, <3>2
    <3>4. k + 1 = Len(s) <=> k = Len(p)
      BY <1>1, <1>4
    <3>5. k # Len(p) => p[k + 1] = s[(k + 1) + 1]
      <4>1. k # Len(p) => k + 1 \in 1..Len(p) /\ ~(k + 1 < i)
        BY <1>1, <1>4, <2>1
      <4> QED
        BY <1>5, <4>1
    <3> QED
      BY <3>3, <3>4, <3>5
  <2>2. CASE k = i - 1
    <3>1. p[k] = s[i - 1] /\ i # 1 /\ k + 1 = i
      BY <1>1, <1>5, <2>0, <2>2
    <3>2. nx2[p[k]] = IF i = Len(s) THEN NULL ELSE s[i + 1]
      BY <1>2, <3>1
    <3>3. i = Len(s) <=> k = Len(p)
      BY <1>1, <1>4, <3>1
    <3>4. k # Len(p) => p[k + 1] = s[i + 1]
      <4>1. k # Len(p) => k + 1 \in 1..Len(p) /\ ~(k + 1 < i)
        BY <1>1, <1>4, <2>0, <3>1
      <4> QED
        BY <1>5, <3>1, <4>1
    <3> QED
      BY <3>2, <3>3, <3>4
  <2>3. CASE k < i - 1
    <3>1. p[k] = s[k] /\ s[k] # s[i] /\ s[k] \in Elems(s)
      BY <1>1, <1>2, <1>5, <2>0, <2>3
    <3>2. ~(i # 1 /\ s[k] = s[i - 1])
      <4>1. i # 1 => i - 1 \in 1..Len(s) /\ i - 1 # k
        BY <1>1, <2>0, <2>3
      <4> QED
        BY <1>2, <2>0, <4>1
    <3>3. k # Len(p) /\ k # Len(s) /\ k + 1 \in 1..Len(p) /\ k + 1 < i
      BY <1>1, <1>4, <2>0, <2>3
    <3>4. nx2[p[k]] = s[k + 1]
      BY <1>2, <2>0, <3>1, <3>2, <3>3
    <3> QED
      BY <1>5, <3>3, <3>4
  <2> QED
    BY <1>1, <2>0, <2>1, <2>2, <2>3
<1>8. Elems(p) = Elems(s) \ {s[i]}
  <2>1. ASSUME NEW u \in Elems(p) PROVE u \in Elems(s) /\ u # s[i]
    <3>1. PICK k \in 1..Len(p) : u = p[k]
      BY DEF Elems
    <3>2. (k < i => u = s[k] /\ k # i) /\ (~(k < i) => u = s[k + 1] /\ k + 1 # i)
      BY <1>1, <1>5, <3>1
    <3>3. k \in 1..Len(s) /\ k + 1 \in 1..Len(s)
      BY <1>3, <1>4
    <3> QED
      BY <1>2, <3>2, <3>3
  <2>2. ASSUME NEW u \in Elems(s), u # s[i] PROVE u \in Elems(p)
    <3>1. PICK k \in 1..Len(s) : u = s[k]
      BY DEF Elems
    <3>2. k # i
      BY <2>2, <3>1
    <3>3. CASE k < i
      <4>1. k \in 1..Len(p) /\ p[k] = u
        BY <1>1, <1>4, <1>5, <3>1, <3>3
      <4> QED
        BY <4>1 DEF Elems
    <3>4. CASE k > i
      <4>1. k - 1 \in 1..Len(p) /\ ~(k - 1 < i) /\ (k - 1) + 1 = k
        BY <1>1, <1>4, <3>4
      <4>2. p[k - 1] = u
        BY <1>5, <3>1, <4>1
      <4> QED
        BY <4>1, <4>2 DEF Elems
    <3> QED
      BY <1>1, <3>2, <3>3, <3>4
  <2> QED
    BY <2>1, <2>2
<1>9. Nth(p, i) = nx[s[i]]
  <2>1. i \in 1..Len(p) <=> i # Len(s)
    BY <1>1, <1>4
  <2> QED
    BY <1>1, <1>2, <1>5, <2>1 DEF Nth
<1>9a. Nth(s, i + 1) = nx[s[i]]
  <2>1. i + 1 \in 1..Len(s) <=> i # Len(s)
    BY <1>1
  <2> QED
    BY <1>2, <2>1 DEF Nth
<1>10. Nth(p, i - 1) = Nth(s, i - 1)
  <2>1. i - 1 \in 1..Len(p) <=> i - 1 \in 1..Len(s)
    BY <1>1, <1>4
  <2>2. i - 1 < i
    BY <1>1
  <2> QED
    BY <1>5, <2>1, <2>2 DEF Nth
<1>11. (IF i = 1 THEN nx[s[i]] ELSE h) = IF Len(p) = 0 THEN NULL ELSE p[1]
  <2>1. CASE i = 1
    <3>1. Nth(p, 1) = nx[s[i]]
      BY <1>9, <2>1
    <3>2. Len(p) = 0 <=> 1 \notin 1..Len(p)
      BY <1>4
    <3> QED
      BY <2>1, <3>1, <3>2 DEF Nth
  <2>2. CASE i # 1
    <3>1. 1 \in 1..Len(p) /\ 1 < i /\ Len(p) # 0
      BY <1>1, <1>4, <2>2
    <3> QED
      BY <1>1, <1>5, <2>2, <3>1
  <2> QED
    BY <2>1, <2>2
<1>12. IsList(IF i = 1 THEN nx[s[i]] ELSE h, p, nx2)
  BY <1>4, <1>6, <1>7, <1>11 DEF IsList
<1> QED
  BY <1>4, <1>8, <1>9, <1>9a, <1>10, <1>12 DEF p

(***************************************************************************)
(* Following the pointers                                                  *)
(***************************************************************************)
\* Follow and Chain over any pointers.
FollowIn(h, nx) ==
    LET link == [p \in Ptr |-> IF p = NULL THEN NULL ELSE nx[p]]
        at[k \in 0..Cardinality(TCB)] == IF k = 0 THEN h ELSE link[at[k - 1]]
    IN  at

\* A list is not longer than there are blocks.
LEMMA ListLength ==
  ASSUME NEW h, NEW s, NEW nx, IsList(h, s, nx)
  PROVE  Len(s) \in Nat /\ Cardinality(TCB) \in Nat /\ Len(s) <= Cardinality(TCB)
<1>1. s \in Seq(TCB) /\ Len(s) \in Nat
  BY DEF IsList
<1>2. s \in Injection(1..Len(s), TCB)
  BY <1>1 DEF IsList, Injection, IsInjective
<1>3. Cardinality(1..Len(s)) = Len(s)
  <2> DEFINE len == Len(s)
  <2>1. len \in Nat
    BY <1>1
  <2> HIDE DEF len
  <2>2. len \in Int /\ 1 \in Int
    BY <2>1
  <2>3. Cardinality(1..len) = IF 1 > len THEN 0 ELSE len - 1 + 1
    BY <2>2, FS_Interval
  <2>4. Cardinality(1..len) = len
    BY <2>1, <2>3
  <2> QED
    BY <2>4 DEF len
<1> QED
  BY <1>1, <1>2, <1>3, FS_Injection, FS_CardinalityType, TCBAssumption

\* What Follow meets on a list.
LEMMA FollowList ==
  ASSUME NEW h, NEW s, NEW nx, IsList(h, s, nx)
  PROVE  FollowIn(h, nx) = [k \in 0..Cardinality(TCB) |-> Nth(s, k + 1)]
<1> DEFINE N == Cardinality(TCB)
           F == [k \in 0..N |-> Nth(s, k + 1)]
           link == [p \in Ptr |-> IF p = NULL THEN NULL ELSE nx[p]]
           Step(g) == [k \in 0..N |-> IF k = 0 THEN h ELSE link[g[k - 1]]]
<1>1. s \in Seq(TCB) /\ Len(s) \in Nat /\ N \in Nat
  BY ListLength DEF IsList
<1> HIDE DEF N
<1>2. Nth(s, 1) = h
  <2>1. 1 \in 1..Len(s) <=> Len(s) # 0
    BY <1>1
  <2> QED
    BY <2>1 DEF IsList, Nth
<1>3. ASSUME NEW k \in 1..N
      PROVE  Nth(s, k + 1) = link[Nth(s, k)]
  <2>1. CASE k \in 1..Len(s)
    <3>1. Nth(s, k) = s[k] /\ s[k] # NULL /\ s[k] \in Ptr
      BY <1>1, <2>1, TCBAssumption DEF Nth, Ptr
    <3>2. nx[s[k]] = IF k = Len(s) THEN NULL ELSE s[k + 1]
      BY <2>1 DEF IsList
    <3>3. k + 1 \in 1..Len(s) <=> k # Len(s)
      BY <1>1, <2>1
    <3> QED
      BY <3>1, <3>2, <3>3 DEF Nth
  <2>2. CASE k \notin 1..Len(s)
    <3>1. k + 1 \notin 1..Len(s) /\ NULL \in Ptr
      BY <1>1, <2>2 DEF Ptr
    <3> QED
      BY <2>2, <3>1 DEF Nth
  <2> QED
    BY <2>1, <2>2
<1> HIDE DEF link
<1>4. F = Step(F)
  <2>1. ASSUME NEW k \in 0..N, k # 0
        PROVE  k \in 1..N /\ F[k - 1] = Nth(s, k)
    BY <1>1, <2>1
  <2>2. ASSUME NEW k \in 0..N
        PROVE  F[k] = IF k = 0 THEN h ELSE link[F[k - 1]]
    <3>1. F[k] = Nth(s, k + 1)
      OBVIOUS
    <3>2. k = 0 => Nth(s, k + 1) = h
      BY <1>2
    <3> HIDE DEF F
    <3> QED
      BY <1>3, <2>1, <3>1, <3>2
  <2>3. F = [k \in 0..N |-> F[k]]
    OBVIOUS
  <2> HIDE DEF F
  <2> QED
    BY <2>2, <2>3
<1>5. ASSUME NEW g, g = Step(g) PROVE g = F
  <2>0. \A k \in 0..N : g[k] = IF k = 0 THEN h ELSE link[g[k - 1]]
    BY <1>5
  <2>00. \A k \in 0..N : F[k] = IF k = 0 THEN h ELSE link[F[k - 1]]
    <3> HIDE DEF F
    <3> QED
      BY <1>4
  <2>1. g = [k \in 0..N |-> g[k]] /\ F = [k \in 0..N |-> F[k]]
    <3>1. \A q : [k \in 0..N |-> q[k]] = [k \in 0..N |-> [m \in 0..N |-> q[m]][k]]
      OBVIOUS
    <3> QED
      BY <1>5
  <2> HIDE DEF F, Step
  <2> DEFINE Bad == {k \in 0..N : g[k] # F[k]}
  <2>2. CASE Bad = {}
    <3>1. \A k \in 0..N : g[k] = F[k]
      BY <2>2
    <3> QED
      BY <2>1, <3>1
  <2>3. CASE Bad # {}
    <3>1. PICK k \in Bad : \A j \in Bad : k <= j
      <4>1. Bad \subseteq Nat
        BY <1>1
      <4> HIDE DEF Bad
      <4> QED
        BY <2>3, <4>1, Least
    <3>2. k \in 0..N /\ g[k] # F[k]
      OBVIOUS
    <3>3. k # 0
      BY <2>0, <2>00, <3>2
    <3>4. k - 1 \in 0..N /\ k - 1 \notin Bad
      BY <1>1, <3>1, <3>2, <3>3
    <3>5. g[k - 1] = F[k - 1]
      BY <3>4
    <3> QED
      BY <2>0, <2>00, <3>2, <3>3, <3>5
  <2> QED
    BY <2>2, <2>3
<1>6. FollowIn(h, nx) = CHOOSE g : g = Step(g)
  BY DEF FollowIn, N, link
<1> HIDE DEF F, Step
<1>7. FollowIn(h, nx) = Step(FollowIn(h, nx))
  BY <1>4, <1>6
<1> QED
  BY <1>5, <1>7 DEF F, N

\* Chain over any pointers.
ChainIn(h, nx) ==
    LET at == FollowIn(h, nx)
        len == Cardinality({k \in 0..(Cardinality(TCB) - 1) : at[k] # NULL})
    IN  [k \in 1..len |-> at[k - 1]]

\* Chain gives a list's elements back, and Follow ends.
LEMMA ChainList ==
  ASSUME NEW h, NEW s, NEW nx, IsList(h, s, nx)
  PROVE  ChainIn(h, nx) = s /\ FollowIn(h, nx)[Cardinality(TCB)] = NULL
<1> DEFINE N == Cardinality(TCB)
           at == FollowIn(h, nx)
           S == {k \in 0..(N - 1) : at[k] # NULL}
<1>1. s \in Seq(TCB) /\ Len(s) \in Nat /\ N \in Nat /\ Len(s) <= N
  BY ListLength DEF IsList
<1>2. at = [k \in 0..N |-> Nth(s, k + 1)]
  BY FollowList
<1> HIDE DEF N, at
<1>3. \A k \in 1..Len(s) : s[k] # NULL
  BY <1>1, TCBAssumption
<1>4. S = 0..(Len(s) - 1)
  <2>1. ASSUME NEW k \in 0..(N - 1) PROVE at[k] # NULL <=> k \in 0..(Len(s) - 1)
    <3>1. at[k] = Nth(s, k + 1)
      BY <1>1, <1>2
    <3>2. k + 1 \in 1..Len(s) <=> k \in 0..(Len(s) - 1)
      BY <1>1
    <3> QED
      BY <1>3, <3>1, <3>2 DEF Nth
  <2>2. \A k : k \in 0..(Len(s) - 1) => k \in 0..(N - 1)
    BY <1>1
  <2>3. \A k : k \in S <=> k \in 0..(N - 1) /\ at[k] # NULL
    OBVIOUS
  <2> HIDE DEF S
  <2>4. \A k : k \in S <=> k \in 0..(Len(s) - 1)
    BY <2>1, <2>2, <2>3, Zenon
  <2> QED
    BY <2>4
<1>5. Cardinality(S) = Len(s)
  <2>1. Len(s) - 1 \in Int /\ 0 \in Int
    BY <1>1
  <2>2. Cardinality(0..(Len(s) - 1)) = IF 0 > Len(s) - 1 THEN 0 ELSE Len(s) - 1 - 0 + 1
    BY <2>1, FS_Interval
  <2>3. (IF 0 > Len(s) - 1 THEN 0 ELSE Len(s) - 1 - 0 + 1) = Len(s)
    BY <1>1
  <2> QED
    BY <1>4, <2>2, <2>3, Zenon
<1>6. ChainIn(h, nx) = [k \in 1..Len(s) |-> at[k - 1]]
  BY <1>5 DEF ChainIn, N, at
<1>7. \A k \in 1..Len(s) : at[k - 1] = s[k]
  <2> SUFFICES ASSUME NEW k \in 1..Len(s) PROVE at[k - 1] = s[k]
    OBVIOUS
  <2>1. k - 1 \in 0..N /\ (k - 1) + 1 = k
    BY <1>1
  <2> QED
    BY <1>2, <2>1 DEF Nth
<1>8. s = [k \in 1..Len(s) |-> s[k]]
  BY <1>1
<1>9. at[N] = NULL
  <2>1. N \in 0..N /\ N + 1 \notin 1..Len(s)
    BY <1>1
  <2> QED
    BY <1>2, <2>1 DEF Nth
<1> QED
  BY <1>6, <1>7, <1>8, <1>9 DEF at, N

(***************************************************************************)
(* Steps that move no task from one place to another                       *)
(***************************************************************************)
\* Only the running task's own fields change, and it stays on the lists it is on.
Quiet ==
    /\ UNCHANGED <<current_task_PCB, first_ready_to_run_task, last_ready_to_run_task,
                   sleeping_taskes, dead_tasks, target_wakeup_time, next_task>>
    /\ \A t \in TCB : t # current_task_PCB =>
          /\ pc'[t] = pc[t] /\ after'[t] = after[t] /\ arg'[t] = arg[t]
          /\ state'[t] = state[t] /\ next'[t] = next[t]
    /\ ticks_since_boot' \in Nat /\ ticks_since_boot' >= ticks_since_boot
    /\ (Dozing' <=> Dozing) /\ (Dying' <=> Dying) /\ (Linked' <=> Linked) /\ (Popped' <=> Popped)
    /\ pc[current_task_PCB] = "drain" => pc'[current_task_PCB] = "drain"
    /\ arg'[current_task_PCB] = arg[current_task_PCB] \/ ~Dozing
    /\ next'[current_task_PCB] = next[current_task_PCB] \/ (~Dozing /\ ~Dying /\ ~Linked)

\* The lists stay as they are.
LEMMA QuietLists ==
  ASSUME NEW rq, NEW sq, NEW dq, Lists(rq, sq, dq), Places(rq, sq, dq), Quiet, Cursor(sq)'
  PROVE  Lists(rq, sq, dq)'
<1>1. /\ IsList(first_ready_to_run_task, rq, next)
      /\ IsList(sleeping_taskes, sq, next) /\ IsList(dead_tasks, dq, next)
  BY DEF Lists
<1>2. Elems(rq) \subseteq TCB /\ Elems(sq) \subseteq TCB /\ Elems(dq) \subseteq TCB
  BY <1>1, ListMembers
<1>3. \A t \in Elems(rq) \cup Elems(sq) \cup Elems(dq) : next'[t] = next[t]
  BY <1>2 DEF Quiet, Places
<1>4. /\ IsList(first_ready_to_run_task, rq, next')
      /\ IsList(sleeping_taskes, sq, next') /\ IsList(dead_tasks, dq, next')
  BY <1>1, <1>3, ListSame
<1>5. /\ IsList(first_ready_to_run_task, rq, next)'
      /\ IsList(sleeping_taskes, sq, next)' /\ IsList(dead_tasks, dq, next)'
  BY <1>4 DEF Quiet, IsList
<1> QED
  BY <1>5 DEF Lists, Quiet, Elems

\* A step without effect on other tasks keeps what waits for the CPU waiting.
LEMMA QuietWaits ==
  ASSUME ControlTypes, DataTypes, Quiet, NEW t \in TCB, t # current_task_PCB, Waits(t)
  PROVE  Waits(t)'
<1>1. /\ pc'[t] = pc[t] /\ after'[t] = after[t] /\ arg'[t] = arg[t] /\ state'[t] = state[t]
      /\ ticks_since_boot' \in Nat /\ ticks_since_boot' >= ticks_since_boot
  BY DEF Quiet
<1>2. Due(t) => Due(t)'
  <2>1. ticks_since_boot \in Nat /\ arg[t] \in Nat /\ Wrap \in Nat \ {0}
    BY ClockAssumption DEF DataTypes
  <2>2. arg[t] % Wrap \in Nat
    BY <2>1
  <2>3. arg[t] % Wrap <= ticks_since_boot => arg[t] % Wrap <= ticks_since_boot'
    BY <1>1, <2>1, <2>2
  <2> QED
    BY <1>1, <2>3 DEF Due
<1> QED
  BY <1>1, <1>2 DEF Waits

\* The places stay as they are.
LEMMA QuietPlaces ==
  ASSUME ControlTypes, DataTypes, NEW rq, NEW sq, NEW dq, Lists(rq, sq, dq), Places(rq, sq, dq), Quiet
  PROVE  Places(rq, sq, dq)'
<1>1. /\ IsList(first_ready_to_run_task, rq, next)
      /\ IsList(sleeping_taskes, sq, next) /\ IsList(dead_tasks, dq, next)
  BY DEF Lists
<1>2. Elems(rq) \subseteq TCB /\ Elems(sq) \subseteq TCB /\ Elems(dq) \subseteq TCB
  BY <1>1, ListMembers
<1>3. /\ UNCHANGED <<current_task_PCB, next_task, target_wakeup_time>>
      /\ (Dozing' <=> Dozing) /\ (Dying' <=> Dying) /\ (Linked' <=> Linked) /\ (Popped' <=> Popped)
      /\ \A t \in TCB : t # current_task_PCB =>
            pc'[t] = pc[t] /\ arg'[t] = arg[t] /\ state'[t] = state[t]
      /\ arg'[current_task_PCB] = arg[current_task_PCB] \/ ~Dozing
  BY DEF Quiet
<1>4. \A t \in TCB : t # current_task_PCB /\ Waits(t) => Waits(t)'
  BY QuietWaits
<1>5. \A t \in Elems(rq) : t # current_task_PCB => Waits(t)'
  BY <1>2, <1>4 DEF Places
<1>6. \A t \in Elems(sq) : /\ target_wakeup_time'[t] = arg'[t] % Wrap
                           /\ t # current_task_PCB => state'[t] = TASK_STATE_SLEEPING /\ pc'[t] = "slept"
  BY <1>2, <1>3 DEF Places
<1>7. \A t \in Elems(dq) : t # current_task_PCB =>
          state'[t] \in {TASK_STATE_DEAD, TASK_STATE_TERMINATED} /\ pc'[t] = "abort"
  BY <1>2, <1>3 DEF Places
<1>8. Popped => /\ next_task \in TCB /\ next_task # current_task_PCB /\ Waits(next_task)'
                /\ next_task \notin Elems(rq) \cup Elems(sq) \cup Elems(dq)
  <2> SUFFICES ASSUME Popped PROVE Waits(next_task)'
    BY DEF Places
  <2>1. PICK u \in TCB : u = next_task
    BY DEF Places
  <2>2. u # current_task_PCB /\ Waits(u)
    BY <2>1 DEF Places, Waits, Due
  <2>3. Waits(u)' /\ next_task' = u
    BY <1>3, <1>4, <2>1, <2>2
  <2> QED
    BY <2>3 DEF Waits, Due
<1>9. \A t \in TCB : \/ pc'[t] = "free" \/ t = current_task_PCB \/ (Popped /\ t = next_task)
                     \/ t \in Elems(rq) \cup Elems(sq) \cup Elems(dq)
  BY <1>3 DEF Places
<1>10. /\ current_task_PCB \in Elems(sq) <=> Dozing
       /\ current_task_PCB \in Elems(dq) <=> Dying
       /\ current_task_PCB \in Elems(rq) <=> Linked
       /\ Linked => rq[Len(rq)] = current_task_PCB
  BY DEF Places
<1> QED
  BY <1>3, <1>5, <1>6, <1>7, <1>8, <1>9, <1>10 DEF Places, Elems

\* The running task goes from one place to another and keeps what it is about.
Hop(l) ==
    /\ UNCHANGED <<current_task_PCB, lists, state, target_wakeup_time, next_task,
                   ticks_since_boot, timer>>
    /\ pc' = [pc EXCEPT ![current_task_PCB] = l]
    /\ \A t \in TCB : t # current_task_PCB => after'[t] = after[t] /\ arg'[t] = arg[t]
    /\ \A t \in TCB : arg'[t] <= MaxTicks

\* What a hop leaves to show: that the task is as much on a list as before.
LEMMA HopQuiet ==
  ASSUME ControlTypes, DataTypes, NEW l, Hop(l),
         Dozing' <=> Dozing, Dying' <=> Dying, Linked' <=> Linked, Popped' <=> Popped,
         pc[current_task_PCB] # "drain",
         arg'[current_task_PCB] = arg[current_task_PCB] \/ ~Dozing
  PROVE  Quiet
<1>1. ticks_since_boot' \in Nat /\ ticks_since_boot' >= ticks_since_boot
  <2>1. ticks_since_boot \in Nat
    BY DEF DataTypes
  <2>2. ticks_since_boot' = ticks_since_boot
    BY DEF Hop
  <2> QED
    BY <2>1, <2>2
<1>2. next' = next /\ state' = state
  BY DEF Hop, lists
<1>3. \A t \in TCB : t # current_task_PCB => pc'[t] = pc[t]
  BY DEF Hop, ControlTypes
<1> QED
  BY <1>1, <1>2, <1>3 DEF Hop, Quiet, lists

\* The unlocks.
LEMMA UnlockQuiet ==
  ASSUME IInv, Runs, unlock_scheduler \/ unlock_tail
  PROVE  Quiet /\ Runs' /\ UNCHANGED timer
<1>1. ControlTypes /\ DataTypes /\ Control /\ current_task_PCB \in TCB
  BY DEF IInv, ControlTypes
<1>2. CASE unlock_scheduler
  <2>1. /\ pc[current_task_PCB] = "unlock" /\ irq = "none"
        /\ UNCHANGED <<current_task_PCB, lists, fields, ticks_since_boot, timer, after, arg, next_task>>
        /\ \/ /\ task_switches_postponed_flag # 0 /\ task_switches_postponed_flag' = 0
              /\ ret' = [ret EXCEPT ![current_task_PCB] = "unlock_tail"]
              /\ pc' = [pc EXCEPT ![current_task_PCB] = "schedule"]
           \/ /\ task_switches_postponed_flag' = task_switches_postponed_flag
              /\ ret' = ret
              /\ pc' = [pc EXCEPT ![current_task_PCB] = "unlock_tail"]
    BY <1>2 DEF unlock_scheduler, Running, CallSchedule, Goto, clock, locals
  <2>2. PICK l \in {"schedule", "unlock_tail"} : Hop(l)
    <3>1. \A t \in TCB : arg[t] <= MaxTicks
      BY DEF Runs
    <3> QED
      BY <2>1, <3>1 DEF Hop, fields
  <2>3. pc'[current_task_PCB] = l /\ current_task_PCB' = current_task_PCB
        /\ after' = after /\ next' = next /\ state' = state /\ arg' = arg
        /\ ticks_since_boot' = ticks_since_boot
    BY <1>1, <2>1, <2>2 DEF Hop, ControlTypes, lists, fields
  <2>4. \/ /\ l = "schedule" /\ ret'[current_task_PCB] = "unlock_tail"
           /\ after[current_task_PCB] \in YieldAfter /\ task_switches_postponed_flag' = 0
        \/ /\ l = "unlock_tail" /\ ret'[current_task_PCB] = ret[current_task_PCB]
           /\ task_switches_postponed_flag' # 0 => after[current_task_PCB] \in YieldAfter
    BY <1>1, <2>1, <2>3 DEF ControlTypes, Runs
  <2>5. (Dozing' <=> Dozing) /\ (Dying' <=> Dying) /\ (Linked' <=> Linked) /\ (Popped' <=> Popped)
    BY <2>1, <2>3, <2>4 DEF Dozing, Dying, Linked, Popped, Region, InSchedule, ScheduleBody, YieldAfter
  <2>6. Quiet
    BY <1>1, <2>1, <2>2, <2>3, <2>5, HopQuiet
  <2>7. Runs'
    BY <2>1, <2>3, <2>4 DEF Runs, RunState, Dozing, Dying, Region, InSchedule, ScheduleBody, YieldAfter, Due
  <2> QED
    BY <2>1, <2>6, <2>7
<1>3. CASE unlock_tail
  <2>1. /\ pc[current_task_PCB] = "unlock_tail" /\ irq = "none"
        /\ UNCHANGED <<current_task_PCB, lists, fields, ticks_since_boot, timer, ret, after, arg,
                       next_task, task_switches_postponed_flag>>
        /\ pc' = [pc EXCEPT ![current_task_PCB] = after[current_task_PCB]]
    BY <1>3 DEF unlock_tail, Running, Goto, clock, locals
  <2>2. Hop(after[current_task_PCB])
    <3>1. \A t \in TCB : arg[t] <= MaxTicks
      BY DEF Runs
    <3> QED
      BY <2>1, <3>1 DEF Hop, fields
  <2>3. /\ pc'[current_task_PCB] = after[current_task_PCB] /\ current_task_PCB' = current_task_PCB
        /\ after' = after /\ ret' = ret /\ next' = next /\ state' = state /\ arg' = arg
        /\ ticks_since_boot' = ticks_since_boot
        /\ task_switches_postponed_flag' = task_switches_postponed_flag
    BY <1>1, <2>1 DEF ControlTypes, lists, fields
  <2>4. after[current_task_PCB] \in YieldAfter \cup TaskAfter
    BY <1>1 DEF Control, MainControl, TaskControl, YieldAfter, MainAfter
  <2>5. (Dozing' <=> Dozing) /\ (Dying' <=> Dying) /\ (Linked' <=> Linked) /\ (Popped' <=> Popped)
    BY <2>1, <2>3, <2>4 DEF Dozing, Dying, Linked, Popped, Region, InSchedule, ScheduleBody,
         YieldAfter, TaskAfter
  <2>6. Quiet
    <3> HIDE DEF Quiet
    <3> QED
      BY <1>1, <2>1, <2>2, <2>3, <2>5, HopQuiet
  <2>7. Runs'
    BY <2>1, <2>3, <2>4 DEF Runs, RunState, Dozing, Dying, Region, InSchedule, ScheduleBody,
         YieldAfter, TaskAfter, Due
  <2> QED
    BY <2>1, <2>6, <2>7
<1> QED
  BY <1>2, <1>3

\* Moving between places outside the critical regions.
LEMMA CalmQuiet ==
  ASSUME IInv, Runs, NEW l, Hop(l), UNCHANGED task_switches_postponed_flag,
         pc[current_task_PCB] \notin Critical, l \notin Critical \cup {"free", "abort"},
         l = "yield" => after'[current_task_PCB] \in YieldAfter
  PROVE  Quiet /\ Runs'
<1>1. ControlTypes /\ DataTypes /\ Control /\ current_task_PCB \in TCB
  BY DEF IInv, ControlTypes
<1>2. /\ current_task_PCB' = current_task_PCB /\ pc'[current_task_PCB] = l
      /\ state' = state /\ \A t \in TCB : arg'[t] <= MaxTicks
  BY <1>1 DEF Hop, ControlTypes
<1>3. /\ pc[current_task_PCB] \notin InSchedule \cup {"unlock", "unlock_tail"}
      /\ l \notin InSchedule \cup {"unlock", "unlock_tail"}
  BY DEF Critical, InSchedule
<1>4. Region = pc[current_task_PCB] /\ Region' = l
  BY <1>2, <1>3 DEF Region
<1>5. pc[current_task_PCB] \notin {"free", "abort"} /\ state[current_task_PCB] \in RunState
  BY DEF Runs
<1>6. ~Dozing /\ ~Dozing' /\ ~Dying /\ ~Dying' /\ ~Linked /\ ~Linked' /\ ~Popped /\ ~Popped'
  BY <1>2, <1>4, <1>5 DEF Dozing, Dying, Linked, Popped, Critical, ScheduleBody
<1>7. Quiet
  BY <1>1, <1>6, HopQuiet DEF Critical, ScheduleBody
<1>8. task_switches_postponed_flag = 0
  BY <1>1 DEF Control, PostponeClean, Critical, ControlTypes
<1>9. RunState = {TASK_STATE_RUNNING} /\ RunState' = {TASK_STATE_RUNNING}
  BY <1>2, <1>6 DEF RunState, Critical, ScheduleBody
<1>10. Runs'
  BY <1>2, <1>3, <1>5, <1>8, <1>9 DEF Runs, Critical, InSchedule, ScheduleBody
<1> QED
  BY <1>7, <1>10

\* A step that changes nothing of this.
LEMMA SameQuiet ==
  ASSUME IInv, Runs,
         UNCHANGED <<current_task_PCB, lists, state, target_wakeup_time, next_task, ticks_since_boot,
                     pc, after, ret, arg, task_switches_postponed_flag>>
  PROVE  Quiet /\ Runs'
<1>1. ticks_since_boot' \in Nat /\ ticks_since_boot' >= ticks_since_boot
  <2>1. ticks_since_boot \in Nat
    BY DEF IInv, DataTypes
  <2>2. ticks_since_boot' = ticks_since_boot
    OBVIOUS
  <2> QED
    BY <2>1, <2>2
<1>2. (Dozing' <=> Dozing) /\ (Dying' <=> Dying) /\ (Linked' <=> Linked) /\ (Popped' <=> Popped)
  BY DEF Dozing, Dying, Linked, Popped, Region
<1>3. Quiet
  BY <1>1, <1>2 DEF Quiet, lists
<1>4. Runs'
  BY DEF Runs, RunState, Dozing, Dying, Region, Due, lists
<1> QED
  BY <1>3, <1>4

\* The steps of kernel_main outside its locked regions.
LEMMA MainQuiet ==
  ASSUME IInv, Runs,
         \/ test_all \/ created \/ first_yield \/ loop_head \/ loop_body \/ hlt
         \/ test_exit \/ app_exit
         \/ get_task_state \/ walk_ready \/ walk_sleeping \/ walk_dead
  PROVE  Quiet /\ Runs' /\ UNCHANGED timer
<1>1. ControlTypes /\ DataTypes /\ Control /\ current_task_PCB \in TCB
  BY DEF IInv, ControlTypes
<1>2. /\ UNCHANGED <<current_task_PCB, lists, state, target_wakeup_time, next_task,
                     ticks_since_boot, timer, arg, ret, task_switches_postponed_flag>>
      /\ pc[current_task_PCB] \in MainLocation
  BY DEF test_all, created, first_yield, loop_head, loop_body, hlt, test_exit, app_exit,
         get_task_state, walk_ready, walk_sleeping, Walk, walk_dead, WalkFrame, MainFrame, Running,
         MainLocation, fields, clock, locals, locks, update_time_used
<1>3. current_task_PCB = Main
  BY <1>1, <1>2, WhoRuns
<1>4. Idle \/ \E l : CalmMove(l)
  BY <1>1, MainShape, WalkShape
<1>5. CASE Idle
  BY <1>2, <1>5, SameQuiet DEF Idle
<1>6. ASSUME NEW l, CalmMove(l) PROVE Quiet /\ Runs'
  <2>1. /\ pc[current_task_PCB] \notin Critical /\ l \notin Critical
        /\ pc' = [pc EXCEPT ![current_task_PCB] = l] /\ l \in MainPlace
    BY <1>3, <1>6 DEF CalmMove, Moves
  <2>2. l \notin Critical \cup {"free", "abort"}
    BY <2>1 DEF MainPlace, MainLocation, Kernel, ScheduleBody
  <2>3. after'[current_task_PCB] \in YieldAfter
    BY <1>1, <1>3, <1>6, AfterStep DEF Control, CalmMove, MainAfter, YieldAfter
  <2>4. \A t \in TCB : t # current_task_PCB => after'[t] = after[t]
    BY <1>1, <1>6 DEF CalmMove, KeepsOrSetsAfter, ControlTypes
  <2>5. \A t \in TCB : arg'[t] <= MaxTicks
    BY <1>2 DEF Runs
  <2>6. Hop(l)
    BY <1>2, <2>1, <2>4, <2>5 DEF Hop
  <2> QED
    BY <1>2, <2>1, <2>2, <2>3, <2>6, CalmQuiet
<1> QED
  BY <1>2, <1>4, <1>5, <1>6

\* The loops of the task functions, and task_start_up.
LEMMA TaskQuiet ==
  ASSUME IInv, Runs, task_start_up \/ long_task \/ micro_sleep
  PROVE  Quiet /\ Runs' /\ UNCHANGED timer
<1>1. ControlTypes /\ DataTypes /\ Control /\ current_task_PCB \in TCB
  BY DEF IInv, ControlTypes
<1>2. /\ UNCHANGED <<current_task_PCB, lists, state, target_wakeup_time, next_task,
                     ticks_since_boot, timer, task_switches_postponed_flag>>
      /\ pc[current_task_PCB] \in {"start", "body"}
  BY DEF task_start_up, long_task, micro_sleep, TaskFrame, Running, fields, clock, locks
<1>3. PICK l \in {"body", "yield", "death", "micro_sleep_until"} :
          /\ pc' = [pc EXCEPT ![current_task_PCB] = l]
          /\ after' = after \/ after' = [after EXCEPT ![current_task_PCB] = "body"]
          /\ l = "yield" => after' = [after EXCEPT ![current_task_PCB] = "body"]
          /\ \/ arg' = arg
             \/ arg' = [arg EXCEPT ![current_task_PCB] =
                          Clock(ticks_since_boot + Delay(func[current_task_PCB]))]
  BY DEF task_start_up, long_task, micro_sleep, Goto, locals
<1>4. \A t \in TCB : arg'[t] <= MaxTicks
  <2>1. Clock(ticks_since_boot + Delay(func[current_task_PCB])) <= MaxTicks
    <3>1. ticks_since_boot \in Nat /\ MaxTicks \in Nat /\ SleepDelay \in Nat /\ SleepDelay1 \in Nat
      BY <1>1, ClockAssumption, ProgramAssumption DEF DataTypes
    <3>2. Delay(func[current_task_PCB]) \in Nat
      BY <3>1 DEF Delay
    <3> QED
      BY <3>1, <3>2 DEF Clock
  <2>2. arg \in [TCB -> Nat] /\ \A t \in TCB : arg[t] <= MaxTicks
    BY <1>1 DEF DataTypes, Runs
  <2>3. \A t \in TCB : arg'[t] = arg[t] \/ arg'[t] = Clock(ticks_since_boot + Delay(func[current_task_PCB]))
    BY <1>1, <1>3, <2>2
  <2> QED
    BY <2>1, <2>2, <2>3
<1>5. \A t \in TCB : t # current_task_PCB => after'[t] = after[t] /\ arg'[t] = arg[t]
  BY <1>1, <1>3 DEF ControlTypes, DataTypes
<1>6. Hop(l)
  BY <1>2, <1>3, <1>4, <1>5 DEF Hop
<1>7. l = "yield" => after'[current_task_PCB] \in YieldAfter
  BY <1>1, <1>3 DEF ControlTypes, YieldAfter
<1>8. pc[current_task_PCB] \notin Critical /\ l \notin Critical \cup {"free", "abort"}
  BY <1>2, <1>3 DEF Critical, ScheduleBody
<1>9. Quiet /\ Runs'
  BY <1>2, <1>6, <1>7, <1>8, CalmQuiet
<1> QED
  BY <1>2, <1>9

\* Taking the lock without touching a list.
LEMMA LockQuiet ==
  ASSUME IInv, Runs, yield \/ create_out_of_memory
  PROVE  Quiet /\ Runs' /\ UNCHANGED timer
<1>1. ControlTypes /\ DataTypes /\ Control /\ current_task_PCB \in TCB
  BY DEF IInv, ControlTypes
<1>2. /\ UNCHANGED <<current_task_PCB, lists, state, target_wakeup_time, next_task, arg,
                     ticks_since_boot, timer, task_switches_postponed_flag>>
      /\ pc[current_task_PCB] \in {"yield", "create"}
  BY DEF yield, create_out_of_memory, TaskFrame, MainFrame, LockUntil, Running, fields, clock, locals
<1>3. \/ /\ pc[current_task_PCB] = "yield" /\ pc' = [pc EXCEPT ![current_task_PCB] = "schedule"]
         /\ after' = after /\ ret' = [ret EXCEPT ![current_task_PCB] = "unlock"]
      \/ /\ pc' = [pc EXCEPT ![current_task_PCB] = "unlock"]
         /\ after' = [after EXCEPT ![current_task_PCB] = "created"]
  BY DEF yield, create_out_of_memory, CallSchedule, Goto, LockUntil, Running
<1>4. PICK l \in {"schedule", "unlock"} : pc' = [pc EXCEPT ![current_task_PCB] = l]
  BY <1>3
<1>5. /\ \A t \in TCB : t # current_task_PCB => after'[t] = after[t]
      /\ \A t \in TCB : arg'[t] <= MaxTicks
  BY <1>1, <1>2, <1>3 DEF ControlTypes, Runs
<1>6. Hop(l)
  BY <1>2, <1>4, <1>5 DEF Hop
<1>7. /\ current_task_PCB' = current_task_PCB /\ state' = state
      /\ \/ pc'[current_task_PCB] = "schedule" /\ ret'[current_task_PCB] = "unlock"
         \/ pc'[current_task_PCB] = "unlock"
      /\ after'[current_task_PCB] \in YieldAfter
  BY <1>1, <1>2, <1>3 DEF ControlTypes, Runs, YieldAfter
<1>8. Region \in {"yield", "create"} /\ Region' \in YieldAfter \cup {"unlock"}
  BY <1>2, <1>7 DEF Region, InSchedule, ScheduleBody
<1>9. ~Dozing /\ ~Dozing' /\ ~Dying /\ ~Dying' /\ ~Linked /\ ~Linked' /\ ~Popped /\ ~Popped'
  BY <1>2, <1>7, <1>8 DEF Dozing, Dying, Linked, Popped, YieldAfter, ScheduleBody
<1>10. Quiet
  BY <1>1, <1>2, <1>6, <1>9, HopQuiet
<1>11. RunState = {TASK_STATE_RUNNING} /\ RunState' = {TASK_STATE_RUNNING}
  BY <1>2, <1>7, <1>9 DEF RunState
<1>12. Runs'
  BY <1>5, <1>7, <1>11 DEF Runs, InSchedule, ScheduleBody
<1> QED
  BY <1>2, <1>10, <1>12

\* block_task changes the state of a task that is on its list already.
LEMMA BlockQuiet ==
  ASSUME IInv, Runs,
         \/ block_task("block_sleeping", TASK_STATE_SLEEPING, "blocked_sleeping")
         \/ block_task("block_terminated", TASK_STATE_TERMINATED, "blocked_for_good")
  PROVE  Quiet /\ Runs' /\ UNCHANGED timer
<1>1. ControlTypes /\ DataTypes /\ Control /\ current_task_PCB \in TCB
  BY DEF IInv, ControlTypes
<1>2. /\ UNCHANGED <<current_task_PCB, lists, target_wakeup_time, next_task, arg,
                     ticks_since_boot, timer, task_switches_postponed_flag>>
      /\ pc' = [pc EXCEPT ![current_task_PCB] = "unlock"]
      /\ \/ /\ pc[current_task_PCB] = "block_sleeping"
            /\ after' = [after EXCEPT ![current_task_PCB] = "blocked_sleeping"]
            /\ state' = [state EXCEPT ![current_task_PCB] = TASK_STATE_SLEEPING]
         \/ /\ pc[current_task_PCB] = "block_terminated"
            /\ after' = [after EXCEPT ![current_task_PCB] = "blocked_for_good"]
            /\ state' = [state EXCEPT ![current_task_PCB] = TASK_STATE_TERMINATED]
  BY DEF block_task, TaskFrame, LockUntil, Running, clock, locals, Goto
<1>3. /\ pc'[current_task_PCB] = "unlock" /\ current_task_PCB' = current_task_PCB
      /\ \/ /\ pc[current_task_PCB] = "block_sleeping" /\ after'[current_task_PCB] = "blocked_sleeping"
            /\ state'[current_task_PCB] = TASK_STATE_SLEEPING
         \/ /\ pc[current_task_PCB] = "block_terminated" /\ after'[current_task_PCB] = "blocked_for_good"
            /\ state'[current_task_PCB] = TASK_STATE_TERMINATED
  BY <1>1, <1>2 DEF ControlTypes, DataTypes
<1>4. \A t \in TCB : t # current_task_PCB =>
         /\ pc'[t] = pc[t] /\ after'[t] = after[t] /\ arg'[t] = arg[t]
         /\ state'[t] = state[t] /\ next'[t] = next[t]
  BY <1>1, <1>2 DEF ControlTypes, DataTypes, lists
<1>5. Region = pc[current_task_PCB] /\ Region' = after'[current_task_PCB]
  BY <1>3 DEF Region, InSchedule, ScheduleBody
<1>6. (Dozing' <=> Dozing) /\ (Dying' <=> Dying) /\ (Linked' <=> Linked) /\ (Popped' <=> Popped)
  BY <1>3, <1>5 DEF Dozing, Dying, Linked, Popped, ScheduleBody
<1>7. ticks_since_boot' \in Nat /\ ticks_since_boot' >= ticks_since_boot
  <2>1. ticks_since_boot \in Nat /\ ticks_since_boot' = ticks_since_boot
    BY <1>1, <1>2 DEF DataTypes
  <2> QED
    BY <2>1
<1>8. Quiet
  BY <1>2, <1>3, <1>4, <1>6, <1>7 DEF Quiet, lists
<1>9. task_switches_postponed_flag' = 0
  BY <1>1, <1>2, <1>3 DEF Control, PostponeClean, ControlTypes
<1>10. state'[current_task_PCB] \in RunState'
  BY <1>3, <1>5 DEF RunState, Dozing, Dying
<1>11. \A t \in TCB : arg'[t] <= MaxTicks
  BY <1>2 DEF Runs
<1>12. Runs'
  BY <1>3, <1>9, <1>10, <1>11 DEF Runs, InSchedule, ScheduleBody
<1> QED
  BY <1>2, <1>8, <1>12

\* The unlocked calls of schedule().
LEMMA LeaveQuiet ==
  ASSUME IInv, Runs,
         \/ BlockedSchedule("blocked_sleeping", "slept")
         \/ BlockedSchedule("blocked_for_good", "abort")
         \/ Slept
  PROVE  Quiet /\ Runs' /\ UNCHANGED timer
<1>1. ControlTypes /\ DataTypes /\ Control /\ current_task_PCB \in TCB
  BY DEF IInv, ControlTypes
<1>2. /\ UNCHANGED <<current_task_PCB, lists, state, target_wakeup_time, next_task, arg, after,
                     ticks_since_boot, timer, task_switches_postponed_flag>>
      /\ \/ /\ pc[current_task_PCB] = "blocked_sleeping" /\ pc' = [pc EXCEPT ![current_task_PCB] = "schedule"]
            /\ ret' = [ret EXCEPT ![current_task_PCB] = "slept"]
         \/ /\ pc[current_task_PCB] = "blocked_for_good" /\ pc' = [pc EXCEPT ![current_task_PCB] = "schedule"]
            /\ ret' = [ret EXCEPT ![current_task_PCB] = "abort"]
         \/ /\ pc[current_task_PCB] = "slept" /\ pc' = [pc EXCEPT ![current_task_PCB] = "schedule"]
            /\ ret' = [ret EXCEPT ![current_task_PCB] = "body"]
         \/ /\ pc[current_task_PCB] = "slept" /\ pc' = [pc EXCEPT ![current_task_PCB] = "terminate"]
  BY DEF BlockedSchedule, Slept, TaskFrame, Running, clock, locals, Goto, CallSchedule, fields, locks
<1>3. /\ current_task_PCB' = current_task_PCB /\ state' = state
      /\ \/ /\ pc[current_task_PCB] = "blocked_sleeping" /\ pc'[current_task_PCB] = "schedule"
            /\ ret'[current_task_PCB] = "slept"
         \/ /\ pc[current_task_PCB] = "blocked_for_good" /\ pc'[current_task_PCB] = "schedule"
            /\ ret'[current_task_PCB] = "abort"
         \/ /\ pc[current_task_PCB] = "slept" /\ pc'[current_task_PCB] = "schedule"
            /\ ret'[current_task_PCB] = "body"
         \/ pc[current_task_PCB] = "slept" /\ pc'[current_task_PCB] = "terminate"
  BY <1>1, <1>2 DEF ControlTypes
<1>4. PICK l \in {"schedule", "terminate"} : pc' = [pc EXCEPT ![current_task_PCB] = l]
  BY <1>2
<1>5. \A t \in TCB : arg'[t] <= MaxTicks
  BY <1>2 DEF Runs
<1>6. Hop(l)
  BY <1>2, <1>4, <1>5 DEF Hop
<1>7. (Dozing' <=> Dozing) /\ (Dying' <=> Dying) /\ (Linked' <=> Linked) /\ (Popped' <=> Popped)
  BY <1>3 DEF Dozing, Dying, Linked, Popped, Region, InSchedule, ScheduleBody
<1>8. Quiet
  BY <1>1, <1>2, <1>3, <1>6, <1>7, HopQuiet
<1>9. task_switches_postponed_flag' = 0
  BY <1>1, <1>2, <1>3 DEF Control, PostponeClean, ControlTypes
<1>10. state'[current_task_PCB] \in RunState'
  BY <1>3 DEF Runs, RunState, Dozing, Dying, Region, InSchedule, ScheduleBody
<1>11. Runs'
  BY <1>3, <1>5, <1>9, <1>10 DEF Runs, InSchedule, ScheduleBody
<1> QED
  BY <1>2, <1>8, <1>11

\* The beginning of schedule(): it finds no task only if kernel_main runs alone,
\* since a task that is blocked leaves kernel_main on the ready list.
LEMMA EnterQuiet ==
  ASSUME IInv, Runs, NEW rq, NEW sq, NEW dq, Lists(rq, sq, dq), Places(rq, sq, dq), schedule_enter
  PROVE  Quiet /\ Runs' /\ UNCHANGED timer
<1>1. ControlTypes /\ DataTypes /\ Control /\ current_task_PCB \in TCB
  BY DEF IInv, ControlTypes
<1>2. /\ UNCHANGED <<current_task_PCB, lists, state, target_wakeup_time, next_task, arg, after, ret,
                     ticks_since_boot, timer>>
      /\ pc[current_task_PCB] = "schedule" /\ irq = "none"
      /\ \/ /\ postpone_task_switches_counter # 0
            /\ pc' = [pc EXCEPT ![current_task_PCB] = ret[current_task_PCB]]
         \/ /\ postpone_task_switches_counter = 0 /\ first_ready_to_run_task = NULL
            /\ task_switches_postponed_flag' = task_switches_postponed_flag
            /\ pc' = [pc EXCEPT ![current_task_PCB] = ret[current_task_PCB]]
         \/ /\ postpone_task_switches_counter = 0
            /\ task_switches_postponed_flag' = task_switches_postponed_flag
            /\ pc' = [pc EXCEPT ![current_task_PCB] = "pop"]
  BY DEF schedule_enter, Running, clock, locals, Goto, fields
<1>3. postpone_task_switches_counter # 0 <=> ret[current_task_PCB] = "unlock"
  BY <1>1, <1>2 DEF Control, PostponeClean, InHandler
<1>4. task_switches_postponed_flag = 0
  BY <1>1, <1>2 DEF Control, PostponeClean, ControlTypes
<1>5. first_ready_to_run_task = NULL => current_task_PCB = Main
  <2> SUFFICES ASSUME first_ready_to_run_task = NULL, current_task_PCB # Main PROVE FALSE
    OBVIOUS
  <2>1. Main \in TCB /\ pc[Main] = "unlock_tail"
    BY <1>1, TCBAssumption DEF Control, MainAway
  <2>2. IsList(first_ready_to_run_task, rq, next)
    BY DEF Lists
  <2>3. Elems(rq) = {}
    BY <2>2, ListMembers DEF Elems
  <2>4. ~Popped
    BY <1>2 DEF Popped, ScheduleBody
  <2>5. Main \in Elems(sq) \cup Elems(dq)
    BY <2>1, <2>3, <2>4 DEF Places
  <2> QED
    BY <2>1, <2>5 DEF Places
<1>6. current_task_PCB = Main => ret[current_task_PCB] \in {"unlock", "unlock_tail"}
  BY <1>1 DEF Control, MainControl
<1>7. ret[current_task_PCB] \in {"unlock", "unlock_tail"} => after[current_task_PCB] \in YieldAfter
  BY <1>2 DEF Runs, InSchedule
<1>8. /\ current_task_PCB' = current_task_PCB /\ state' = state /\ after' = after /\ ret' = ret
      /\ \/ pc'[current_task_PCB] = "unlock" /\ ret[current_task_PCB] = "unlock"
         \/ /\ pc'[current_task_PCB] = "unlock_tail" /\ ret[current_task_PCB] = "unlock_tail"
            /\ task_switches_postponed_flag' = 0
         \/ pc'[current_task_PCB] = "pop" /\ task_switches_postponed_flag' = 0
  BY <1>1, <1>2, <1>3, <1>4, <1>5, <1>6 DEF ControlTypes
<1>9. PICK l : pc' = [pc EXCEPT ![current_task_PCB] = l]
  BY <1>2
<1>10. \A t \in TCB : arg'[t] <= MaxTicks
  BY <1>2 DEF Runs
<1>11. Hop(l)
  BY <1>2, <1>9, <1>10 DEF Hop
<1>12. (Dozing' <=> Dozing) /\ (Dying' <=> Dying) /\ (Linked' <=> Linked) /\ (Popped' <=> Popped)
  BY <1>2, <1>7, <1>8 DEF Dozing, Dying, Linked, Popped, Region, InSchedule, ScheduleBody, YieldAfter
<1>13. Quiet
  BY <1>1, <1>2, <1>11, <1>12, HopQuiet
<1>14. state'[current_task_PCB] \in RunState'
  BY <1>2, <1>7, <1>8 DEF Runs, RunState, Dozing, Dying, Region, InSchedule, ScheduleBody, YieldAfter
<1>15. Runs'
  BY <1>7, <1>8, <1>10, <1>14 DEF Runs, InSchedule, ScheduleBody
<1> QED
  BY <1>2, <1>13, <1>15

\* schedule() charges the ticks, and prepares the block of a task that stays ready.
LEMMA RequeueQuiet ==
  ASSUME IInv, Runs, schedule_charge \/ schedule_requeue
  PROVE  Quiet /\ Runs' /\ UNCHANGED timer
<1>1. ControlTypes /\ DataTypes /\ Control /\ current_task_PCB \in TCB
  BY DEF IInv, ControlTypes
<1>2. /\ UNCHANGED <<current_task_PCB, first_ready_to_run_task, last_ready_to_run_task, sleeping_taskes,
                     dead_tasks, target_wakeup_time, next_task, arg, after, ret,
                     ticks_since_boot, timer, task_switches_postponed_flag>>
      /\ \/ /\ pc[current_task_PCB] = "charge" /\ pc' = [pc EXCEPT ![current_task_PCB] = "requeue"]
            /\ UNCHANGED <<state, next>>
         \/ /\ pc[current_task_PCB] = "requeue" /\ pc' = [pc EXCEPT ![current_task_PCB] = "link"]
            /\ state[current_task_PCB] \in {TASK_STATE_RUNNING, TASK_STATE_READY_TO_RUN}
            /\ state' = [state EXCEPT ![current_task_PCB] = TASK_STATE_READY_TO_RUN]
            /\ next' = [next EXCEPT ![current_task_PCB] = NULL]
         \/ /\ pc[current_task_PCB] = "requeue" /\ pc' = [pc EXCEPT ![current_task_PCB] = "switch"]
            /\ state[current_task_PCB] \notin {TASK_STATE_RUNNING, TASK_STATE_READY_TO_RUN}
            /\ UNCHANGED <<state, next>>
  BY DEF schedule_charge, schedule_requeue, Running, ScheduleFrame, locals, locks, lists, Goto
<1>3. /\ current_task_PCB' = current_task_PCB /\ after' = after /\ ret' = ret
      /\ \/ /\ pc[current_task_PCB] = "charge" /\ pc'[current_task_PCB] = "requeue"
            /\ state' = state /\ next' = next
         \/ /\ pc[current_task_PCB] = "requeue" /\ pc'[current_task_PCB] = "link"
            /\ state[current_task_PCB] \in {TASK_STATE_RUNNING, TASK_STATE_READY_TO_RUN}
            /\ state'[current_task_PCB] = TASK_STATE_READY_TO_RUN /\ next'[current_task_PCB] = NULL
         \/ /\ pc[current_task_PCB] = "requeue" /\ pc'[current_task_PCB] = "switch"
            /\ state[current_task_PCB] \notin {TASK_STATE_RUNNING, TASK_STATE_READY_TO_RUN}
            /\ state' = state /\ next' = next
  BY <1>1, <1>2 DEF ControlTypes, DataTypes
<1>4. Region = ret[current_task_PCB] /\ Region' = ret[current_task_PCB]
  BY <1>3 DEF Region, InSchedule, ScheduleBody
<1>5. ret[current_task_PCB] \in {"unlock_tail", "slept", "body", "abort"}
  BY <1>1, <1>3 DEF Control, BodyControl, ControlTypes, ReturnPlace, ScheduleBody
<1>6. /\ ret[current_task_PCB] = "slept" => state[current_task_PCB] = TASK_STATE_SLEEPING
      /\ ret[current_task_PCB] = "abort" =>
            state[current_task_PCB] \in {TASK_STATE_DEAD, TASK_STATE_TERMINATED}
      /\ ret[current_task_PCB] \in {"unlock_tail", "body"} =>
            state[current_task_PCB] = TASK_STATE_RUNNING
  BY <1>3, <1>4 DEF Runs, RunState, Dozing, Dying
<1>7. /\ pc'[current_task_PCB] = "link" => ret[current_task_PCB] \in {"unlock_tail", "body"}
      /\ pc'[current_task_PCB] = "switch" => ret[current_task_PCB] \in {"slept", "abort"}
  BY <1>3, <1>5, <1>6 DEF TASK_STATE_RUNNING, TASK_STATE_READY_TO_RUN, TASK_STATE_SLEEPING,
       TASK_STATE_DEAD, TASK_STATE_TERMINATED
<1>8. (Dozing' <=> Dozing) /\ (Dying' <=> Dying) /\ (Linked' <=> Linked) /\ (Popped' <=> Popped)
  BY <1>3, <1>4, <1>7 DEF Dozing, Dying, Linked, Popped, ScheduleBody
<1>9. ticks_since_boot' \in Nat /\ ticks_since_boot' >= ticks_since_boot
  <2>1. ticks_since_boot \in Nat /\ ticks_since_boot' = ticks_since_boot
    BY <1>1, <1>2 DEF DataTypes
  <2> QED
    BY <2>1
<1>10. \A t \in TCB : t # current_task_PCB =>
         /\ pc'[t] = pc[t] /\ after'[t] = after[t] /\ arg'[t] = arg[t]
         /\ state'[t] = state[t] /\ next'[t] = next[t]
  BY <1>1, <1>2 DEF ControlTypes, DataTypes
<1>11. next'[current_task_PCB] = next[current_task_PCB] \/ (~Dozing /\ ~Dying /\ ~Linked)
  BY <1>3, <1>4, <1>7 DEF Dozing, Dying, Linked
<1>12. Quiet
  BY <1>2, <1>3, <1>8, <1>9, <1>10, <1>11 DEF Quiet
<1>13. state'[current_task_PCB] \in RunState'
  <2>1. Dozing' <=> ret[current_task_PCB] = "slept"
    BY <1>3, <1>4, <1>5 DEF Dozing
  <2>2. Dying' <=> ret[current_task_PCB] = "abort"
    BY <1>4, <1>5 DEF Dying
  <2> QED
    BY <1>3, <1>4, <1>5, <1>6, <1>7, <2>1, <2>2 DEF RunState
<1>14. task_switches_postponed_flag' = 0
  BY <1>1, <1>2, <1>3 DEF Control, PostponeClean, ControlTypes
<1>15. \A t \in TCB : arg'[t] <= MaxTicks
  BY <1>2 DEF Runs
<1>16. pc[current_task_PCB] \in InSchedule
  BY <1>3 DEF InSchedule, ScheduleBody
<1>17. Runs'
  BY <1>3, <1>4, <1>7, <1>13, <1>14, <1>15, <1>16 DEF Runs
<1> QED
  BY <1>2, <1>12, <1>17

\* The clock ticks, or the handler looks at a sleeper or returns.
LEMMA TimerQuiet ==
  ASSUME IInv, Runs, irq_0_handler \/ still_sleeping \/ irq_0_return \/ irq_1_handler
  PROVE  Quiet /\ Runs'
<1>1. ControlTypes /\ DataTypes /\ Control /\ current_task_PCB \in TCB
  BY DEF IInv, ControlTypes
<1>2. /\ UNCHANGED <<current_task_PCB, lists, state, target_wakeup_time, next_task, arg, after, ret,
                     task_switches_postponed_flag>>
      /\ ticks_since_boot' = ticks_since_boot \/ ticks_since_boot' = Clock(ticks_since_boot + 1)
  BY DEF irq_0_handler, still_sleeping, irq_0_return, irq_1_handler, IrqFrame, locals, fields, locks
<1>3. \/ pc' = pc
      \/ /\ pc[current_task_PCB] = "halted"
         /\ pc' = [pc EXCEPT ![current_task_PCB] = "loop"]
  BY <1>1 DEF irq_0_handler, still_sleeping, irq_0_return, irq_1_handler, Wake, ControlTypes
<1>4. ticks_since_boot' \in Nat /\ ticks_since_boot' >= ticks_since_boot
  <2>1. ticks_since_boot \in Nat /\ MaxTicks \in Nat /\ ticks_since_boot <= MaxTicks
    BY <1>1, ClockAssumption DEF DataTypes
  <2> QED
    BY <1>2, <2>1 DEF Clock
<1>5. Due(current_task_PCB) => Due(current_task_PCB)'
  <2>1. ticks_since_boot \in Nat /\ arg[current_task_PCB] \in Nat /\ Wrap \in Nat \ {0}
    BY <1>1, ClockAssumption DEF DataTypes
  <2>2. arg[current_task_PCB] % Wrap \in Nat
    BY <2>1
  <2>3. arg[current_task_PCB] % Wrap <= ticks_since_boot => arg[current_task_PCB] % Wrap <= ticks_since_boot'
    BY <1>4, <2>1, <2>2
  <2> QED
    BY <1>2, <2>3 DEF Due
<1>6. \/ pc'[current_task_PCB] = pc[current_task_PCB]
      \/ pc[current_task_PCB] = "halted" /\ pc'[current_task_PCB] = "loop"
  BY <1>1, <1>3 DEF ControlTypes
<1>7. (Dozing' <=> Dozing) /\ (Dying' <=> Dying) /\ (Linked' <=> Linked) /\ (Popped' <=> Popped)
  BY <1>2, <1>6 DEF Dozing, Dying, Linked, Popped, Region, InSchedule, ScheduleBody
<1>8. \A t \in TCB : t # current_task_PCB => pc'[t] = pc[t]
  BY <1>1, <1>3 DEF ControlTypes
<1>9. Quiet
  BY <1>2, <1>4, <1>6, <1>7, <1>8 DEF Quiet, lists
<1>10. Runs'
  BY <1>2, <1>5, <1>6 DEF Runs, RunState, Dozing, Dying, Region, InSchedule, ScheduleBody, lists
<1> QED
  BY <1>9, <1>10

\* The handler's cursors go from one sleeper to the next.
LEMMA CursorStep ==
  ASSUME NEW rq, NEW sq, NEW dq, Lists(rq, sq, dq), IInv,
         irq_0_handler \/ still_sleeping \/ irq_0_return \/ irq_1_handler
  PROVE  Cursor(sq)'
<1>1. IsList(sleeping_taskes, sq, next) /\ Cursor(sq) /\ NULL \notin TCB
  BY TCBAssumption DEF Lists
<1>2. sq \in Seq(TCB) /\ Len(sq) \in Nat
  BY <1>1 DEF IsList
<1>3. CASE irq_0_handler
  <2>1. 1 \in 1..(Len(sq) + 1) /\ (1 \in 1..Len(sq) <=> Len(sq) # 0) /\ 1 - 1 \notin 1..Len(sq)
    BY <1>2
  <2>2. Nth(sq, 1) = sleeping_taskes /\ Nth(sq, 1 - 1) = NULL
    BY <1>1, <2>1 DEF Nth, IsList
  <2>3. curr' = Nth(sq, 1) /\ prev' = Nth(sq, 1 - 1)
    BY <1>3, <2>2 DEF irq_0_handler
  <2> QED
    BY <2>1, <2>3 DEF Cursor, Nth
<1>4. CASE still_sleeping
  <2>1. irq = "timer" /\ curr # NULL /\ curr' = next[curr] /\ prev' = curr
    BY <1>4 DEF still_sleeping
  <2>2. PICK i \in 1..(Len(sq) + 1) : curr = Nth(sq, i) /\ prev = Nth(sq, i - 1)
    BY <1>1, <2>1 DEF Cursor
  <2>3. i \in 1..Len(sq) /\ curr = sq[i]
    BY <2>1, <2>2 DEF Nth
  <2>4. i + 1 \in 1..(Len(sq) + 1) /\ (i + 1) - 1 = i /\ (i + 1 \in 1..Len(sq) <=> i # Len(sq))
    BY <1>2, <2>3
  <2>5. next[curr] = Nth(sq, i + 1)
    BY <1>1, <2>3, <2>4 DEF IsList, Nth
  <2>6. curr' = Nth(sq, i + 1) /\ prev' = Nth(sq, (i + 1) - 1)
    BY <2>1, <2>2, <2>4, <2>5
  <2> QED
    BY <2>4, <2>6 DEF Cursor, Nth
<1>5. CASE irq_0_return
  BY <1>5 DEF irq_0_return, Cursor
<1>6. CASE irq_1_handler
  BY <1>1, <1>6 DEF irq_1_handler, Cursor, timer, Nth
<1> QED
  BY <1>3, <1>4, <1>5, <1>6

(***************************************************************************)
(* Steps that move a task from one place to another                        *)
(***************************************************************************)
Placed == \E rq, sq, dq : Lists(rq, sq, dq) /\ Places(rq, sq, dq)

\* A task none of whose fields change goes on waiting.
LEMMA WaitsSame ==
  ASSUME NEW t, Waits(t), pc'[t] = pc[t], after'[t] = after[t], arg'[t] = arg[t],
         state'[t] = state[t], ticks_since_boot' = ticks_since_boot
  PROVE  Waits(t)'
BY DEF Waits, Due

\* The three lists and what is on them.
LEMMA OnLists ==
  ASSUME NEW rq, NEW sq, NEW dq, Lists(rq, sq, dq)
  PROVE  /\ IsList(first_ready_to_run_task, rq, next)
         /\ IsList(sleeping_taskes, sq, next) /\ IsList(dead_tasks, dq, next)
         /\ Elems(rq) \subseteq TCB /\ Elems(sq) \subseteq TCB /\ Elems(dq) \subseteq TCB
         /\ Len(rq) \in Nat
         /\ Len(rq) # 0 => last_ready_to_run_task = rq[Len(rq)] /\ last_ready_to_run_task \in Elems(rq)
         /\ first_ready_to_run_task = NULL <=> Len(rq) = 0
<1>1. /\ IsList(first_ready_to_run_task, rq, next)
      /\ IsList(sleeping_taskes, sq, next) /\ IsList(dead_tasks, dq, next)
      /\ Len(rq) # 0 => last_ready_to_run_task = rq[Len(rq)]
  BY DEF Lists
<1> QED
  BY <1>1, ListMembers

\* schedule() pops the first ready task.
LEMMA PopPlaced ==
  ASSUME IInv, Runs, NEW rq, NEW sq, NEW dq, Lists(rq, sq, dq), Places(rq, sq, dq), schedule_pop
  PROVE  Runs' /\ Lists(Tail(rq), sq, dq)' /\ Places(Tail(rq), sq, dq)'
<1>1. ControlTypes /\ DataTypes /\ Control /\ current_task_PCB \in TCB
  BY DEF IInv, ControlTypes
<1>2. /\ UNCHANGED <<current_task_PCB, last_ready_to_run_task, sleeping_taskes, dead_tasks, next,
                     state, target_wakeup_time, arg, after, ret, ticks_since_boot, timer,
                     task_switches_postponed_flag>>
      /\ pc[current_task_PCB] = "pop" /\ pc' = [pc EXCEPT ![current_task_PCB] = "drain"]
      /\ next_task' = first_ready_to_run_task
      /\ first_ready_to_run_task' = next[first_ready_to_run_task] /\ irq = "none"
  BY DEF schedule_pop, Running, ScheduleFrame, locals, locks, fields, Goto
<1>3. /\ pc'[current_task_PCB] = "drain" /\ irq' = "none" /\ current_task_PCB' = current_task_PCB
      /\ \A t \in TCB : t # current_task_PCB => pc'[t] = pc[t]
      /\ ret' = ret /\ next' = next /\ state' = state /\ after' = after /\ arg' = arg
      /\ ticks_since_boot' = ticks_since_boot /\ target_wakeup_time' = target_wakeup_time
      /\ task_switches_postponed_flag' = task_switches_postponed_flag
  BY <1>1, <1>2 DEF ControlTypes, timer
<1>4. Region = ret[current_task_PCB] /\ Region' = ret[current_task_PCB]
  BY <1>2, <1>3 DEF Region, InSchedule, ScheduleBody
<1>5. (Dozing' <=> Dozing) /\ (Dying' <=> Dying) /\ ~Linked /\ ~Linked' /\ Popped'
  BY <1>2, <1>3, <1>4 DEF Dozing, Dying, Linked, Popped, ScheduleBody
<1>6. Runs'
  BY <1>2, <1>3, <1>4, <1>5 DEF Runs, RunState, InSchedule, ScheduleBody
<1> DEFINE h == first_ready_to_run_task
           p == Tail(rq)
<1>7. h # NULL
  BY <1>1, <1>2 DEF Control, BodyControl
<1>8. /\ IsList(h, rq, next) /\ IsList(sleeping_taskes, sq, next) /\ IsList(dead_tasks, dq, next)
      /\ Elems(rq) \subseteq TCB /\ Elems(sq) \subseteq TCB /\ Elems(dq) \subseteq TCB
  BY OnLists
<1>9. /\ IsList(next[h], p, next) /\ h \in Elems(rq) /\ Elems(p) = Elems(rq) \ {h}
      /\ Len(rq) # 0 /\ (Len(p) # 0 => p[Len(p)] = rq[Len(rq)])
  BY <1>7, <1>8, ListPop
<1> HIDE DEF p
<1>10. Lists(p, sq, dq)'
  <2>1. /\ IsList(first_ready_to_run_task, p, next)' /\ IsList(sleeping_taskes, sq, next)'
        /\ IsList(dead_tasks, dq, next)'
    BY <1>2, <1>8, <1>9 DEF IsList
  <2>2. Elems(p) \cap Elems(sq) = {} /\ Elems(p) \cap Elems(dq) = {} /\ Elems(sq) \cap Elems(dq) = {}
    BY <1>9 DEF Lists
  <2>3. Len(p) # 0 => last_ready_to_run_task' = p[Len(p)]
    BY <1>2, <1>9 DEF Lists
  <2>4. Cursor(sq)'
    BY <1>3 DEF Cursor
  <2> QED
    BY <1>3, <2>1, <2>2, <2>3, <2>4 DEF Lists, Elems
<1>11. h \in TCB /\ h # current_task_PCB /\ Waits(h)
  <2>1. current_task_PCB \notin Elems(rq)
    BY <1>5 DEF Places
  <2>2. PICK u \in TCB : u = h
    BY <1>8, <1>9
  <2>3. Waits(u)
    BY <1>9, <2>1, <2>2 DEF Places
  <2> QED
    BY <1>9, <2>1, <2>2, <2>3
<1>12. \A t \in TCB : t # current_task_PCB /\ Waits(t) => Waits(t)'
  BY <1>3, WaitsSame
<1>13. Places(p, sq, dq)'
  <2>1. \A t \in Elems(p) : t # current_task_PCB => Waits(t)'
    BY <1>8, <1>9, <1>12 DEF Places
  <2>2. \A t \in Elems(sq) : /\ target_wakeup_time'[t] = arg'[t] % Wrap
                             /\ t # current_task_PCB => state'[t] = TASK_STATE_SLEEPING /\ pc'[t] = "slept"
    BY <1>3, <1>8 DEF Places
  <2>3. \A t \in Elems(dq) : t # current_task_PCB =>
            state'[t] \in {TASK_STATE_DEAD, TASK_STATE_TERMINATED} /\ pc'[t] = "abort"
    BY <1>3, <1>8 DEF Places
  <2>4. Waits(next_task)'
    <3>1. PICK u \in TCB : u = h
      BY <1>11
    <3>2. Waits(u)'
      BY <1>11, <1>12, <3>1
    <3> QED
      BY <1>2, <3>1, <3>2 DEF Waits, Due
  <2>5. /\ next_task' \in TCB /\ next_task' # current_task_PCB
        /\ next_task' \notin Elems(p) \cup Elems(sq) \cup Elems(dq)
    BY <1>2, <1>9, <1>11 DEF Lists
  <2>6. \A t \in TCB : \/ pc'[t] = "free" \/ t = current_task_PCB \/ t = next_task'
                       \/ t \in Elems(p) \cup Elems(sq) \cup Elems(dq)
    <3>1. ~Popped
      BY <1>2 DEF Popped
    <3> QED
      BY <1>2, <1>3, <1>9, <3>1 DEF Places
  <2>7. /\ current_task_PCB \in Elems(sq) <=> Dozing
        /\ current_task_PCB \in Elems(dq) <=> Dying
        /\ current_task_PCB \notin Elems(p)
    BY <1>5, <1>9 DEF Places
  <2> QED
    BY <1>3, <1>5, <2>1, <2>2, <2>3, <2>4, <2>5, <2>6, <2>7 DEF Places, Elems
<1> QED
  BY <1>6, <1>10, <1>13 DEF p

\* schedule() resets the tail pointer of a list it has emptied.
LEMMA DrainPlaced ==
  ASSUME IInv, Runs, NEW rq, NEW sq, NEW dq, Lists(rq, sq, dq), Places(rq, sq, dq), schedule_drain
  PROVE  Runs' /\ Lists(rq, sq, dq)' /\ Places(rq, sq, dq)'
<1>1. ControlTypes /\ DataTypes /\ Control /\ current_task_PCB \in TCB
  BY DEF IInv, ControlTypes
<1>2. /\ UNCHANGED <<current_task_PCB, first_ready_to_run_task, sleeping_taskes, dead_tasks, next,
                     state, target_wakeup_time, arg, after, ret, ticks_since_boot, timer, next_task,
                     task_switches_postponed_flag>>
      /\ pc[current_task_PCB] = "drain" /\ pc' = [pc EXCEPT ![current_task_PCB] = "charge"]
      /\ last_ready_to_run_task' = IF first_ready_to_run_task = NULL THEN NULL
                                   ELSE last_ready_to_run_task
      /\ irq = "none"
  BY DEF schedule_drain, Running, ScheduleFrame, locals, locks, fields, Goto
<1>3. /\ pc'[current_task_PCB] = "charge" /\ irq' = "none" /\ current_task_PCB' = current_task_PCB
      /\ \A t \in TCB : t # current_task_PCB => pc'[t] = pc[t]
      /\ ret' = ret /\ next' = next /\ state' = state /\ after' = after /\ arg' = arg
      /\ ticks_since_boot' = ticks_since_boot /\ target_wakeup_time' = target_wakeup_time
      /\ task_switches_postponed_flag' = task_switches_postponed_flag /\ next_task' = next_task
  BY <1>1, <1>2 DEF ControlTypes, timer
<1>4. Region = ret[current_task_PCB] /\ Region' = ret[current_task_PCB]
  BY <1>2, <1>3 DEF Region, InSchedule, ScheduleBody
<1>5. (Dozing' <=> Dozing) /\ (Dying' <=> Dying) /\ ~Linked /\ ~Linked' /\ Popped /\ Popped'
  BY <1>2, <1>3, <1>4 DEF Dozing, Dying, Linked, Popped, ScheduleBody
<1>6. Runs'
  BY <1>2, <1>3, <1>4, <1>5 DEF Runs, RunState, InSchedule, ScheduleBody
<1>7. /\ IsList(first_ready_to_run_task, rq, next) /\ IsList(sleeping_taskes, sq, next)
      /\ IsList(dead_tasks, dq, next)
      /\ Elems(rq) \subseteq TCB /\ Elems(sq) \subseteq TCB /\ Elems(dq) \subseteq TCB
      /\ Len(rq) # 0 => last_ready_to_run_task = rq[Len(rq)]
      /\ first_ready_to_run_task = NULL <=> Len(rq) = 0
  BY OnLists
<1>8. Lists(rq, sq, dq)'
  <2>1. /\ IsList(first_ready_to_run_task, rq, next)' /\ IsList(sleeping_taskes, sq, next)'
        /\ IsList(dead_tasks, dq, next)'
    BY <1>2, <1>7 DEF IsList
  <2>2. Elems(rq) \cap Elems(sq) = {} /\ Elems(rq) \cap Elems(dq) = {} /\ Elems(sq) \cap Elems(dq) = {}
    BY DEF Lists
  <2>3. /\ Len(rq) # 0 => last_ready_to_run_task' = rq[Len(rq)]
        /\ Len(rq) = 0 => last_ready_to_run_task' = NULL
    BY <1>2, <1>7
  <2>4. Cursor(sq)'
    BY <1>3 DEF Cursor
  <2> QED
    BY <2>1, <2>2, <2>3, <2>4 DEF Lists, Elems
<1>9. \A t \in TCB : t # current_task_PCB /\ Waits(t) => Waits(t)'
  BY <1>3, WaitsSame
<1>10. Places(rq, sq, dq)'
  <2>1. \A t \in Elems(rq) : t # current_task_PCB => Waits(t)'
    BY <1>7, <1>9 DEF Places
  <2>2. \A t \in Elems(sq) : /\ target_wakeup_time'[t] = arg'[t] % Wrap
                             /\ t # current_task_PCB => state'[t] = TASK_STATE_SLEEPING /\ pc'[t] = "slept"
    BY <1>3, <1>7 DEF Places
  <2>3. \A t \in Elems(dq) : t # current_task_PCB =>
            state'[t] \in {TASK_STATE_DEAD, TASK_STATE_TERMINATED} /\ pc'[t] = "abort"
    BY <1>3, <1>7 DEF Places
  <2>4. /\ next_task \in TCB /\ next_task # current_task_PCB /\ Waits(next_task)
        /\ next_task \notin Elems(rq) \cup Elems(sq) \cup Elems(dq)
    BY <1>5 DEF Places
  <2>5. Waits(next_task)'
    <3>1. PICK u \in TCB : u = next_task
      BY <2>4
    <3>2. Waits(u)
      BY <2>4, <3>1
    <3>3. Waits(u)'
      BY <1>9, <2>4, <3>1, <3>2
    <3> QED
      BY <1>3, <3>1, <3>3 DEF Waits, Due
  <2>6. \A t \in TCB : \/ pc'[t] = "free" \/ t = current_task_PCB \/ t = next_task
                       \/ t \in Elems(rq) \cup Elems(sq) \cup Elems(dq)
    BY <1>3 DEF Places
  <2>7. /\ current_task_PCB \in Elems(sq) <=> Dozing
        /\ current_task_PCB \in Elems(dq) <=> Dying
        /\ current_task_PCB \in Elems(rq) <=> Linked
    BY DEF Places
  <2> QED
    BY <1>3, <1>5, <2>1, <2>2, <2>3, <2>4, <2>5, <2>6, <2>7 DEF Places, Elems
<1> QED
  BY <1>6, <1>8, <1>10

\* schedule() appends the task that leaves.
LEMMA LinkPlaced ==
  ASSUME IInv, Runs, NEW rq, NEW sq, NEW dq, Lists(rq, sq, dq), Places(rq, sq, dq), schedule_link
  PROVE  /\ Runs'
         /\ \E c \in TCB : /\ c = current_task_PCB
                         /\ Lists(Append(rq, c), sq, dq)' /\ Places(Append(rq, c), sq, dq)'
<1>1. ControlTypes /\ DataTypes /\ Control /\ current_task_PCB \in TCB
  BY DEF IInv, ControlTypes
<1>2. /\ UNCHANGED <<current_task_PCB, sleeping_taskes, dead_tasks,
                     state, target_wakeup_time, arg, after, ret, ticks_since_boot, timer, next_task,
                     task_switches_postponed_flag>>
      /\ pc[current_task_PCB] = "link" /\ pc' = [pc EXCEPT ![current_task_PCB] = "switch"]
      /\ last_ready_to_run_task' = current_task_PCB
      /\ last_ready_to_run_task # NULL =>
            /\ next' = [next EXCEPT ![last_ready_to_run_task] = current_task_PCB]
            /\ first_ready_to_run_task' = first_ready_to_run_task
      /\ last_ready_to_run_task = NULL =>
            next' = next /\ first_ready_to_run_task' = current_task_PCB
      /\ irq = "none"
  BY DEF schedule_link, Running, ScheduleFrame, locals, locks, fields, Goto
<1>3. /\ pc'[current_task_PCB] = "switch" /\ irq' = "none" /\ current_task_PCB' = current_task_PCB
      /\ \A t \in TCB : t # current_task_PCB => pc'[t] = pc[t]
      /\ ret' = ret /\ state' = state /\ after' = after /\ arg' = arg
      /\ ticks_since_boot' = ticks_since_boot /\ target_wakeup_time' = target_wakeup_time
      /\ task_switches_postponed_flag' = task_switches_postponed_flag /\ next_task' = next_task
  BY <1>1, <1>2 DEF ControlTypes, timer
<1>4. /\ Region = ret[current_task_PCB] /\ Region' = ret[current_task_PCB]
      /\ ret[current_task_PCB] \in {"unlock_tail", "body"} /\ next[current_task_PCB] = NULL
  BY <1>2, <1>3 DEF Region, InSchedule, ScheduleBody, Runs
<1>5. ~Dozing /\ ~Dozing' /\ ~Dying /\ ~Dying' /\ ~Linked /\ Linked' /\ Popped /\ Popped'
  BY <1>2, <1>3, <1>4 DEF Dozing, Dying, Linked, Popped, ScheduleBody
<1>6. Runs'
  BY <1>2, <1>3, <1>4, <1>5 DEF Runs, RunState, InSchedule, ScheduleBody
<1>7. /\ IsList(first_ready_to_run_task, rq, next) /\ IsList(sleeping_taskes, sq, next)
      /\ IsList(dead_tasks, dq, next)
      /\ Elems(rq) \subseteq TCB /\ Elems(sq) \subseteq TCB /\ Elems(dq) \subseteq TCB
      /\ Len(rq) # 0 => last_ready_to_run_task = rq[Len(rq)] /\ last_ready_to_run_task \in Elems(rq)
      /\ first_ready_to_run_task = NULL <=> Len(rq) = 0
  BY OnLists
<1>8. /\ current_task_PCB \notin Elems(rq) /\ current_task_PCB \notin Elems(sq)
      /\ current_task_PCB \notin Elems(dq)
  BY <1>5 DEF Places
<1>9. Elems(rq) \cap Elems(sq) = {} /\ Elems(rq) \cap Elems(dq) = {} /\ Elems(sq) \cap Elems(dq) = {}
  BY DEF Lists
<1>10. last_ready_to_run_task = NULL <=> Len(rq) = 0
  <2>1. Len(rq) = 0 => last_ready_to_run_task = NULL
    BY <1>2 DEF Lists
  <2> QED
    BY <1>7, <2>1, TCBAssumption
<1>11. /\ next'[current_task_PCB] = NULL
       /\ \A u \in Elems(rq) : next'[u] = IF u = rq[Len(rq)] THEN current_task_PCB ELSE next[u]
       /\ \A u \in Elems(sq) \cup Elems(dq) : next'[u] = next[u]
  <2>0. next \in [TCB -> Ptr]
    BY <1>1 DEF DataTypes
  <2>1. CASE Len(rq) = 0
    <3>1. Elems(rq) = {}
      BY <2>1 DEF Elems
    <3> QED
      BY <1>2, <1>4, <1>10, <2>1, <3>1
  <2>2. CASE Len(rq) # 0
    <3>1. last_ready_to_run_task # current_task_PCB
      BY <1>7, <1>8, <2>2
    <3> QED
      BY <1>1, <1>2, <1>4, <1>7, <1>9, <1>10, <2>0, <2>2, <3>1
  <2> QED
    BY <2>1, <2>2
<1>12. PICK c \in TCB : c = current_task_PCB
  BY <1>1
<1> DEFINE p == Append(rq, c)
<1>13. /\ IsList(IF first_ready_to_run_task = NULL THEN c ELSE first_ready_to_run_task, p, next')
       /\ Elems(p) = Elems(rq) \cup {c} /\ Len(p) # 0 /\ p[Len(p)] = c
  BY <1>7, <1>8, <1>11, <1>12, ListAppend
<1>14. IsList(sleeping_taskes, sq, next') /\ IsList(dead_tasks, dq, next')
  BY <1>7, <1>11, ListSame
<1> HIDE DEF p
<1>15. Lists(p, sq, dq)'
  <2>0. first_ready_to_run_task' = IF first_ready_to_run_task = NULL THEN c ELSE first_ready_to_run_task
    BY <1>2, <1>7, <1>10, <1>12
  <2>1. /\ IsList(first_ready_to_run_task, p, next)' /\ IsList(sleeping_taskes, sq, next)'
        /\ IsList(dead_tasks, dq, next)'
    BY <1>2, <1>13, <1>14, <2>0 DEF IsList
  <2>2. Elems(p) \cap Elems(sq) = {} /\ Elems(p) \cap Elems(dq) = {} /\ Elems(sq) \cap Elems(dq) = {}
    BY <1>8, <1>9, <1>12, <1>13
  <2>3. last_ready_to_run_task' = p[Len(p)] /\ Len(p) # 0
    BY <1>2, <1>12, <1>13
  <2>4. Cursor(sq)'
    BY <1>3 DEF Cursor
  <2> QED
    BY <2>1, <2>2, <2>3, <2>4 DEF Lists, Elems
<1>16. \A t \in TCB : t # current_task_PCB /\ Waits(t) => Waits(t)'
  BY <1>3, WaitsSame
<1>17. Places(p, sq, dq)'
  <2>1. \A t \in Elems(p) : t # current_task_PCB => Waits(t)'
    BY <1>7, <1>12, <1>13, <1>16 DEF Places
  <2>2. \A t \in Elems(sq) : /\ target_wakeup_time'[t] = arg'[t] % Wrap
                             /\ t # current_task_PCB => state'[t] = TASK_STATE_SLEEPING /\ pc'[t] = "slept"
    BY <1>3, <1>7 DEF Places
  <2>3. \A t \in Elems(dq) : t # current_task_PCB =>
            state'[t] \in {TASK_STATE_DEAD, TASK_STATE_TERMINATED} /\ pc'[t] = "abort"
    BY <1>3, <1>7 DEF Places
  <2>4. /\ next_task \in TCB /\ next_task # current_task_PCB /\ Waits(next_task)
        /\ next_task \notin Elems(rq) \cup Elems(sq) \cup Elems(dq)
    BY <1>5 DEF Places
  <2>5. Waits(next_task)'
    <3>1. PICK u \in TCB : u = next_task
      BY <2>4
    <3>2. Waits(u)
      BY <2>4, <3>1
    <3>3. Waits(u)'
      BY <1>16, <2>4, <3>1, <3>2
    <3> QED
      BY <1>3, <3>1, <3>3 DEF Waits, Due
  <2>6. \A t \in TCB : \/ pc'[t] = "free" \/ t = current_task_PCB \/ t = next_task
                       \/ t \in Elems(p) \cup Elems(sq) \cup Elems(dq)
    BY <1>3, <1>13 DEF Places
  <2>7. next_task \notin Elems(p) \cup Elems(sq) \cup Elems(dq)
    BY <1>12, <1>13, <2>4
  <2>8. current_task_PCB \in Elems(p) /\ p[Len(p)] = current_task_PCB
    BY <1>12, <1>13
  <2> QED
    BY <1>3, <1>5, <1>8, <2>1, <2>2, <2>3, <2>4, <2>5, <2>6, <2>7, <2>8 DEF Places, Elems
<1> QED
  BY <1>6, <1>15, <1>17, <1>12 DEF p

\* _switch_to_task: the task that leaves is on the list its state names, and the
\* one that schedule() has popped runs.
LEMMA SwitchPlaced ==
  ASSUME IInv, Runs, NEW rq, NEW sq, NEW dq, Lists(rq, sq, dq), Places(rq, sq, dq), switch_to_task
  PROVE  /\ Runs' /\ Lists(rq, sq, dq)' /\ Places(rq, sq, dq)'
         /\ \E c \in TCB, w \in TCB :
               /\ c = current_task_PCB /\ w = next_task /\ current_task_PCB' = w /\ w # c
               /\ w \notin Elems(rq) \cup Elems(sq) \cup Elems(dq) /\ Popped /\ ~Popped'
               /\ ret[c] \in {"unlock_tail", "slept", "body", "abort"}
               /\ c \in Elems(sq) <=> ret[c] = "slept"
               /\ c \in Elems(dq) <=> ret[c] = "abort"
               /\ c \in Elems(rq) <=> ret[c] \in {"unlock_tail", "body"}
<1>1. ControlTypes /\ DataTypes /\ Control /\ current_task_PCB \in TCB
  BY DEF IInv, ControlTypes
<1>2. pc[current_task_PCB] = "switch" /\ irq = "none" /\ postpone_task_switches_counter = 0
  BY <1>1 DEF switch_to_task, Running, Control, PostponeClean, InHandler
<1>3. /\ UNCHANGED <<lists, target_wakeup_time, arg, after, ret, ticks_since_boot, timer, next_task,
                     task_switches_postponed_flag>>
      /\ current_task_PCB' = next_task
      /\ state' = [state EXCEPT ![next_task] = TASK_STATE_RUNNING]
      /\ pc' = [pc EXCEPT ![current_task_PCB] = ret[current_task_PCB]]
  BY <1>2 DEF switch_to_task, locals, clock, Goto
<1>4. Popped
  BY <1>2 DEF Popped, ScheduleBody
<1>5. PICK w \in TCB : w = next_task
  BY <1>4 DEF Places
<1>6. PICK c \in TCB : c = current_task_PCB
  BY <1>1
<1>7. w # c /\ Waits(w) /\ w \notin Elems(rq) \cup Elems(sq) \cup Elems(dq)
  BY <1>4, <1>5, <1>6 DEF Places, Waits, Due
<1>8. /\ current_task_PCB' = w /\ irq' = "none"
      /\ pc'[c] = ret[c] /\ \A t \in TCB : t # c => pc'[t] = pc[t]
      /\ state'[w] = TASK_STATE_RUNNING /\ \A t \in TCB : t # w => state'[t] = state[t]
      /\ ret' = ret /\ after' = after /\ arg' = arg /\ next' = next
      /\ first_ready_to_run_task' = first_ready_to_run_task
      /\ last_ready_to_run_task' = last_ready_to_run_task
      /\ sleeping_taskes' = sleeping_taskes /\ dead_tasks' = dead_tasks
      /\ ticks_since_boot' = ticks_since_boot /\ target_wakeup_time' = target_wakeup_time
      /\ task_switches_postponed_flag' = task_switches_postponed_flag
  BY <1>1, <1>2, <1>3, <1>5, <1>6 DEF ControlTypes, DataTypes, timer, lists
<1>9. task_switches_postponed_flag = 0
  BY <1>1, <1>2 DEF Control, PostponeClean, ControlTypes
<1>10. /\ pc[w] \in {"start", "unlock_tail", "slept", "body"}
       /\ pc[w] = "unlock_tail" => after[w] \in YieldAfter
       /\ pc[w] = "slept" => arg[w] % Wrap <= ticks_since_boot
  BY <1>7 DEF Waits, Due
<1>11. pc'[current_task_PCB'] = pc[w] /\ after'[current_task_PCB'] = after[w]
  BY <1>7, <1>8
<1>12. Region' \in YieldAfter \cup {"start", "slept"}
  BY <1>10, <1>11 DEF Region, InSchedule, ScheduleBody, YieldAfter
<1>13. ~Dozing' /\ ~Dying' /\ ~Linked' /\ ~Popped'
  BY <1>10, <1>11, <1>12 DEF Dozing, Dying, Linked, Popped, ScheduleBody, YieldAfter, Region, InSchedule
<1>14. Runs'
  <2>1. RunState' = {TASK_STATE_RUNNING}
    BY <1>10, <1>11, <1>13 DEF RunState
  <2>2. state'[current_task_PCB'] = TASK_STATE_RUNNING
    BY <1>8
  <2>3. \A t \in TCB : arg'[t] <= MaxTicks
    BY <1>8 DEF Runs
  <2>4. pc[w] = "slept" => Due(current_task_PCB)'
    BY <1>8, <1>10 DEF Due
  <2> QED
    BY <1>8, <1>9, <1>10, <1>11, <2>1, <2>2, <2>3, <2>4 DEF Runs, InSchedule, ScheduleBody
<1>15. /\ IsList(first_ready_to_run_task, rq, next) /\ IsList(sleeping_taskes, sq, next)
       /\ IsList(dead_tasks, dq, next)
       /\ Elems(rq) \subseteq TCB /\ Elems(sq) \subseteq TCB /\ Elems(dq) \subseteq TCB
  BY OnLists
<1>16. Lists(rq, sq, dq)'
  <2>1. /\ IsList(first_ready_to_run_task, rq, next)' /\ IsList(sleeping_taskes, sq, next)'
        /\ IsList(dead_tasks, dq, next)'
    BY <1>8, <1>15 DEF IsList
  <2>2. /\ Elems(rq) \cap Elems(sq) = {} /\ Elems(rq) \cap Elems(dq) = {} /\ Elems(sq) \cap Elems(dq) = {}
        /\ Len(rq) # 0 => last_ready_to_run_task = rq[Len(rq)]
        /\ Len(rq) = 0 => last_ready_to_run_task = NULL
    BY <1>2 DEF Lists
  <2>3. Cursor(sq)'
    BY <1>8 DEF Cursor
  <2> QED
    BY <1>8, <2>1, <2>2, <2>3 DEF Lists, Elems
\* The task that leaves.
<1>17. Region = ret[c] /\ ret[c] \in {"unlock_tail", "slept", "body", "abort"}
  <2>1. ret[c] # "unlock" /\ ret[c] \in ReturnPlace
    BY <1>1, <1>2, <1>6 DEF Control, BodyControl, ScheduleBody, ControlTypes
  <2> QED
    BY <1>2, <1>6, <2>1 DEF Region, InSchedule, ScheduleBody, ReturnPlace
<1>18. /\ c \in Elems(sq) <=> ret[c] = "slept"
       /\ c \in Elems(dq) <=> ret[c] = "abort"
       /\ c \in Elems(rq) <=> ret[c] \in {"unlock_tail", "body"}
  <2>1. /\ Dozing <=> ret[c] = "slept"
        /\ Dying <=> ret[c] = "abort"
        /\ Linked <=> ret[c] \in {"unlock_tail", "body"}
    BY <1>2, <1>17 DEF Dozing, Dying, Linked
  <2> QED
    BY <1>6, <2>1 DEF Places
<1>19. /\ ret[c] = "slept" => state[c] = TASK_STATE_SLEEPING
       /\ ret[c] = "abort" => state[c] \in {TASK_STATE_DEAD, TASK_STATE_TERMINATED}
       /\ ret[c] \in {"unlock_tail", "body"} => state[c] = TASK_STATE_READY_TO_RUN
       /\ ret[c] = "unlock_tail" => after[c] \in YieldAfter
  BY <1>2, <1>6, <1>17 DEF Runs, RunState, Dozing, Dying, InSchedule, ScheduleBody
<1>20. Places(rq, sq, dq)'
  <2>1. ASSUME NEW t \in Elems(rq), t # w PROVE Waits(t)'
    <3>1. t \in TCB
      BY <1>15
    <3>2. CASE t = c
      BY <1>8, <1>7, <1>18, <1>19, <2>1, <3>2 DEF Waits
    <3>3. CASE t # c
      <4>1. Waits(t)
        BY <1>6, <3>3 DEF Places
      <4> QED
        BY <1>8, <2>1, <3>1, <3>3, <4>1, WaitsSame
    <3> QED
      BY <3>2, <3>3
  <2>2. \A t \in Elems(sq) : /\ target_wakeup_time'[t] = arg'[t] % Wrap
                             /\ state'[t] = TASK_STATE_SLEEPING /\ pc'[t] = "slept"
    <3> SUFFICES ASSUME NEW t \in Elems(sq)
                 PROVE  /\ target_wakeup_time'[t] = arg'[t] % Wrap
                        /\ state'[t] = TASK_STATE_SLEEPING /\ pc'[t] = "slept"
      OBVIOUS
    <3>1. t \in TCB /\ t # w /\ target_wakeup_time[t] = arg[t] % Wrap
      BY <1>7, <1>15 DEF Places
    <3>2. CASE t = c
      BY <1>8, <1>18, <1>19, <3>1, <3>2
    <3>3. CASE t # c
      BY <1>6, <1>8, <3>1, <3>3 DEF Places
    <3> QED
      BY <3>2, <3>3
  <2>3. \A t \in Elems(dq) : state'[t] \in {TASK_STATE_DEAD, TASK_STATE_TERMINATED} /\ pc'[t] = "abort"
    <3> SUFFICES ASSUME NEW t \in Elems(dq)
                 PROVE  state'[t] \in {TASK_STATE_DEAD, TASK_STATE_TERMINATED} /\ pc'[t] = "abort"
      OBVIOUS
    <3>1. t \in TCB /\ t # w
      BY <1>7, <1>15
    <3>2. CASE t = c
      BY <1>8, <1>18, <1>19, <3>1, <3>2
    <3>3. CASE t # c
      BY <1>6, <1>8, <3>1, <3>3 DEF Places
    <3> QED
      BY <3>2, <3>3
  <2>4. \A t \in TCB : \/ pc'[t] = "free" \/ t = w \/ t \in Elems(rq) \cup Elems(sq) \cup Elems(dq)
    <3> SUFFICES ASSUME NEW t \in TCB
                 PROVE  \/ pc'[t] = "free" \/ t = w \/ t \in Elems(rq) \cup Elems(sq) \cup Elems(dq)
      OBVIOUS
    <3>1. CASE t = c
      BY <1>17, <1>18, <3>1
    <3>2. CASE t # c
      BY <1>5, <1>6, <1>8, <3>2 DEF Places
    <3> QED
      BY <3>1, <3>2
  <2> QED
    BY <1>7, <1>8, <1>13, <2>1, <2>2, <2>3, <2>4 DEF Places, Elems
<1>21. \E x \in TCB, y \in TCB :
         /\ x = current_task_PCB /\ y = next_task /\ current_task_PCB' = y /\ y # x
         /\ y \notin Elems(rq) \cup Elems(sq) \cup Elems(dq) /\ Popped /\ ~Popped'
         /\ ret[x] \in {"unlock_tail", "slept", "body", "abort"}
         /\ x \in Elems(sq) <=> ret[x] = "slept"
         /\ x \in Elems(dq) <=> ret[x] = "abort"
         /\ x \in Elems(rq) <=> ret[x] \in {"unlock_tail", "body"}
  <2> WITNESS c \in TCB, w \in TCB
  <2> QED
    BY <1>4, <1>5, <1>6, <1>7, <1>8, <1>13, <1>17, <1>18
<1> QED
  BY <1>14, <1>16, <1>20, <1>21

\* micro_sleep_until puts the running task on the sleeping list.
LEMMA SleepPlaced ==
  ASSUME IInv, Runs, NEW rq, NEW sq, NEW dq, Lists(rq, sq, dq), Places(rq, sq, dq), micro_sleep_until
  PROVE  /\ Runs'
         /\ \E c \in TCB : /\ c = current_task_PCB
                         /\ Lists(rq, <<c>> \o sq, dq)' /\ Places(rq, <<c>> \o sq, dq)'
<1>1. ControlTypes /\ DataTypes /\ Control /\ current_task_PCB \in TCB
  BY DEF IInv, ControlTypes
<1>2. /\ UNCHANGED <<current_task_PCB, first_ready_to_run_task, last_ready_to_run_task, dead_tasks,
                     state, arg, ret, ticks_since_boot, timer, next_task, task_switches_postponed_flag>>
      /\ pc[current_task_PCB] = "micro_sleep_until"
      /\ pc' = [pc EXCEPT ![current_task_PCB] = "unlock"]
      /\ after' = [after EXCEPT ![current_task_PCB] = "block_sleeping"]
      /\ target_wakeup_time' = [target_wakeup_time EXCEPT ![current_task_PCB] =
                                   arg[current_task_PCB] % Wrap]
      /\ next' = [next EXCEPT ![current_task_PCB] = sleeping_taskes]
      /\ sleeping_taskes' = current_task_PCB /\ irq = "none"
  BY DEF micro_sleep_until, LockUntil, Running, TaskFrame, locals, clock, Goto
<1>3. PICK c \in TCB : c = current_task_PCB
  BY <1>1
<1>4. /\ pc'[c] = "unlock" /\ after'[c] = "block_sleeping" /\ current_task_PCB' = c /\ irq' = "none"
      /\ target_wakeup_time'[c] = arg[c] % Wrap /\ next'[c] = sleeping_taskes
      /\ \A t \in TCB : t # c =>
            /\ pc'[t] = pc[t] /\ after'[t] = after[t] /\ next'[t] = next[t]
            /\ target_wakeup_time'[t] = target_wakeup_time[t]
      /\ ret' = ret /\ state' = state /\ arg' = arg /\ ticks_since_boot' = ticks_since_boot
      /\ task_switches_postponed_flag' = task_switches_postponed_flag
  BY <1>1, <1>2, <1>3 DEF ControlTypes, DataTypes, timer
<1>5. Region = "micro_sleep_until" /\ Region' = "block_sleeping"
  BY <1>2, <1>3, <1>4 DEF Region, InSchedule, ScheduleBody
<1>6. ~Dozing /\ Dozing' /\ ~Dying /\ ~Dying' /\ ~Linked /\ ~Linked' /\ ~Popped /\ ~Popped'
  BY <1>2, <1>3, <1>4, <1>5 DEF Dozing, Dying, Linked, Popped, ScheduleBody
<1>7. Runs'
  <2>1. state[c] = TASK_STATE_RUNNING /\ RunState' = {TASK_STATE_RUNNING}
    BY <1>2, <1>3, <1>4, <1>5, <1>6 DEF Runs, RunState
  <2>2. task_switches_postponed_flag = 0
    BY <1>1, <1>2 DEF Control, PostponeClean, ControlTypes
  <2>3. \A t \in TCB : arg'[t] <= MaxTicks
    BY <1>4 DEF Runs
  <2> QED
    BY <1>4, <2>1, <2>2, <2>3 DEF Runs, InSchedule, ScheduleBody
<1>8. /\ IsList(first_ready_to_run_task, rq, next) /\ IsList(sleeping_taskes, sq, next)
      /\ IsList(dead_tasks, dq, next)
      /\ Elems(rq) \subseteq TCB /\ Elems(sq) \subseteq TCB /\ Elems(dq) \subseteq TCB
  BY OnLists
<1>9. c \notin Elems(rq) /\ c \notin Elems(sq) /\ c \notin Elems(dq)
  BY <1>3, <1>6 DEF Places
<1> DEFINE p == <<c>> \o sq
<1>10. IsList(c, p, next') /\ Elems(p) = {c} \cup Elems(sq)
  <2>1. next'[c] = sleeping_taskes /\ \A u \in Elems(sq) : next'[u] = next[u]
    BY <1>4, <1>8, <1>9
  <2> QED
    BY <1>8, <1>9, <2>1, ListPush
<1>11. IsList(first_ready_to_run_task, rq, next') /\ IsList(dead_tasks, dq, next')
  <2>1. \A u \in Elems(rq) \cup Elems(dq) : next'[u] = next[u]
    BY <1>4, <1>8, <1>9
  <2> QED
    BY <1>8, <2>1, ListSame
<1> HIDE DEF p
<1>12. Lists(rq, p, dq)'
  <2>1. /\ IsList(first_ready_to_run_task, rq, next)' /\ IsList(sleeping_taskes, p, next)'
        /\ IsList(dead_tasks, dq, next)'
    BY <1>2, <1>3, <1>10, <1>11 DEF IsList
  <2>2. Elems(rq) \cap Elems(p) = {} /\ Elems(rq) \cap Elems(dq) = {} /\ Elems(p) \cap Elems(dq) = {}
    BY <1>9, <1>10 DEF Lists
  <2>3. /\ Len(rq) # 0 => last_ready_to_run_task' = rq[Len(rq)]
        /\ Len(rq) = 0 => last_ready_to_run_task' = NULL
    BY <1>2 DEF Lists
  <2>4. Cursor(p)'
    BY <1>4 DEF Cursor
  <2> QED
    BY <2>1, <2>2, <2>3, <2>4 DEF Lists, Elems
<1>13. Places(rq, p, dq)'
  <2>1. \A t \in Elems(rq) : Waits(t)'
    <3> SUFFICES ASSUME NEW t \in Elems(rq) PROVE Waits(t)'
      OBVIOUS
    <3>1. t \in TCB /\ t # c /\ Waits(t)
      BY <1>3, <1>8, <1>9 DEF Places
    <3> QED
      BY <1>4, <3>1, WaitsSame
  <2>2. \A t \in Elems(p) : /\ target_wakeup_time'[t] = arg'[t] % Wrap
                            /\ t # c => state'[t] = TASK_STATE_SLEEPING /\ pc'[t] = "slept"
    <3> SUFFICES ASSUME NEW t \in Elems(p)
                 PROVE  /\ target_wakeup_time'[t] = arg'[t] % Wrap
                        /\ t # c => state'[t] = TASK_STATE_SLEEPING /\ pc'[t] = "slept"
      OBVIOUS
    <3>1. CASE t = c
      BY <1>4, <3>1
    <3>2. CASE t # c
      <4>1. t \in Elems(sq) /\ t \in TCB
        BY <1>8, <1>10, <3>2
      <4> QED
        BY <1>3, <1>4, <3>2, <4>1 DEF Places
    <3> QED
      BY <3>1, <3>2
  <2>3. \A t \in Elems(dq) : state'[t] \in {TASK_STATE_DEAD, TASK_STATE_TERMINATED} /\ pc'[t] = "abort"
    BY <1>3, <1>4, <1>8, <1>9 DEF Places
  <2>4. \A t \in TCB : \/ pc'[t] = "free" \/ t = c \/ t \in Elems(rq) \cup Elems(p) \cup Elems(dq)
    BY <1>3, <1>4, <1>6, <1>10 DEF Places
  <2> QED
    BY <1>4, <1>6, <1>9, <1>10, <2>1, <2>2, <2>3, <2>4 DEF Places, Elems
<1> QED
  BY <1>7, <1>12, <1>13, <1>3 DEF p

\* terminate_task and mark_task_for_death put the running task on the dead list.
LEMMA DeathPlaced ==
  ASSUME IInv, Runs, NEW rq, NEW sq, NEW dq, Lists(rq, sq, dq), Places(rq, sq, dq),
         terminate_task \/ mark_task_for_death
  PROVE  /\ Runs'
         /\ \E c \in TCB : /\ c = current_task_PCB
                         /\ Lists(rq, sq, <<c>> \o dq)' /\ Places(rq, sq, <<c>> \o dq)'
<1>1. ControlTypes /\ DataTypes /\ Control /\ current_task_PCB \in TCB
  BY DEF IInv, ControlTypes
<1>2. /\ UNCHANGED <<current_task_PCB, first_ready_to_run_task, last_ready_to_run_task, sleeping_taskes,
                     target_wakeup_time, arg, ret, ticks_since_boot, timer, next_task,
                     task_switches_postponed_flag>>
      /\ pc[current_task_PCB] \in {"terminate", "death"}
      /\ pc' = [pc EXCEPT ![current_task_PCB] = "unlock"]
      /\ \/ /\ after' = [after EXCEPT ![current_task_PCB] = "block_terminated"]
            /\ state' = state
         \/ /\ after' = [after EXCEPT ![current_task_PCB] = "blocked_for_good"]
            /\ state' = [state EXCEPT ![current_task_PCB] = TASK_STATE_DEAD]
      /\ next' = [next EXCEPT ![current_task_PCB] = dead_tasks]
      /\ dead_tasks' = current_task_PCB /\ irq = "none"
  BY DEF terminate_task, mark_task_for_death, LockUntil, Running, TaskFrame, locals, clock, fields, Goto
<1>3. PICK c \in TCB : c = current_task_PCB
  BY <1>1
<1>4. /\ pc'[c] = "unlock" /\ current_task_PCB' = c /\ irq' = "none"
      /\ \/ after'[c] = "block_terminated" /\ state'[c] = state[c]
         \/ after'[c] = "blocked_for_good" /\ state'[c] = TASK_STATE_DEAD
      /\ next'[c] = dead_tasks
      /\ \A t \in TCB : t # c =>
            /\ pc'[t] = pc[t] /\ after'[t] = after[t] /\ next'[t] = next[t] /\ state'[t] = state[t]
      /\ ret' = ret /\ arg' = arg /\ ticks_since_boot' = ticks_since_boot
      /\ target_wakeup_time' = target_wakeup_time
      /\ task_switches_postponed_flag' = task_switches_postponed_flag
  BY <1>1, <1>2, <1>3 DEF ControlTypes, DataTypes, timer
<1>5. Region \in {"terminate", "death"} /\ Region' = after'[c]
  BY <1>2, <1>3, <1>4 DEF Region, InSchedule, ScheduleBody
<1>6. ~Dozing /\ ~Dozing' /\ ~Dying /\ Dying' /\ ~Linked /\ ~Linked' /\ ~Popped /\ ~Popped'
  BY <1>2, <1>3, <1>4, <1>5 DEF Dozing, Dying, Linked, Popped, ScheduleBody
<1>7. Runs'
  <2>1. state[c] = TASK_STATE_RUNNING
    BY <1>2, <1>3, <1>6 DEF Runs, RunState
  <2>2. state'[c] \in RunState'
    BY <1>4, <1>5, <1>6, <2>1 DEF RunState
  <2>3. task_switches_postponed_flag = 0
    BY <1>1, <1>2 DEF Control, PostponeClean, ControlTypes
  <2>4. \A t \in TCB : arg'[t] <= MaxTicks
    BY <1>4 DEF Runs
  <2> QED
    BY <1>4, <2>2, <2>3, <2>4 DEF Runs, InSchedule, ScheduleBody
<1>8. /\ IsList(first_ready_to_run_task, rq, next) /\ IsList(sleeping_taskes, sq, next)
      /\ IsList(dead_tasks, dq, next)
      /\ Elems(rq) \subseteq TCB /\ Elems(sq) \subseteq TCB /\ Elems(dq) \subseteq TCB
  BY OnLists
<1>9. c \notin Elems(rq) /\ c \notin Elems(sq) /\ c \notin Elems(dq)
  BY <1>3, <1>6 DEF Places
<1> DEFINE p == <<c>> \o dq
<1>10. IsList(c, p, next') /\ Elems(p) = {c} \cup Elems(dq)
  <2>1. next'[c] = dead_tasks /\ \A u \in Elems(dq) : next'[u] = next[u]
    BY <1>4, <1>8, <1>9
  <2> QED
    BY <1>8, <1>9, <2>1, ListPush
<1>11. IsList(first_ready_to_run_task, rq, next') /\ IsList(sleeping_taskes, sq, next')
  <2>1. \A u \in Elems(rq) \cup Elems(sq) : next'[u] = next[u]
    BY <1>4, <1>8, <1>9
  <2> QED
    BY <1>8, <2>1, ListSame
<1> HIDE DEF p
<1>12. Lists(rq, sq, p)'
  <2>1. /\ IsList(first_ready_to_run_task, rq, next)' /\ IsList(sleeping_taskes, sq, next)'
        /\ IsList(dead_tasks, p, next)'
    BY <1>2, <1>3, <1>10, <1>11 DEF IsList
  <2>2. Elems(rq) \cap Elems(sq) = {} /\ Elems(rq) \cap Elems(p) = {} /\ Elems(sq) \cap Elems(p) = {}
    BY <1>9, <1>10 DEF Lists
  <2>3. /\ Len(rq) # 0 => last_ready_to_run_task' = rq[Len(rq)]
        /\ Len(rq) = 0 => last_ready_to_run_task' = NULL
    BY <1>2 DEF Lists
  <2>4. Cursor(sq)'
    BY <1>4 DEF Cursor
  <2> QED
    BY <2>1, <2>2, <2>3, <2>4 DEF Lists, Elems
<1>13. Places(rq, sq, p)'
  <2>1. \A t \in Elems(rq) : Waits(t)'
    <3> SUFFICES ASSUME NEW t \in Elems(rq) PROVE Waits(t)'
      OBVIOUS
    <3>1. t \in TCB /\ t # c /\ Waits(t)
      BY <1>3, <1>8, <1>9 DEF Places
    <3> QED
      BY <1>4, <3>1, WaitsSame
  <2>2. \A t \in Elems(sq) : /\ target_wakeup_time'[t] = arg'[t] % Wrap
                             /\ state'[t] = TASK_STATE_SLEEPING /\ pc'[t] = "slept"
    BY <1>3, <1>4, <1>8, <1>9 DEF Places
  <2>3. \A t \in Elems(p) : t # c =>
           state'[t] \in {TASK_STATE_DEAD, TASK_STATE_TERMINATED} /\ pc'[t] = "abort"
    BY <1>3, <1>4, <1>8, <1>10 DEF Places
  <2>4. \A t \in TCB : \/ pc'[t] = "free" \/ t = c \/ t \in Elems(rq) \cup Elems(sq) \cup Elems(p)
    BY <1>3, <1>4, <1>6, <1>10 DEF Places
  <2> QED
    BY <1>4, <1>6, <1>9, <1>10, <2>1, <2>2, <2>3, <2>4 DEF Places, Elems
<1> QED
  BY <1>7, <1>12, <1>13, <1>3 DEF p

\* create_kernel_task appends a block that is on no list.
LEMMA CreatePlaced ==
  ASSUME IInv, Runs, NEW rq, NEW sq, NEW dq, Lists(rq, sq, dq), Places(rq, sq, dq), create_kernel_task
  PROVE  /\ Runs'
         /\ \E t \in TCB : /\ t # current_task_PCB /\ t \notin Elems(rq) \cup Elems(sq) \cup Elems(dq)
                         /\ Lists(Append(rq, t), sq, dq)' /\ Places(Append(rq, t), sq, dq)'
<1>1. ControlTypes /\ DataTypes /\ Control /\ current_task_PCB \in TCB
  BY DEF IInv, ControlTypes
<1>2. PICK t \in TCB :
          /\ pc[t] = "free"
          /\ Enqueue(t, [next EXCEPT ![t] = NULL])
          /\ state' = [state EXCEPT ![t] = TASK_STATE_READY_TO_RUN]
          /\ target_wakeup_time' = [target_wakeup_time EXCEPT ![t] = 0]
          /\ pc' = [pc EXCEPT ![t] = "start", ![current_task_PCB] = "unlock"]
          /\ after' = [after EXCEPT ![current_task_PCB] = "created"]
          /\ task_switches_postponed_flag' = task_switches_postponed_flag
  BY DEF create_kernel_task, LockUntil
<1>3. /\ pc[current_task_PCB] = "create" /\ irq = "none"
      /\ UNCHANGED <<current_task_PCB, sleeping_taskes, dead_tasks, arg, ret, ticks_since_boot, timer,
                     next_task>>
  BY DEF create_kernel_task, Running, MainFrame, clock
<1>4. PICK c \in TCB : c = current_task_PCB
  BY <1>1
<1>5. /\ t # c /\ pc'[t] = "start" /\ pc'[c] = "unlock" /\ after'[c] = "created"
      /\ current_task_PCB' = c /\ irq' = "none" /\ state'[t] = TASK_STATE_READY_TO_RUN
      /\ state'[c] = state[c]
      /\ \A u \in TCB : u # c /\ u # t =>
            /\ pc'[u] = pc[u] /\ after'[u] = after[u] /\ state'[u] = state[u]
            /\ target_wakeup_time'[u] = target_wakeup_time[u]
      /\ ret' = ret /\ arg' = arg /\ ticks_since_boot' = ticks_since_boot
      /\ task_switches_postponed_flag' = task_switches_postponed_flag
  BY <1>1, <1>2, <1>3, <1>4 DEF ControlTypes, DataTypes, timer
<1>6. Region = "create" /\ Region' = "created"
  BY <1>3, <1>4, <1>5 DEF Region, InSchedule, ScheduleBody
<1>7. ~Dozing /\ ~Dozing' /\ ~Dying /\ ~Dying' /\ ~Linked /\ ~Linked' /\ ~Popped /\ ~Popped'
  BY <1>3, <1>4, <1>5, <1>6 DEF Dozing, Dying, Linked, Popped, ScheduleBody
<1>8. Runs'
  <2>1. state[c] = TASK_STATE_RUNNING /\ RunState' = {TASK_STATE_RUNNING}
    BY <1>3, <1>4, <1>5, <1>7 DEF Runs, RunState
  <2>2. task_switches_postponed_flag = 0
    BY <1>1, <1>3 DEF Control, PostponeClean, ControlTypes
  <2>3. \A u \in TCB : arg'[u] <= MaxTicks
    BY <1>5 DEF Runs
  <2> QED
    BY <1>5, <2>1, <2>2, <2>3 DEF Runs, InSchedule, ScheduleBody
<1>9. /\ IsList(first_ready_to_run_task, rq, next) /\ IsList(sleeping_taskes, sq, next)
      /\ IsList(dead_tasks, dq, next)
      /\ Elems(rq) \subseteq TCB /\ Elems(sq) \subseteq TCB /\ Elems(dq) \subseteq TCB
      /\ Len(rq) # 0 => last_ready_to_run_task = rq[Len(rq)] /\ last_ready_to_run_task \in Elems(rq)
      /\ first_ready_to_run_task = NULL <=> Len(rq) = 0
  BY OnLists
<1>10. /\ c \notin Elems(rq) /\ c \notin Elems(sq) /\ c \notin Elems(dq)
       /\ t \notin Elems(rq) /\ t \notin Elems(sq) /\ t \notin Elems(dq)
  <2>1. c \notin Elems(rq) /\ c \notin Elems(sq) /\ c \notin Elems(dq)
    BY <1>4, <1>7 DEF Places
  <2> QED
    BY <1>2, <1>4, <2>1 DEF Places, Waits
<1>11. Elems(rq) \cap Elems(sq) = {} /\ Elems(rq) \cap Elems(dq) = {} /\ Elems(sq) \cap Elems(dq) = {}
  BY DEF Lists
<1>12. /\ next'[t] = NULL
       /\ \A u \in Elems(rq) : next'[u] = IF u = rq[Len(rq)] THEN t ELSE next[u]
       /\ \A u \in Elems(sq) \cup Elems(dq) : next'[u] = next[u]
       /\ first_ready_to_run_task' = IF first_ready_to_run_task = NULL THEN t
                                     ELSE first_ready_to_run_task
       /\ last_ready_to_run_task' = t
  <2>1. /\ next \in [TCB -> Ptr]
        /\ first_ready_to_run_task' = IF first_ready_to_run_task = NULL THEN t
                                      ELSE first_ready_to_run_task
        /\ last_ready_to_run_task' = t
        /\ next' = [x \in TCB |-> CASE x = last_ready_to_run_task
                                       /\ first_ready_to_run_task # NULL -> t
                                    [] OTHER -> [next EXCEPT ![t] = NULL][x]]
    BY <1>1, <1>2 DEF DataTypes, Enqueue
  <2>2. \A x \in TCB : next'[x] = IF x = last_ready_to_run_task /\ first_ready_to_run_task # NULL THEN t
                                  ELSE IF x = t THEN NULL ELSE next[x]
    BY <2>1
  <2>3. CASE Len(rq) = 0
    <3>1. Elems(rq) = {} /\ first_ready_to_run_task = NULL
      BY <1>9, <2>3 DEF Elems
    <3> QED
      BY <1>9, <1>10, <2>1, <2>2, <3>1
  <2>4. CASE Len(rq) # 0
    <3>1. /\ first_ready_to_run_task # NULL /\ last_ready_to_run_task = rq[Len(rq)]
          /\ last_ready_to_run_task \in Elems(rq)
      BY <1>9, <2>4
    <3> QED
      BY <1>9, <1>10, <1>11, <2>1, <2>2, <3>1
  <2> QED
    BY <2>3, <2>4
<1> DEFINE p == Append(rq, t)
<1>13. /\ IsList(IF first_ready_to_run_task = NULL THEN t ELSE first_ready_to_run_task, p, next')
       /\ Elems(p) = Elems(rq) \cup {t} /\ Len(p) # 0 /\ p[Len(p)] = t
  BY <1>9, <1>10, <1>12, ListAppend
<1>14. IsList(sleeping_taskes, sq, next') /\ IsList(dead_tasks, dq, next')
  BY <1>9, <1>12, ListSame
<1> HIDE DEF p
<1>15. Lists(p, sq, dq)'
  <2>1. /\ IsList(first_ready_to_run_task, p, next)' /\ IsList(sleeping_taskes, sq, next)'
        /\ IsList(dead_tasks, dq, next)'
    BY <1>3, <1>12, <1>13, <1>14 DEF IsList
  <2>2. Elems(p) \cap Elems(sq) = {} /\ Elems(p) \cap Elems(dq) = {} /\ Elems(sq) \cap Elems(dq) = {}
    BY <1>10, <1>11, <1>13
  <2>3. last_ready_to_run_task' = p[Len(p)] /\ Len(p) # 0
    BY <1>12, <1>13
  <2>4. Cursor(sq)'
    BY <1>5 DEF Cursor
  <2> QED
    BY <2>1, <2>2, <2>3, <2>4 DEF Lists, Elems
<1>16. Places(p, sq, dq)'
  <2>1. \A u \in Elems(p) : Waits(u)'
    <3> SUFFICES ASSUME NEW u \in Elems(p) PROVE Waits(u)'
      OBVIOUS
    <3>1. CASE u = t
      BY <1>5, <3>1 DEF Waits
    <3>2. CASE u # t
      <4>1. u \in Elems(rq) /\ u \in TCB /\ u # c
        BY <1>9, <1>10, <1>13, <3>2
      <4>2. Waits(u)
        BY <1>4, <4>1 DEF Places
      <4> QED
        BY <1>5, <3>2, <4>1, <4>2, WaitsSame
    <3> QED
      BY <3>1, <3>2
  <2>2. \A u \in Elems(sq) : /\ target_wakeup_time'[u] = arg'[u] % Wrap
                             /\ state'[u] = TASK_STATE_SLEEPING /\ pc'[u] = "slept"
    <3> SUFFICES ASSUME NEW u \in Elems(sq)
                 PROVE  /\ target_wakeup_time'[u] = arg'[u] % Wrap
                        /\ state'[u] = TASK_STATE_SLEEPING /\ pc'[u] = "slept"
      OBVIOUS
    <3>1. u \in TCB /\ u # c /\ u # t
      BY <1>9, <1>10
    <3> QED
      BY <1>4, <1>5, <3>1 DEF Places
  <2>3. \A u \in Elems(dq) : state'[u] \in {TASK_STATE_DEAD, TASK_STATE_TERMINATED} /\ pc'[u] = "abort"
    <3> SUFFICES ASSUME NEW u \in Elems(dq)
                 PROVE  state'[u] \in {TASK_STATE_DEAD, TASK_STATE_TERMINATED} /\ pc'[u] = "abort"
      OBVIOUS
    <3>1. u \in TCB /\ u # c /\ u # t
      BY <1>9, <1>10
    <3> QED
      BY <1>4, <1>5, <3>1 DEF Places
  <2>4. \A u \in TCB : \/ pc'[u] = "free" \/ u = c \/ u \in Elems(p) \cup Elems(sq) \cup Elems(dq)
    BY <1>4, <1>5, <1>7, <1>13 DEF Places
  <2>5. c \notin Elems(p)
    BY <1>5, <1>10, <1>13
  <2> QED
    BY <1>5, <1>7, <1>10, <2>1, <2>2, <2>3, <2>4, <2>5 DEF Places, Elems
<1> QED
  BY <1>8, <1>15, <1>16, <1>4, <1>5, <1>10 DEF p

\* The handler takes a sleeper whose time has come from the middle of the sleeping
\* list to the end of the ready list, and its cursors stay neighbours.
LEMMA UnblockPlaced ==
  ASSUME IInv, Runs, NEW rq, NEW sq, NEW dq, Lists(rq, sq, dq), Places(rq, sq, dq), unblock_task
  PROVE  /\ Runs'
         /\ \E i \in 1..Len(sq), t \in TCB :
               /\ t = sq[i] /\ t # current_task_PCB /\ t \in Elems(sq) /\ current_task_PCB' = current_task_PCB
               /\ ~Popped /\ ~Popped' /\ current_task_PCB \notin Elems(rq)
               /\ Elems(Without(sq, i)) = Elems(sq) \ {t}
               /\ Lists(Append(rq, t), Without(sq, i), dq)'
               /\ Places(Append(rq, t), Without(sq, i), dq)'
<1>1. ControlTypes /\ DataTypes /\ Control /\ current_task_PCB \in TCB
  BY DEF IInv, ControlTypes
<1>2. /\ irq = "timer" /\ curr # NULL /\ target_wakeup_time[curr] <= ticks_since_boot
      /\ sleeping_taskes' = IF prev = NULL THEN next[curr] ELSE sleeping_taskes
      /\ state' = [state EXCEPT ![curr] = TASK_STATE_READY_TO_RUN]
      /\ Enqueue(curr, [Unlink EXCEPT ![curr] = NULL])
      /\ curr' = next[curr] /\ prev' = prev /\ irq' = irq
      /\ current_task_PCB' = current_task_PCB /\ dead_tasks' = dead_tasks
      /\ target_wakeup_time' = target_wakeup_time /\ ticks_since_boot' = ticks_since_boot
      /\ pc' = pc /\ ret' = ret /\ after' = after /\ arg' = arg /\ next_task' = next_task
      /\ task_switches_postponed_flag' = task_switches_postponed_flag
  BY DEF unblock_task, IrqFrame, locals, locks
<1>3. PICK c \in TCB : c = current_task_PCB
  BY <1>1
<1>4. pc[c] \notin Critical
  BY <1>1, <1>2, <1>3 DEF Control, ScheduleUninterrupted
<1>5. Region = pc[c] /\ Region' = pc[c]
  BY <1>2, <1>3, <1>4 DEF Region, Critical, InSchedule
<1>6. ~Dozing /\ ~Dozing' /\ ~Dying /\ ~Dying' /\ ~Linked /\ ~Linked' /\ ~Popped /\ ~Popped'
  <2>1. pc[c] # "abort"
    BY <1>3 DEF Runs
  <2> QED
    BY <1>2, <1>3, <1>4, <1>5, <2>1 DEF Dozing, Dying, Linked, Popped, ScheduleBody, Critical
<1>7. /\ IsList(first_ready_to_run_task, rq, next) /\ IsList(sleeping_taskes, sq, next)
      /\ IsList(dead_tasks, dq, next)
      /\ Elems(rq) \subseteq TCB /\ Elems(sq) \subseteq TCB /\ Elems(dq) \subseteq TCB
      /\ Len(rq) # 0 => last_ready_to_run_task = rq[Len(rq)] /\ last_ready_to_run_task \in Elems(rq)
      /\ first_ready_to_run_task = NULL <=> Len(rq) = 0
  BY OnLists
<1>8. c \notin Elems(rq) /\ c \notin Elems(sq) /\ c \notin Elems(dq)
  BY <1>3, <1>6 DEF Places
<1>9. Elems(rq) \cap Elems(sq) = {} /\ Elems(rq) \cap Elems(dq) = {} /\ Elems(sq) \cap Elems(dq) = {}
  BY DEF Lists
<1>10. PICK i \in 1..(Len(sq) + 1) : curr = Nth(sq, i) /\ prev = Nth(sq, i - 1)
  BY <1>2 DEF Lists, Cursor
<1>11. sq \in Seq(TCB) /\ Len(sq) \in Nat
  BY <1>7 DEF IsList
<1>12. i \in 1..Len(sq) /\ curr = sq[i] /\ curr \in Elems(sq)
  BY <1>2, <1>10 DEF Nth, Elems
<1>13. PICK t \in TCB : t = sq[i] /\ t = curr /\ t \in Elems(sq) /\ t # c
                         /\ t \notin Elems(rq) /\ t \notin Elems(dq)
  BY <1>7, <1>8, <1>9, <1>12
<1>14. IF i = 1 THEN prev = NULL
       ELSE prev = sq[i - 1] /\ i - 1 \in 1..Len(sq) /\ prev \in Elems(sq) /\ prev # t /\ prev # NULL
  <2>1. CASE i = 1
    <3>1. i - 1 \notin 1..Len(sq)
      BY <2>1
    <3> QED
      BY <1>10, <2>1, <3>1 DEF Nth
  <2>2. CASE i # 1
    <3>1. i - 1 \in 1..Len(sq) /\ i - 1 # i
      BY <1>11, <1>12, <2>2
    <3>2. prev = sq[i - 1] /\ prev \in Elems(sq)
      BY <1>10, <3>1 DEF Nth, Elems
    <3>3. sq[i - 1] # sq[i]
      BY <1>7, <1>12, <3>1 DEF IsList
    <3> QED
      BY <1>7, <1>13, <2>2, <3>1, <3>2, <3>3, TCBAssumption
  <2> QED
    BY <2>1, <2>2
\* The pointers after the step.
<1>15. /\ next'[t] = NULL
       /\ \A u \in Elems(rq) : next'[u] = IF u = rq[Len(rq)] THEN t ELSE next[u]
       /\ \A u \in Elems(dq) : next'[u] = next[u]
       /\ \A u \in Elems(sq) : u # t /\ ~(i # 1 /\ u = sq[i - 1]) => next'[u] = next[u]
       /\ i # 1 => next'[sq[i - 1]] = next[sq[i]]
       /\ first_ready_to_run_task' = IF first_ready_to_run_task = NULL THEN t
                                     ELSE first_ready_to_run_task
       /\ last_ready_to_run_task' = t
  <2>0. next \in [TCB -> Ptr]
    BY <1>1 DEF DataTypes
  <2>1. /\ first_ready_to_run_task' = IF first_ready_to_run_task = NULL THEN t
                                      ELSE first_ready_to_run_task
        /\ last_ready_to_run_task' = t
        /\ next' = [x \in TCB |-> CASE x = last_ready_to_run_task
                                       /\ first_ready_to_run_task # NULL -> t
                                    [] OTHER -> [Unlink EXCEPT ![t] = NULL][x]]
    BY <1>2, <1>13 DEF Enqueue
  <2>2. Unlink = IF prev = NULL THEN next ELSE [next EXCEPT ![prev] = next[t]]
    BY <1>13 DEF Unlink
  <2>3. \A x \in TCB : Unlink[x] = IF prev # NULL /\ x = prev THEN next[t] ELSE next[x]
    BY <2>0, <2>2
  <2>4. DOMAIN Unlink = TCB
    BY <2>0, <2>2
  <2>5. \A x \in TCB : [Unlink EXCEPT ![t] = NULL][x] = IF x = t THEN NULL ELSE Unlink[x]
    BY <2>4
  <2>6. \A x \in TCB : next'[x] = IF x = last_ready_to_run_task /\ first_ready_to_run_task # NULL THEN t
                                  ELSE IF x = t THEN NULL
                                  ELSE IF prev # NULL /\ x = prev THEN next[t] ELSE next[x]
    BY <2>1, <2>3, <2>5
  <2>7. prev # NULL => i # 1 /\ prev = sq[i - 1] /\ prev \in Elems(sq) /\ prev \in TCB /\ prev # t
    BY <1>7, <1>14
  <2>8. first_ready_to_run_task # NULL =>
           last_ready_to_run_task = rq[Len(rq)] /\ last_ready_to_run_task \in Elems(rq)
    BY <1>7
  <2>9. first_ready_to_run_task = NULL => Elems(rq) = {}
    BY <1>7 DEF Elems
  <2>10. next'[t] = NULL
    BY <1>13, <2>6, <2>8
  <2>11. \A u \in Elems(rq) : next'[u] = IF u = rq[Len(rq)] THEN t ELSE next[u]
    BY <1>7, <1>9, <1>13, <2>6, <2>7, <2>8, <2>9
  <2>12. \A u \in Elems(dq) : next'[u] = next[u]
    BY <1>7, <1>9, <1>13, <2>6, <2>7, <2>8
  <2>13. \A u \in Elems(sq) : u # t /\ ~(i # 1 /\ u = sq[i - 1]) => next'[u] = next[u]
    BY <1>7, <1>9, <2>6, <2>7, <2>8
  <2>14. i # 1 => next'[sq[i - 1]] = next[sq[i]]
    BY <1>7, <1>9, <1>13, <1>14, <2>6, <2>8
  <2> QED
    BY <2>1, <2>10, <2>11, <2>12, <2>13, <2>14
<1> DEFINE p == Append(rq, t)
           q == Without(sq, i)
<1>16. /\ IsList(IF first_ready_to_run_task = NULL THEN t ELSE first_ready_to_run_task, p, next')
       /\ Elems(p) = Elems(rq) \cup {t} /\ Len(p) # 0 /\ p[Len(p)] = t
  BY <1>7, <1>13, <1>15, ListAppend
<1>17. /\ IsList(IF i = 1 THEN next[sq[i]] ELSE sleeping_taskes, q, next')
       /\ Elems(q) = Elems(sq) \ {sq[i]} /\ Len(q) = Len(sq) - 1
       /\ Nth(q, i) = Nth(sq, i + 1) /\ Nth(q, i - 1) = Nth(sq, i - 1)
  <2>1. /\ \A u \in Elems(sq) : u # sq[i] /\ ~(i # 1 /\ u = sq[i - 1]) => next'[u] = next[u]
        /\ i # 1 => next'[sq[i - 1]] = next[sq[i]]
    BY <1>13, <1>15
  <2>2. IsList(sleeping_taskes, sq, next) /\ i \in 1..Len(sq)
    BY <1>7, <1>12
  <2>3. IsList(IF i = 1 THEN next[sq[i]] ELSE sleeping_taskes, Without(sq, i), next')
    BY <2>1, <2>2, ListRemove
  <2>4. Elems(Without(sq, i)) = Elems(sq) \ {sq[i]} /\ Len(Without(sq, i)) = Len(sq) - 1
    BY <2>1, <2>2, ListRemove
  <2>5. Nth(Without(sq, i), i) = Nth(sq, i + 1) /\ Nth(Without(sq, i), i - 1) = Nth(sq, i - 1)
    BY <2>1, <2>2, ListRemove
  <2> QED
    BY <2>3, <2>4, <2>5
<1>18. IsList(dead_tasks, dq, next')
  BY <1>7, <1>15, ListSame
<1> HIDE DEF p, q
<1>19. Lists(p, q, dq)'
  <2>0. sleeping_taskes' = IF i = 1 THEN next[sq[i]] ELSE sleeping_taskes
    BY <1>2, <1>13, <1>14
  <2>1. /\ IsList(first_ready_to_run_task, p, next)' /\ IsList(sleeping_taskes, q, next)'
        /\ IsList(dead_tasks, dq, next)'
    BY <1>2, <1>15, <1>16, <1>17, <1>18, <2>0 DEF IsList
  <2>2. Elems(p) \cap Elems(q) = {} /\ Elems(p) \cap Elems(dq) = {} /\ Elems(q) \cap Elems(dq) = {}
    BY <1>9, <1>13, <1>16, <1>17
  <2>3. last_ready_to_run_task' = p[Len(p)] /\ Len(p) # 0
    BY <1>15, <1>16
  <2>4. Cursor(q)'
    <3>0. next[sq[i]] = Nth(sq, i + 1)
      <4>1. i + 1 \in 1..Len(sq) <=> i # Len(sq)
        BY <1>11, <1>12
      <4> QED
        BY <1>7, <1>12, <4>1 DEF IsList, Nth
    <3>1. curr' = Nth(q, i) /\ prev' = Nth(q, i - 1)
      BY <1>2, <1>10, <1>13, <1>17, <3>0
    <3>2. i \in 1..(Len(q) + 1)
      BY <1>11, <1>12, <1>17
    <3> QED
      BY <3>1, <3>2 DEF Cursor, Nth
  <2> QED
    BY <2>1, <2>2, <2>3, <2>4 DEF Lists, Elems
<1>20. state'[t] = TASK_STATE_READY_TO_RUN /\ \A u \in TCB : u # t => state'[u] = state[u]
  BY <1>1, <1>2, <1>13 DEF DataTypes
<1>21. Runs'
  <2>1. pc[c] \notin InSchedule \cup {"unlock", "unlock_tail", "slept", "link", "switch"}
    BY <1>4 DEF Critical, InSchedule, ScheduleBody
  <2>2. state'[c] = state[c] /\ RunState' = RunState
    BY <1>2, <1>3, <1>5, <1>6, <1>13, <1>20 DEF RunState
  <2> QED
    BY <1>2, <1>3, <2>1, <2>2 DEF Runs
<1>22. Places(p, q, dq)'
  <2>1. \A u \in Elems(p) : Waits(u)'
    <3> SUFFICES ASSUME NEW u \in Elems(p) PROVE Waits(u)'
      OBVIOUS
    <3>1. CASE u = t
      <4>1. pc[t] = "slept" /\ target_wakeup_time[t] = arg[t] % Wrap
        BY <1>3, <1>13 DEF Places
      <4>2. arg[t] % Wrap <= ticks_since_boot
        BY <1>2, <1>13, <4>1
      <4> QED
        BY <1>2, <1>20, <3>1, <4>1, <4>2 DEF Waits, Due
    <3>2. CASE u # t
      <4>1. u \in Elems(rq) /\ u \in TCB /\ u # c
        BY <1>7, <1>8, <1>16, <3>2
      <4>2. Waits(u)
        BY <1>3, <4>1 DEF Places
      <4> QED
        BY <1>2, <1>20, <3>2, <4>1, <4>2, WaitsSame
    <3> QED
      BY <3>1, <3>2
  <2>2. \A u \in Elems(q) : /\ target_wakeup_time'[u] = arg'[u] % Wrap
                            /\ state'[u] = TASK_STATE_SLEEPING /\ pc'[u] = "slept"
    <3> SUFFICES ASSUME NEW u \in Elems(q)
                 PROVE  /\ target_wakeup_time'[u] = arg'[u] % Wrap
                        /\ state'[u] = TASK_STATE_SLEEPING /\ pc'[u] = "slept"
      OBVIOUS
    <3>1. u \in Elems(sq) /\ u \in TCB /\ u # c /\ u # t
      BY <1>7, <1>8, <1>13, <1>17
    <3> QED
      BY <1>2, <1>3, <1>20, <3>1 DEF Places
  <2>3. \A u \in Elems(dq) : state'[u] \in {TASK_STATE_DEAD, TASK_STATE_TERMINATED} /\ pc'[u] = "abort"
    <3> SUFFICES ASSUME NEW u \in Elems(dq)
                 PROVE  state'[u] \in {TASK_STATE_DEAD, TASK_STATE_TERMINATED} /\ pc'[u] = "abort"
      OBVIOUS
    <3>1. u \in TCB /\ u # c /\ u # t
      BY <1>7, <1>8, <1>13
    <3> QED
      BY <1>2, <1>3, <1>20, <3>1 DEF Places
  <2>4. \A u \in TCB : \/ pc'[u] = "free" \/ u = c \/ u \in Elems(p) \cup Elems(q) \cup Elems(dq)
    BY <1>2, <1>3, <1>6, <1>13, <1>16, <1>17 DEF Places
  <2>5. c \notin Elems(p) /\ c \notin Elems(q)
    BY <1>8, <1>13, <1>16, <1>17
  <2>6. current_task_PCB' = c
    BY <1>2, <1>3
  <2> QED
    BY <1>6, <1>8, <2>1, <2>2, <2>3, <2>4, <2>5, <2>6 DEF Places, Elems
<1> QED
  BY <1>2, <1>3, <1>6, <1>8, <1>12, <1>13, <1>17, <1>19, <1>21, <1>22 DEF p, q

(***************************************************************************)
(* The invariant of the lists                                              *)
(***************************************************************************)
LInv == Runs /\ Placed

\* A step that moves no task keeps the lists.
LEMMA QuietPlaced ==
  ASSUME IInv, NEW rq, NEW sq, NEW dq, Lists(rq, sq, dq), Places(rq, sq, dq), Quiet, Cursor(sq)'
  PROVE  Placed'
<1>1. ControlTypes /\ DataTypes
  BY DEF IInv
<1>2. Lists(rq, sq, dq)'
  BY QuietLists
<1>3. Places(rq, sq, dq)'
  BY <1>1, QuietPlaces
<1> QED
  BY <1>2, <1>3 DEF Placed

\* The cursors stay where they are.
LEMMA CursorSame ==
  ASSUME NEW rq, NEW sq, NEW dq, Lists(rq, sq, dq), UNCHANGED timer
  PROVE  Cursor(sq)'
BY DEF Lists, Cursor, timer, Nth

\* The steps that move a task from one place to another, those of
\* dead_tasks_cleanup aside.
MovesTask ==
    \/ schedule_pop \/ schedule_drain \/ schedule_link \/ switch_to_task
    \/ micro_sleep_until \/ terminate_task \/ mark_task_for_death
    \/ create_kernel_task \/ unblock_task

\* Every other step outside dead_tasks_cleanup is quiet.
LEMMA NextKinds ==
  ASSUME Ordinary, IInv, Runs, NEW rq, NEW sq, NEW dq, Lists(rq, sq, dq), Places(rq, sq, dq),
         [Next]_vars
  PROVE  MovesTask \/ (Quiet /\ Runs' /\ Cursor(sq)')
<1>1. ControlTypes /\ Control
  BY DEF IInv
<1>2. UNCHANGED timer => Cursor(sq)'
  BY CursorSame
<1>3. CASE unlock_scheduler \/ unlock_tail
  BY <1>2, <1>3, UnlockQuiet
<1>4. CASE Schedule
  BY <1>2, <1>4, EnterQuiet, RequeueQuiet DEF Schedule, MovesTask
<1>5. CASE Task
  BY <1>2, <1>5, TaskQuiet, LockQuiet, BlockQuiet, LeaveQuiet DEF Task, MovesTask
<1>6. CASE kernel_main
  <2>1. ~dead_tasks_cleanup /\ ~free_task /\ ~cleanup_done
    BY DEF Ordinary
  <2> QED
    BY <1>2, <1>6, <2>1, LockQuiet, MainQuiet DEF kernel_main, MovesTask
<1>7. CASE irq_0_handler \/ still_sleeping \/ irq_0_return \/ irq_1_handler
  BY <1>7, TimerQuiet, CursorStep
<1>8. CASE abort_loop \/ UNCHANGED vars
  <2>1. /\ UNCHANGED <<current_task_PCB, lists, state, target_wakeup_time, next_task, ticks_since_boot,
                       pc, after, ret, arg, task_switches_postponed_flag>>
        /\ UNCHANGED timer
    BY <1>8 DEF abort_loop, vars, fields, locks, clock, locals
  <2> QED
    BY <1>2, <2>1, SameQuiet
<1> QED
  BY <1>3, <1>4, <1>5, <1>6, <1>7, <1>8 DEF Next, CPU, Timer, MovesTask

\* Every step outside dead_tasks_cleanup preserves the invariant of the lists.
LEMMA NextLInv ==
  ASSUME Ordinary, IInv, LInv, [Next]_vars
  PROVE  LInv'
<1>1. Runs
  BY DEF LInv
<1>2. PICK rq, sq, dq : Lists(rq, sq, dq) /\ Places(rq, sq, dq)
  BY DEF LInv, Placed
<1>3. MovesTask \/ (Quiet /\ Runs' /\ Cursor(sq)')
  BY <1>1, <1>2, NextKinds
<1>4. CASE Quiet /\ Runs' /\ Cursor(sq)'
  BY <1>2, <1>4, QuietPlaced DEF LInv
<1>5. CASE schedule_pop
  BY <1>1, <1>2, <1>5, PopPlaced DEF LInv, Placed
<1>6. CASE schedule_drain
  BY <1>1, <1>2, <1>6, DrainPlaced DEF LInv, Placed
<1>7. CASE schedule_link
  BY <1>1, <1>2, <1>7, LinkPlaced DEF LInv, Placed
<1>8. CASE switch_to_task
  BY <1>1, <1>2, <1>8, SwitchPlaced DEF LInv, Placed
<1>9. CASE micro_sleep_until
  BY <1>1, <1>2, <1>9, SleepPlaced DEF LInv, Placed
<1>10. CASE terminate_task \/ mark_task_for_death
  BY <1>1, <1>2, <1>10, DeathPlaced DEF LInv, Placed
<1>11. CASE create_kernel_task
  BY <1>1, <1>2, <1>11, CreatePlaced DEF LInv, Placed
<1>12. CASE unblock_task
  BY <1>1, <1>2, <1>12, UnblockPlaced DEF LInv, Placed
<1> QED
  BY <1>3, <1>4, <1>5, <1>6, <1>7, <1>8, <1>9, <1>10, <1>11, <1>12 DEF MovesTask

\* At boot only kernel_main exists.
LEMMA InitLInv ==
  ASSUME Init
  PROVE  LInv
<1>1. /\ current_task_PCB = Main /\ Main \in TCB /\ pc[Main] = "test_all"
      /\ first_ready_to_run_task = NULL /\ last_ready_to_run_task = NULL
      /\ sleeping_taskes = NULL /\ dead_tasks = NULL /\ irq = "none"
      /\ state[Main] = TASK_STATE_RUNNING /\ task_switches_postponed_flag = 0
      /\ \A t \in TCB : arg[t] = 0 /\ (t # Main => pc[t] = "free")
  BY TCBAssumption DEF Init, multitasking_initialize
<1>2. Region = "test_all"
  BY <1>1 DEF Region, InSchedule, ScheduleBody
<1>3. ~Dozing /\ ~Dying /\ ~Linked /\ ~Popped
  BY <1>1, <1>2 DEF Dozing, Dying, Linked, Popped, ScheduleBody
<1>4. Runs
  <2>1. RunState = {TASK_STATE_RUNNING}
    BY <1>1, <1>3 DEF RunState
  <2>2. \A t \in TCB : arg[t] <= MaxTicks
    <3>1. MaxTicks \in Nat
      BY ClockAssumption
    <3> QED
      BY <1>1, <3>1
  <2> QED
    BY <1>1, <2>1, <2>2 DEF Runs, InSchedule, ScheduleBody
<1> DEFINE e == << >>
<1>5. e \in Seq(TCB) /\ Len(e) = 0 /\ Elems(e) = {}
  BY DEF Elems
<1> HIDE DEF e
<1>6. IsList(NULL, e, next)
  BY <1>5 DEF IsList
<1>7. Lists(e, e, e)
  BY <1>1, <1>5, <1>6 DEF Lists, Cursor
<1>8. Places(e, e, e)
  BY <1>1, <1>3, <1>5 DEF Places
<1> QED
  BY <1>4, <1>7, <1>8 DEF LInv, Placed

Inside == unlock_scheduler \/ unlock_tail \/ Schedule \/ Task

\* A step of a task's own code, or inside schedule and unlock_scheduler, changes
\* nothing of another task and nothing of kernel_main's loops.
LEMMA InsideFrame ==
  ASSUME IInv, Inside
  PROVE  /\ UNCHANGED <<func, phase, watched, wi, node, panic>>
         /\ panic = "none" /\ irq = "none"
         /\ \A t \in TCB : t # current_task_PCB =>
               pc'[t] = pc[t] /\ after'[t] = after[t] /\ ret'[t] = ret[t]
<1>1. ControlTypes /\ current_task_PCB \in TCB
  BY DEF IInv, ControlTypes
<1>2. CASE unlock_scheduler \/ unlock_tail
  BY <1>1, <1>2 DEF unlock_scheduler, unlock_tail, main, locals, Goto, CallSchedule, Running, ControlTypes
<1>3. CASE Schedule
  BY <1>1, <1>3 DEF Schedule, schedule_enter, schedule_pop, schedule_drain, schedule_charge,
       schedule_requeue, schedule_link, switch_to_task, main, locals, ScheduleFrame, Goto, Running,
       ControlTypes
<1>4. CASE task_start_up \/ yield \/ long_task \/ micro_sleep \/ Slept
  BY <1>1, <1>4 DEF task_start_up, yield, long_task, micro_sleep, Slept, main, locals, TaskFrame, Goto,
       Running, CallSchedule, ControlTypes
<1>5. CASE \/ micro_sleep_until \/ terminate_task \/ mark_task_for_death
  BY <1>1, <1>5 DEF micro_sleep_until, terminate_task, mark_task_for_death, main, locals, TaskFrame, Goto,
       Running, LockUntil, ControlTypes
<1>6. CASE \/ block_task("block_sleeping", TASK_STATE_SLEEPING, "blocked_sleeping")
           \/ block_task("block_terminated", TASK_STATE_TERMINATED, "blocked_for_good")
           \/ BlockedSchedule("blocked_sleeping", "slept")
           \/ BlockedSchedule("blocked_for_good", "abort")
  BY <1>1, <1>6 DEF block_task, BlockedSchedule, CallSchedule, main, locals, TaskFrame, Goto,
       Running, LockUntil, ControlTypes
<1> QED
  BY <1>2, <1>3, <1>4, <1>5, <1>6 DEF Inside, Task

\* kernel_main inside schedule and unlock_scheduler.
LEMMA MainInside ==
  ASSUME IInv, Inside, current_task_PCB = Main
  PROVE  /\ after' = after
         /\ \/ /\ pc[Main] = "unlock" /\ pc'[Main] \in {"unlock_tail", "schedule"}
               /\ pc'[Main] = "schedule" => task_switches_postponed_flag # 0
               /\ task_switches_postponed_flag' # 0 => task_switches_postponed_flag # 0
            \/ /\ pc[Main] = "unlock_tail" /\ pc'[Main] = after[Main]
               /\ task_switches_postponed_flag' = 0
            \/ /\ pc[Main] \in InSchedule \cup {"yield"}
               /\ pc'[Main] \in InSchedule \cup {"unlock", "unlock_tail"}
<1>1. ControlTypes /\ Control /\ Main \in TCB
  BY TCBAssumption DEF IInv
<1>2. ret[Main] \in {"unlock", "unlock_tail"}
  BY <1>1 DEF Control, MainControl
<1>3. pc[Main] \notin TaskLocation
  BY <1>1, WhoRuns
<1>4. CASE unlock_scheduler
  BY <1>1, <1>4 DEF unlock_scheduler, Running, Goto, CallSchedule, ControlTypes
<1>5. CASE unlock_tail
  <2>1. /\ pc[Main] = "unlock_tail" /\ pc'[Main] = after[Main] /\ after' = after
        /\ task_switches_postponed_flag' = task_switches_postponed_flag
    BY <1>1, <1>5 DEF unlock_tail, Running, Goto, ControlTypes
  <2>2. task_switches_postponed_flag = 0
    BY <1>1, <2>1 DEF Control, PostponeClean
  <2> QED
    BY <2>1, <2>2
<1>6. CASE Schedule
  BY <1>1, <1>2, <1>6 DEF Schedule, schedule_enter, schedule_pop, schedule_drain, schedule_charge,
       schedule_requeue, schedule_link, switch_to_task, ScheduleFrame, Goto, Running, ControlTypes,
       InSchedule, ScheduleBody
<1>7. CASE yield
  BY <1>1, <1>7 DEF yield, Running, Goto, CallSchedule, ControlTypes, InSchedule
<1>8. ~(Task /\ ~yield)
  BY <1>3 DEF Task, task_start_up, long_task, micro_sleep, micro_sleep_until, block_task,
       BlockedSchedule, Slept, terminate_task, mark_task_for_death, Running, TaskLocation
<1> QED
  BY <1>4, <1>5, <1>6, <1>7, <1>8 DEF Inside

(***************************************************************************)
(* dead_tasks_cleanup frees the blocks of a list that still leads to them  *)
(***************************************************************************)
\* kernel_main is on no list; the dead tasks in front of node have been freed, and
\* node and those behind it have not.
Reaping(rq, sq, dq) ==
    /\ current_task_PCB = Main
    /\ Main \notin Elems(rq) \cup Elems(sq) \cup Elems(dq)
    /\ \A t \in Elems(rq) : Waits(t)
    /\ \A t \in Elems(sq) : /\ target_wakeup_time[t] = arg[t] % Wrap
                            /\ state[t] = TASK_STATE_SLEEPING /\ pc[t] = "slept"
    /\ \A t \in Elems(dq) : state[t] \in {TASK_STATE_DEAD, TASK_STATE_TERMINATED}
    /\ \E k \in 1..(Len(dq) + 1) :
          /\ node = Nth(dq, k)
          /\ \A j \in 1..Len(dq) : pc[dq[j]] = IF j < k THEN "free" ELSE "abort"
    /\ \A t \in TCB : pc[t] = "free" \/ t = Main \/ t \in Elems(rq) \cup Elems(sq) \cup Elems(dq)

Cleaning == \E rq, sq, dq : Lists(rq, sq, dq) /\ Reaping(rq, sq, dq)

\* The invariant of all states.
AInv == IInv /\ Runs /\ IF pc[Main] = "freeing" THEN Cleaning ELSE Placed

\* Who frees is kernel_main, and nothing can interrupt it.
LEMMA FreeingAlone ==
  ASSUME IInv, pc[Main] = "freeing", [Next]_vars
  PROVE  current_task_PCB = Main /\ irq = "none" /\ (free_task \/ cleanup_done \/ UNCHANGED vars)
<1>1. current_task_PCB = Main /\ irq = "none" /\ ~intr
  BY DEF IInv, Control, MainAway, ScheduleUninterrupted, Critical
<1>2. ~irq_0_handler /\ ~irq_1_handler /\ ~Timer
  BY <1>1 DEF irq_0_handler, irq_1_handler, Interruptible, Timer, unblock_task, still_sleeping,
     irq_0_return
<1>3. ~unlock_scheduler /\ ~unlock_tail /\ ~Schedule /\ ~Task
  BY <1>1 DEF unlock_scheduler, unlock_tail, Schedule, schedule_enter, schedule_pop, schedule_drain,
     schedule_charge, schedule_requeue, schedule_link, switch_to_task, Task, task_start_up, yield,
     long_task, micro_sleep, micro_sleep_until, block_task, BlockedSchedule, Slept, terminate_task,
     mark_task_for_death, Running
<1>4. kernel_main => free_task \/ cleanup_done
  BY <1>1 DEF kernel_main, test_all, create_kernel_task, create_out_of_memory, created, first_yield,
     loop_head, get_task_state, walk_ready, walk_sleeping, Walk, walk_dead, loop_body, hlt, test_exit,
     app_exit, dead_tasks_cleanup, Running
<1> QED
  BY <1>1, <1>2, <1>3, <1>4 DEF Next, CPU, abort_loop

\* Only dead_tasks_cleanup begins to free.
LEMMA NotFreeing ==
  ASSUME Ordinary, IInv, pc[Main] # "freeing", [Next]_vars
  PROVE  pc'[Main] # "freeing"
<1>1. ControlTypes /\ Control /\ Main \in TCB
  BY TCBAssumption DEF IInv
<1>2. CASE Inside
  <2>1. CASE current_task_PCB = Main
    <3>1. after[Main] # "freeing"
      BY <1>1 DEF Control, MainControl, MainAfter
    <3> QED
      BY <1>2, <2>1, <3>1, MainInside DEF InSchedule, ScheduleBody
  <2>2. CASE current_task_PCB # Main
    BY <1>1, <1>2, <2>2, InsideFrame
  <2> QED
    BY <2>1, <2>2
<1>3. CASE \/ test_all \/ created \/ first_yield \/ loop_head \/ loop_body \/ hlt
           \/ test_exit \/ app_exit
           \/ get_task_state \/ walk_ready \/ walk_sleeping \/ walk_dead
  <2>1. Idle \/ \E l : CalmMove(l)
    BY <1>1, <1>3, MainShape, WalkShape
  <2> QED
    BY <1>1, <2>1 DEF Idle, CalmMove, Moves, ControlTypes, Critical
<1>4. CASE create_kernel_task \/ create_out_of_memory
  BY <1>1, <1>4 DEF create_kernel_task, create_out_of_memory, Goto, ControlTypes
<1>5. CASE irq_0_handler \/ Timer \/ irq_1_handler \/ abort_loop \/ UNCHANGED vars
  BY <1>1, <1>5 DEF irq_0_handler, Timer, unblock_task, still_sleeping, irq_0_return, irq_1_handler,
     abort_loop, vars, Wake, ControlTypes
<1> QED
  BY <1>2, <1>3, <1>4, <1>5 DEF Ordinary, Next, CPU, kernel_main, Inside

\* dead_tasks_cleanup starts with the head of the dead list, of which all are dead.
LEMMA CleanupStarts ==
  ASSUME IInv, Runs, Placed, dead_tasks_cleanup
  PROVE  Runs' /\ Cleaning' /\ pc'[Main] = "freeing"
<1>1. ControlTypes /\ DataTypes /\ Control /\ Main \in TCB
  BY TCBAssumption DEF IInv
<1>2. current_task_PCB = Main /\ pc[Main] = "cleanup" /\ irq = "none"
  BY <1>1, WhoRuns DEF dead_tasks_cleanup, Running, MainLocation
<1>3. /\ UNCHANGED <<current_task_PCB, lists, state, target_wakeup_time, arg, next_task,
                     ticks_since_boot, timer, ret, task_switches_postponed_flag>>
      /\ pc' = [pc EXCEPT ![Main] = "freeing"] /\ after' = [after EXCEPT ![Main] = "idle"]
      /\ node' = dead_tasks
  BY <1>2 DEF dead_tasks_cleanup, LockUntil, Goto, MainFrame, fields, clock, locals
<1>4. /\ pc'[Main] = "freeing" /\ after'[Main] = "idle"
      /\ \A t \in TCB : t # Main => pc'[t] = pc[t] /\ after'[t] = after[t]
  BY <1>1, <1>3 DEF ControlTypes
<1>5. PICK rq, sq, dq : Lists(rq, sq, dq) /\ Places(rq, sq, dq)
  BY DEF Placed
<1>6. ~Dozing /\ ~Dying /\ ~Linked /\ ~Popped
  BY <1>2 DEF Dozing, Dying, Linked, Popped, Region, InSchedule, ScheduleBody
<1>7. /\ Elems(rq) \subseteq TCB /\ Elems(sq) \subseteq TCB /\ Elems(dq) \subseteq TCB
      /\ Main \notin Elems(rq) /\ Main \notin Elems(sq) /\ Main \notin Elems(dq)
  BY <1>2, <1>5, <1>6, OnLists DEF Places
<1>8. Lists(rq, sq, dq)'
  BY <1>2, <1>3, <1>4, <1>5 DEF Lists, lists, timer, Cursor
<1>9. Reaping(rq, sq, dq)'
  <2>1. \A t \in Elems(rq) : Waits(t)'
    BY <1>2, <1>3, <1>4, <1>5, <1>7, WaitsSame DEF Places
  <2>2. \A t \in Elems(sq) : /\ target_wakeup_time'[t] = arg'[t] % Wrap
                             /\ state'[t] = TASK_STATE_SLEEPING /\ pc'[t] = "slept"
    BY <1>2, <1>3, <1>4, <1>5, <1>7 DEF Places
  <2>3. \A t \in Elems(dq) : state'[t] \in {TASK_STATE_DEAD, TASK_STATE_TERMINATED} /\ pc'[t] = "abort"
    BY <1>2, <1>3, <1>4, <1>5, <1>7 DEF Places
  <2>4. IsList(dead_tasks, dq, next) /\ Len(dq) \in Nat
    BY <1>5, ListMembers DEF Lists
  <2>5. 1 \in 1..(Len(dq) + 1) /\ node' = Nth(dq, 1)
    BY <1>3, <2>4 DEF IsList, Nth
  <2>6. \A j \in 1..Len(dq) : pc'[dq[j]] = IF j < 1 THEN "free" ELSE "abort"
    BY <2>3, <2>4 DEF Elems
  <2>7. \A t \in TCB : pc'[t] = "free" \/ t = Main \/ t \in Elems(rq) \cup Elems(sq) \cup Elems(dq)
    BY <1>2, <1>4, <1>5, <1>6 DEF Places
  <2> QED
    BY <1>2, <1>3, <1>7, <2>1, <2>2, <2>3, <2>5, <2>6, <2>7 DEF Reaping
<1>10. Runs'
  <2>1. state[Main] = TASK_STATE_RUNNING
    BY <1>2, <1>6 DEF Runs, RunState
  <2>2. Region' = "freeing"
    BY <1>2, <1>3, <1>4 DEF Region, InSchedule, ScheduleBody
  <2>3. RunState' = {TASK_STATE_RUNNING}
    BY <1>2, <1>3, <1>4, <2>2 DEF RunState, Dozing, Dying
  <2> QED
    BY <1>2, <1>3, <1>4, <2>1, <2>3 DEF Runs, InSchedule, ScheduleBody, YieldAfter
<1> QED
  BY <1>4, <1>8, <1>9, <1>10 DEF Cleaning

\* free_task frees a dead task that was not freed before and goes on to the next.
LEMMA FreeReaps ==
  ASSUME IInv, Runs, Cleaning, pc[Main] = "freeing", free_task
  PROVE  Freeable /\ Runs' /\ Cleaning' /\ pc'[Main] = "freeing"
<1>1. ControlTypes /\ DataTypes /\ Control /\ Main \in TCB /\ NULL \notin TCB
  BY TCBAssumption DEF IInv
<1>2. PICK rq, sq, dq : Lists(rq, sq, dq) /\ Reaping(rq, sq, dq)
  BY DEF Cleaning
<1>3. PICK k \in 1..(Len(dq) + 1) :
          /\ node = Nth(dq, k)
          /\ \A j \in 1..Len(dq) : pc[dq[j]] = IF j < k THEN "free" ELSE "abort"
  BY <1>2 DEF Reaping
<1>4. /\ current_task_PCB = Main /\ irq = "none" /\ node # NULL
      /\ pc' = [pc EXCEPT ![node] = "free"] /\ node' = next[node]
      /\ UNCHANGED <<current_task_PCB, lists, state, target_wakeup_time, arg, after, ret, next_task,
                     ticks_since_boot, timer, task_switches_postponed_flag>>
  BY <1>2 DEF free_task, Reaping, Running, MainFrame, fields, clock, locals, locks
<1>5. /\ IsList(dead_tasks, dq, next) /\ Len(dq) \in Nat
      /\ Elems(rq) \subseteq TCB /\ Elems(sq) \subseteq TCB /\ Elems(dq) \subseteq TCB
      /\ Elems(rq) \cap Elems(dq) = {} /\ Elems(sq) \cap Elems(dq) = {}
  BY <1>2, OnLists, ListMembers DEF Lists
<1>6. k \in 1..Len(dq) /\ node = dq[k]
  BY <1>3, <1>4 DEF Nth
<1>7. node \in Elems(dq) /\ node \in TCB /\ pc[node] = "abort" /\ node # Main
  BY <1>2, <1>3, <1>5, <1>6 DEF Elems, Reaping
<1>8. \A t \in TCB : pc'[t] = IF t = node THEN "free" ELSE pc[t]
  BY <1>1, <1>4, <1>7 DEF ControlTypes
<1>9. pc'[Main] = "freeing"
  BY <1>1, <1>7, <1>8
<1>10. Lists(rq, sq, dq)'
  BY <1>2, <1>4, <1>9 DEF Lists, lists, timer, Cursor
<1>11. Reaping(rq, sq, dq)'
  <2>1. \A t \in Elems(rq) \cup Elems(sq) : t \in TCB /\ pc'[t] = pc[t]
    BY <1>5, <1>7, <1>8
  <2>2. \A t \in Elems(rq) : Waits(t)'
    BY <1>2, <1>4, <2>1, WaitsSame DEF Reaping
  <2>3. \A t \in Elems(sq) : /\ target_wakeup_time'[t] = arg'[t] % Wrap
                             /\ state'[t] = TASK_STATE_SLEEPING /\ pc'[t] = "slept"
    BY <1>2, <1>4, <2>1 DEF Reaping
  <2>4. \A t \in Elems(dq) : state'[t] \in {TASK_STATE_DEAD, TASK_STATE_TERMINATED}
    BY <1>2, <1>4 DEF Reaping
  <2>5. k + 1 \in 1..(Len(dq) + 1) /\ node' = Nth(dq, k + 1)
    <3>1. next[dq[k]] = IF k = Len(dq) THEN NULL ELSE dq[k + 1]
      BY <1>5, <1>6 DEF IsList
    <3>2. k + 1 \in 1..(Len(dq) + 1) /\ (k + 1 \in 1..Len(dq) <=> k # Len(dq))
      BY <1>5, <1>6
    <3> QED
      BY <1>4, <1>6, <3>1, <3>2 DEF Nth
  <2>6. \A j \in 1..Len(dq) : pc'[dq[j]] = IF j < k + 1 THEN "free" ELSE "abort"
    <3> SUFFICES ASSUME NEW j \in 1..Len(dq) PROVE pc'[dq[j]] = IF j < k + 1 THEN "free" ELSE "abort"
      OBVIOUS
    <3>1. dq[j] \in TCB /\ (dq[j] = node <=> j = k)
      BY <1>5, <1>6 DEF IsList, Elems
    <3>2. pc'[dq[j]] = IF j = k THEN "free" ELSE pc[dq[j]]
      BY <1>8, <3>1
    <3>3. j < k + 1 <=> j < k \/ j = k
      BY <1>5, <1>6
    <3> QED
      BY <1>3, <3>2, <3>3
  <2>7. \A t \in TCB : pc'[t] = "free" \/ t = Main \/ t \in Elems(rq) \cup Elems(sq) \cup Elems(dq)
    BY <1>2, <1>8 DEF Reaping
  <2> QED
    BY <1>2, <1>4, <2>2, <2>3, <2>4, <2>5, <2>6, <2>7 DEF Reaping
<1>12. Runs'
  BY <1>1, <1>4, <1>9 DEF Runs, RunState, Dozing, Dying, Region, InSchedule, ScheduleBody, lists
<1> QED
  BY <1>7, <1>9, <1>10, <1>11, <1>12 DEF Freeable, Cleaning

\* The end of dead_tasks_cleanup: all of the list is freed, and the list is empty.
LEMMA CleanupEnds ==
  ASSUME IInv, Runs, Cleaning, pc[Main] = "freeing", cleanup_done
  PROVE  Runs' /\ Placed' /\ pc'[Main] = "unlock"
<1>1. ControlTypes /\ DataTypes /\ Control /\ Main \in TCB /\ NULL \notin TCB
  BY TCBAssumption DEF IInv
<1>2. PICK rq, sq, dq : Lists(rq, sq, dq) /\ Reaping(rq, sq, dq)
  BY DEF Cleaning
<1>3. PICK k \in 1..(Len(dq) + 1) :
          /\ node = Nth(dq, k)
          /\ \A j \in 1..Len(dq) : pc[dq[j]] = IF j < k THEN "free" ELSE "abort"
  BY <1>2 DEF Reaping
<1>4. /\ current_task_PCB = Main /\ irq = "none" /\ node = NULL
      /\ pc' = [pc EXCEPT ![Main] = "unlock"] /\ dead_tasks' = NULL
      /\ UNCHANGED <<current_task_PCB, first_ready_to_run_task, last_ready_to_run_task,
                     sleeping_taskes, next, state, target_wakeup_time, arg, after, ret, next_task,
                     ticks_since_boot, timer, task_switches_postponed_flag>>
  BY <1>2 DEF cleanup_done, Reaping, Running, Goto, MainFrame, fields, clock, locals, locks
<1>5. /\ dq \in Seq(TCB) /\ Len(dq) \in Nat
      /\ Elems(rq) \subseteq TCB /\ Elems(sq) \subseteq TCB
  <2>1. IsList(dead_tasks, dq, next) /\ Elems(rq) \subseteq TCB /\ Elems(sq) \subseteq TCB
    BY <1>2, OnLists
  <2>2. dq \in Seq(TCB)
    BY <2>1 DEF IsList
  <2> QED
    BY <2>1, <2>2
<1>6. pc'[Main] = "unlock" /\ \A t \in TCB : t # Main => pc'[t] = pc[t]
  BY <1>1, <1>4 DEF ControlTypes
<1>7. \A t \in Elems(dq) : pc[t] = "free"
  <2>1. k \notin 1..Len(dq)
    BY <1>1, <1>3, <1>4, <1>5 DEF Nth
  <2>2. \A j \in 1..Len(dq) : j < k
    BY <1>5, <2>1
  <2> QED
    BY <1>3, <2>2 DEF Elems
<1>8. after[Main] \in YieldAfter /\ Region' = after[Main]
  BY <1>1, <1>4, <1>6 DEF Control, MainControl, MainAfter, YieldAfter, Region
<1>9. ~Dozing' /\ ~Dying' /\ ~Linked' /\ ~Popped'
  BY <1>4, <1>6, <1>8 DEF Dozing, Dying, Linked, Popped, YieldAfter, ScheduleBody
<1> DEFINE e == << >>
<1>10. e \in Seq(TCB) /\ Len(e) = 0 /\ Elems(e) = {}
  BY DEF Elems
<1> HIDE DEF e
<1>11. IsList(dead_tasks, e, next)'
  BY <1>4, <1>10 DEF IsList
<1>12. Lists(rq, sq, e)'
  <2>1. IsList(first_ready_to_run_task, rq, next)' /\ IsList(sleeping_taskes, sq, next)'
    BY <1>2, <1>4 DEF Lists, IsList
  <2>2. /\ Len(rq) # 0 => last_ready_to_run_task' = rq[Len(rq)]
        /\ Len(rq) = 0 => last_ready_to_run_task' = NULL
    BY <1>2, <1>4 DEF Lists
  <2>3. Cursor(sq)'
    BY <1>4 DEF Cursor, timer
  <2>4. Elems(rq) \cap Elems(sq) = {}
    BY <1>2 DEF Lists
  <2> QED
    BY <1>10, <1>11, <2>1, <2>2, <2>3, <2>4 DEF Lists, Elems
<1>13. Places(rq, sq, e)'
  <2>1. \A t \in Elems(rq) \cup Elems(sq) : t # Main /\ t \in TCB /\ pc'[t] = pc[t]
    BY <1>2, <1>5, <1>6 DEF Reaping
  <2>2. \A t \in Elems(rq) : Waits(t)'
    BY <1>2, <1>4, <2>1, WaitsSame DEF Reaping
  <2>3. \A t \in Elems(sq) : /\ target_wakeup_time'[t] = arg'[t] % Wrap
                             /\ state'[t] = TASK_STATE_SLEEPING /\ pc'[t] = "slept"
    BY <1>2, <1>4, <2>1 DEF Reaping
  <2>4. \A t \in TCB : pc'[t] = "free" \/ t = Main \/ t \in Elems(rq) \cup Elems(sq) \cup Elems(e)
    BY <1>2, <1>6, <1>7 DEF Reaping
  <2> QED
    BY <1>4, <1>9, <1>10, <2>1, <2>2, <2>3, <2>4 DEF Places, Elems
<1>14. Runs'
  <2>1. state[Main] = TASK_STATE_RUNNING
    BY <1>4 DEF Runs, RunState, Dozing, Dying, Region, InSchedule, ScheduleBody
  <2>2. RunState' = {TASK_STATE_RUNNING}
    BY <1>4, <1>6, <1>9 DEF RunState
  <2> QED
    BY <1>4, <1>6, <1>8, <2>1, <2>2 DEF Runs, InSchedule, ScheduleBody
<1> QED
  BY <1>6, <1>12, <1>13, <1>14 DEF Placed

\* Nothing happens.
LEMMA SameCleaning ==
  ASSUME Cleaning,
         UNCHANGED <<current_task_PCB, lists, state, target_wakeup_time, next_task, ticks_since_boot,
                     pc, after, ret, arg, task_switches_postponed_flag>>,
         UNCHANGED <<timer, node>>
  PROVE  Cleaning'
<1>1. PICK rq, sq, dq : Lists(rq, sq, dq) /\ Reaping(rq, sq, dq)
  BY DEF Cleaning
<1>2. Lists(rq, sq, dq)'
  BY <1>1 DEF Lists, lists, timer, Cursor
<1>3. \A t : Waits(t)' <=> Waits(t)
  BY DEF Waits, Due
<1>4. Reaping(rq, sq, dq)'
  BY <1>1, <1>3 DEF Reaping
<1> QED
  BY <1>2, <1>4 DEF Cleaning

\* Every step preserves the invariant.
LEMMA NextAInv ==
  ASSUME AInv, [Next]_vars
  PROVE  AInv'
<1>1. IInv /\ Runs
  BY DEF AInv
<1>2. CASE pc[Main] = "freeing"
  <2>1. Cleaning
    BY <1>2 DEF AInv
  <2>2. CASE free_task
    <3>1. Freeable /\ Runs' /\ Cleaning' /\ pc'[Main] = "freeing"
      BY <1>1, <1>2, <2>1, <2>2, FreeReaps
    <3>2. IInv'
      BY <1>1, <2>2, <3>1, FreeKeeps
    <3> QED
      BY <3>1, <3>2 DEF AInv
  <2>3. CASE cleanup_done
    <3>1. Runs' /\ Placed' /\ pc'[Main] = "unlock"
      BY <1>1, <1>2, <2>1, <2>3, CleanupEnds
    <3>2. IInv'
      BY <1>1, <2>3, CleanupUnlocks
    <3> QED
      BY <3>1, <3>2 DEF AInv
  <2>4. CASE ~free_task /\ ~cleanup_done
    <3>1. UNCHANGED vars /\ Ordinary
      BY <1>1, <1>2, <2>4, FreeingAlone DEF Ordinary, dead_tasks_cleanup, Running
    <3>2. /\ UNCHANGED <<current_task_PCB, lists, state, target_wakeup_time, next_task,
                         ticks_since_boot, pc, after, ret, arg, task_switches_postponed_flag>>
          /\ UNCHANGED <<timer, node>>
      BY <3>1 DEF vars, fields, clock, locals, locks, main
    <3>3. IInv'
      BY <1>1, <3>1, NextIInv
    <3>4. Runs' /\ Cleaning'
      BY <1>1, <2>1, <3>2, SameQuiet, SameCleaning
    <3> QED
      BY <1>2, <3>2, <3>3, <3>4 DEF AInv
  <2> QED
    BY <2>2, <2>3, <2>4
<1>3. CASE pc[Main] # "freeing"
  <2>1. LInv
    BY <1>1, <1>3 DEF AInv, LInv
  <2>2. CASE dead_tasks_cleanup
    <3>1. Runs' /\ Cleaning' /\ pc'[Main] = "freeing"
      BY <1>1, <2>1, <2>2, CleanupStarts DEF LInv
    <3>2. IInv'
      BY <1>1, <2>2, CleanupLocks
    <3> QED
      BY <3>1, <3>2 DEF AInv
  <2>3. CASE ~dead_tasks_cleanup
    <3>1. ControlTypes /\ Control
      BY <1>1 DEF IInv
    <3>2. Ordinary
      BY <1>3, <2>3, <3>1, WhoRuns DEF Ordinary, free_task, cleanup_done, Running, MainLocation
    <3>3. IInv' /\ LInv' /\ pc'[Main] # "freeing"
      BY <1>1, <1>3, <2>1, <3>2, NextIInv, NextLInv, NotFreeing
    <3> QED
      BY <3>3 DEF AInv, LInv
  <2> QED
    BY <2>2, <2>3
<1> QED
  BY <1>2, <1>3

\* The invariant holds in every reachable state.
THEOREM ListsInductive ==
  Spec => []AInv
<1>1. Init => AInv
  <2> SUFFICES ASSUME Init PROVE AInv
    OBVIOUS
  <2>1. pc[Main] = "test_all"
    BY TCBAssumption DEF Init
  <2> QED
    BY <2>1, InitIInv, InitLInv DEF AInv, LInv
<1>2. AInv /\ [Next]_vars => AInv'
  BY NextAInv
<1> QED
  BY <1>1, <1>2, PTL DEF Spec

\* Every variable keeps its type; in particular the two unsigned nesting counters
\* are never decremented below zero, in any interleaving of tasks and interrupts.
THEOREM TypeCorrect ==
  Spec => []TypeOK
<1>1. AInv => TypeOK
  BY IInvTypeOK DEF AInv
<1> QED
  BY <1>1, ListsInductive, PTL

\* The global IRQ_disable_counter always equals the number of locks that are open
\* over all tasks, the suspended ones included, plus the handler's.
THEOREM LockConservationHolds ==
  Spec => []LockConservation
<1>1. AInv => LockConservation
  BY DEF AInv, IInv
<1> QED
  BY <1>1, ListsInductive, PTL

\* The timer interrupt never runs inside schedule(), while a task is between two
\* lists or while dead_tasks_cleanup frees, although schedule() is called without
\* the lock.
THEOREM ScheduleUninterruptedHolds ==
  Spec => []ScheduleUninterrupted
<1>1. AInv => ScheduleUninterrupted
  BY DEF AInv, IInv, Control
<1> QED
  BY <1>1, ListsInductive, PTL

\* No suspended task keeps task switches postponed, and the interrupt handler
\* never finds a pending switch that it would carry out itself.
THEOREM PostponeCleanHolds ==
  Spec => []PostponeClean
<1>1. AInv => PostponeClean
  BY DEF AInv, IInv, Control
<1> QED
  BY <1>1, ListsInductive, PTL

(***************************************************************************)
(* What SchedulerLists reads off the lists                                 *)
(***************************************************************************)
\* s without the task c at its end.
Trim(s, c) == IF s # << >> /\ s[Len(s)] = c THEN SubSeq(s, 1, Len(s) - 1) ELSE s

\* The elements of a sequence, in the two ways they are written.
LEMMA ElemsToSet ==
  ASSUME NEW s, s \in Seq(TCB)
  PROVE  ToSet(s) = Elems(s)
BY DEF ToSet, Elems

\* Trim leaves a list without c alone.
LEMMA TrimOut ==
  ASSUME NEW s, s \in Seq(TCB), NEW c, c \notin Elems(s)
  PROVE  Trim(s, c) = s
<1>1. s # << >> => Len(s) \in 1..Len(s)
  OBVIOUS
<1>2. s # << >> => s[Len(s)] \in Elems(s)
  BY <1>1 DEF Elems
<1> QED
  BY <1>2 DEF Trim

\* Trim takes the last element away.
LEMMA TrimLast ==
  ASSUME NEW s, s \in Seq(TCB), NEW c \in TCB
  PROVE  Trim(Append(s, c), c) = s
<1> DEFINE p == Append(s, c)
<1>1. p \in Seq(TCB) /\ Len(p) = Len(s) + 1 /\ p[Len(p)] = c /\ Len(s) \in Nat
  OBVIOUS
<1>2. \A i \in 1..Len(s) : p[i] = s[i]
  OBVIOUS
<1>3. p # << >>
  BY <1>1
<1> HIDE DEF p
<1>4. SubSeq(p, 1, Len(p) - 1) = s
  <2>1. Len(p) - 1 = Len(s)
    BY <1>1
  <2>2. SubSeq(p, 1, Len(s)) = s
    BY <1>1, <1>2
  <2> QED
    BY <2>1, <2>2
<1> QED
  BY <1>1, <1>3, <1>4 DEF Trim, p

\* A list that has c at its end is its beginning and c.
LEMMA TrimAppend ==
  ASSUME NEW s, s \in Seq(TCB), NEW c \in TCB, Len(s) # 0, s[Len(s)] = c,
         \A i, j \in 1..Len(s) : s[i] = s[j] => i = j
  PROVE  /\ Trim(s, c) \in Seq(TCB) /\ s = Append(Trim(s, c), c)
         /\ Elems(Trim(s, c)) = Elems(s) \ {c}
         /\ \A i, j \in 1..Len(Trim(s, c)) : Trim(s, c)[i] = Trim(s, c)[j] => i = j
<1> DEFINE p == SubSeq(s, 1, Len(s) - 1)
<1>1. Len(s) \in Nat /\ Len(s) # 0 /\ Len(s) - 1 \in Nat
  OBVIOUS
<1>2. p \in Seq(TCB) /\ Len(p) = Len(s) - 1 /\ \A i \in 1..(Len(s) - 1) : p[i] = s[i]
  <2>1. 1 \in Int /\ Len(s) - 1 \in Int /\ \A i \in 1..(Len(s) - 1) : s[i] \in TCB
    BY <1>1
  <2>2. /\ p \in Seq(TCB) /\ Len(p) = IF 1 <= Len(s) - 1 THEN (Len(s) - 1) - 1 + 1 ELSE 0
        /\ \A i \in 1..((Len(s) - 1) - 1 + 1) : p[i] = s[1 + i - 1]
    BY <2>1, SubSeqProperties
  <2>3. (Len(s) - 1) - 1 + 1 = Len(s) - 1 /\ \A i \in 1..(Len(s) - 1) : 1 + i - 1 = i
    BY <1>1
  <2>4. (IF 1 <= Len(s) - 1 THEN (Len(s) - 1) - 1 + 1 ELSE 0) = Len(s) - 1
    BY <1>1
  <2> HIDE DEF p
  <2> QED
    BY <2>2, <2>3, <2>4
<1>3. Trim(s, c) = p
  BY DEF Trim
<1> HIDE DEF p
<1>4. s = Append(p, c)
  <2>1. Append(p, c) \in Seq(TCB) /\ Len(Append(p, c)) = Len(s)
    BY <1>1, <1>2
  <2>2. \A i \in 1..Len(s) : Append(p, c)[i] = s[i]
    BY <1>1, <1>2
  <2> QED
    BY <2>1, <2>2
<1>5. \A i, j \in 1..Len(p) : p[i] = p[j] => i = j
  BY <1>1, <1>2
<1>6. Elems(p) = Elems(s) \ {c}
  <2>1. \A i \in 1..Len(p) : i \in 1..Len(s) /\ i # Len(s) /\ Len(s) \in 1..Len(s) /\ p[i] = s[i]
    BY <1>1, <1>2
  <2>2. Elems(p) \subseteq Elems(s) \ {c}
    BY <2>1 DEF Elems
  <2>3. ASSUME NEW u \in Elems(s), u # c PROVE u \in Elems(p)
    <3>1. PICK i \in 1..Len(s) : u = s[i]
      BY DEF Elems
    <3>2. i # Len(s)
      BY <2>3, <3>1
    <3>3. i \in 1..Len(p) /\ p[i] = u
      BY <1>1, <1>2, <3>1, <3>2
    <3> QED
      BY <3>3 DEF Elems
  <2> QED
    BY <2>2, <2>3
<1> QED
  BY <1>2, <1>3, <1>4, <1>5, <1>6

\* What following the pointers meets.
LEMMA ListChains ==
  ASSUME NEW rq, NEW sq, NEW dq, Lists(rq, sq, dq)
  PROVE  /\ Chain(first_ready_to_run_task) = rq /\ Chain(sleeping_taskes) = sq /\ Chain(dead_tasks) = dq
         /\ WellFormed(first_ready_to_run_task) /\ WellFormed(sleeping_taskes)
         /\ WellFormed(dead_tasks)
         /\ Queued = Trim(rq, current_task_PCB)
         /\ Sleeping = Elems(sq) \ {current_task_PCB}
         /\ Gone = {t \in Elems(dq) \ {current_task_PCB} : pc[t] # "free"}
<1>1. /\ IsList(first_ready_to_run_task, rq, next) /\ IsList(sleeping_taskes, sq, next)
      /\ IsList(dead_tasks, dq, next)
      /\ rq \in Seq(TCB) /\ sq \in Seq(TCB) /\ dq \in Seq(TCB)
  BY DEF Lists, IsList
<1>2. /\ ChainIn(first_ready_to_run_task, next) = rq /\ ChainIn(sleeping_taskes, next) = sq
      /\ ChainIn(dead_tasks, next) = dq
      /\ FollowIn(first_ready_to_run_task, next)[Cardinality(TCB)] = NULL
      /\ FollowIn(sleeping_taskes, next)[Cardinality(TCB)] = NULL
      /\ FollowIn(dead_tasks, next)[Cardinality(TCB)] = NULL
  BY <1>1, ChainList
<1>3. \A h : Follow(h) = FollowIn(h, next) /\ Chain(h) = ChainIn(h, next)
  BY DEF Follow, FollowIn, Chain, ChainIn
<1>4. Chain(first_ready_to_run_task) = rq /\ Chain(sleeping_taskes) = sq /\ Chain(dead_tasks) = dq
  BY <1>2, <1>3
<1>5. WellFormed(first_ready_to_run_task) /\ WellFormed(sleeping_taskes) /\ WellFormed(dead_tasks)
  BY <1>2, <1>3 DEF WellFormed
<1>6. Queued = Trim(rq, current_task_PCB)
  BY <1>4 DEF Queued, Trim, Last, Front
<1>7. Sleeping = Elems(sq) \ {current_task_PCB}
  BY <1>1, <1>4, ElemsToSet DEF Sleeping
<1>8. Gone = {t \in Elems(dq) \ {current_task_PCB} : pc[t] # "free"}
  BY <1>1, <1>4, ElemsToSet DEF Gone
<1> QED
  BY <1>4, <1>5, <1>6, <1>7, <1>8

\* The views of the lists.
LEMMA Views ==
  ASSUME NEW rq, NEW sq, NEW dq, Lists(rq, sq, dq), Places(rq, sq, dq)
  PROVE  /\ Chain(first_ready_to_run_task) = rq /\ Chain(sleeping_taskes) = sq /\ Chain(dead_tasks) = dq
         /\ WellFormed(first_ready_to_run_task) /\ WellFormed(sleeping_taskes)
         /\ WellFormed(dead_tasks)
         /\ Ready = (IF Popped THEN <<next_task>> ELSE << >>) \o Trim(rq, current_task_PCB)
         /\ Sleeping = Elems(sq) \ {current_task_PCB}
         /\ Gone = Elems(dq) \ {current_task_PCB}
<1>1. \A t \in Elems(dq) \ {current_task_PCB} : pc[t] # "free"
  BY DEF Places
<1>2. Gone = Elems(dq) \ {current_task_PCB}
  BY <1>1, ListChains
<1> QED
  BY <1>2, ListChains DEF Ready

\* The ready tasks: no task twice, and who they are.
LEMMA ReadyTasks ==
  ASSUME NEW rq, NEW sq, NEW dq, Lists(rq, sq, dq), Places(rq, sq, dq), current_task_PCB \in TCB
  PROVE  /\ Trim(rq, current_task_PCB) \in Seq(TCB) /\ Ready \in Seq(TCB)
         /\ Elems(Trim(rq, current_task_PCB)) = Elems(rq) \ {current_task_PCB}
         /\ ToSet(Ready) = (IF Popped THEN {next_task} ELSE {}) \cup (Elems(rq) \ {current_task_PCB})
         /\ IsInjective(Ready)
<1> DEFINE T == Trim(rq, current_task_PCB)
<1>1. /\ rq \in Seq(TCB) /\ Len(rq) \in Nat
      /\ \A i, j \in 1..Len(rq) : rq[i] = rq[j] => i = j
  BY DEF Lists, IsList
<1>2. /\ T \in Seq(TCB) /\ Elems(T) = Elems(rq) \ {current_task_PCB}
      /\ \A i, j \in 1..Len(T) : T[i] = T[j] => i = j
  <2>1. CASE current_task_PCB \in Elems(rq)
    <3>1. rq[Len(rq)] = current_task_PCB
      BY <2>1 DEF Places
    <3>2. Len(rq) # 0
      BY <2>1 DEF Elems
    <3> QED
      BY <1>1, <3>1, <3>2, TrimAppend
  <2>2. CASE current_task_PCB \notin Elems(rq)
    <3>1. T = rq
      BY <1>1, <2>2, TrimOut
    <3> QED
      BY <1>1, <2>2, <3>1
  <2> QED
    BY <2>1, <2>2
<1> HIDE DEF T
<1>3. Ready = (IF Popped THEN <<next_task>> ELSE << >>) \o T
  BY Views DEF T
<1>4. CASE ~Popped
  <2>1. Ready = T
    BY <1>2, <1>3, <1>4
  <2> QED
    BY <1>2, <1>4, <2>1, ElemsToSet DEF T, IsInjective
<1>5. CASE Popped
  <2>1. Ready = <<next_task>> \o T /\ next_task \in TCB /\ next_task \notin Elems(T)
    BY <1>2, <1>3, <1>5 DEF Places
  <2>2. /\ Ready \in Seq(TCB) /\ Len(Ready) = Len(T) + 1 /\ Len(T) \in Nat /\ Ready[1] = next_task
        /\ \A i \in 1..Len(T) : Ready[i + 1] = T[i]
    BY <1>2, <2>1
  <2>3. \A i \in 1..Len(Ready) : i # 1 => i - 1 \in 1..Len(T) /\ Ready[i] = T[i - 1]
    <3> SUFFICES ASSUME NEW i \in 1..Len(Ready), i # 1
                 PROVE  i - 1 \in 1..Len(T) /\ Ready[i] = T[i - 1]
      OBVIOUS
    <3>1. i - 1 \in 1..Len(T) /\ (i - 1) + 1 = i
      BY <2>2
    <3> QED
      BY <2>2, <3>1
  <2>4. \A i \in 1..Len(T) : T[i] \in Elems(T)
    BY DEF Elems
  <2>5. Elems(Ready) = {next_task} \cup Elems(T)
    <3>1. ASSUME NEW u \in Elems(Ready) PROVE u \in {next_task} \cup Elems(T)
      <4>1. PICK i \in 1..Len(Ready) : u = Ready[i]
        BY DEF Elems
      <4>2. i # 1 => Ready[i] = T[i - 1] /\ T[i - 1] \in Elems(T)
        BY <2>3, <2>4
      <4> QED
        BY <2>2, <4>1, <4>2
    <3>2. 1 \in 1..Len(Ready)
      BY <2>2
    <3>3. Ready[1] \in Elems(Ready)
      BY <3>2 DEF Elems
    <3>4. ASSUME NEW u \in Elems(T) PROVE u \in Elems(Ready)
      <4>1. PICK i \in 1..Len(T) : u = T[i]
        BY DEF Elems
      <4>2. i + 1 \in 1..Len(Ready) /\ Ready[i + 1] = u
        BY <2>2, <4>1
      <4> QED
        BY <4>2 DEF Elems
    <3> QED
      BY <2>2, <3>1, <3>3, <3>4
  <2>6. \A i, j \in 1..Len(Ready) : Ready[i] = Ready[j] => i = j
    <3> SUFFICES ASSUME NEW i \in 1..Len(Ready), NEW j \in 1..Len(Ready), Ready[i] = Ready[j] PROVE i = j
      OBVIOUS
    <3>1. CASE i = 1 /\ j = 1
      BY <3>1
    <3>2. CASE i # 1 /\ j # 1
      <4>1. i - 1 \in 1..Len(T) /\ j - 1 \in 1..Len(T) /\ T[i - 1] = T[j - 1]
        BY <2>3, <3>2
      <4>2. i - 1 = j - 1
        BY <1>2, <4>1
      <4> QED
        BY <2>2, <4>2
    <3>3. CASE (i = 1 /\ j # 1) \/ (i # 1 /\ j = 1)
      BY <2>1, <2>2, <2>3, <2>4, <3>3
    <3> QED
      BY <3>1, <3>2, <3>3
  <2>7. IsInjective(Ready)
    BY <2>2, <2>6 DEF IsInjective
  <2>8. ToSet(Ready) = Elems(Ready)
    BY <2>2, ElemsToSet
  <2> QED
    BY <1>2, <1>5, <2>2, <2>5, <2>7, <2>8 DEF T
<1> QED
  BY <1>4, <1>5

\* The invariants imply QueueIntegrity.
LEMMA ListsIntegrity ==
  ASSUME IInv, LInv
  PROVE  QueueIntegrity
<1>1. PICK rq, sq, dq : Lists(rq, sq, dq) /\ Places(rq, sq, dq)
  BY DEF LInv, Placed
<1>2. Runs /\ current_task_PCB \in TCB
  BY DEF LInv, IInv, ControlTypes
<1>3. /\ Chain(first_ready_to_run_task) = rq
      /\ WellFormed(first_ready_to_run_task) /\ WellFormed(sleeping_taskes) /\ WellFormed(dead_tasks)
      /\ Sleeping = Elems(sq) \ {current_task_PCB}
      /\ Gone = Elems(dq) \ {current_task_PCB}
  BY <1>1, Views
<1>4. /\ ToSet(Ready) = (IF Popped THEN {next_task} ELSE {}) \cup (Elems(rq) \ {current_task_PCB})
      /\ IsInjective(Ready)
  BY <1>1, <1>2, ReadyTasks
<1>5. Elems(rq) \subseteq TCB /\ Elems(sq) \subseteq TCB /\ Elems(dq) \subseteq TCB
  BY <1>1, OnLists
<1>6. /\ Elems(rq) \cap Elems(sq) = {} /\ Elems(rq) \cap Elems(dq) = {} /\ Elems(sq) \cap Elems(dq) = {}
      /\ Popped => /\ next_task \in TCB /\ next_task # current_task_PCB /\ Waits(next_task)
                   /\ next_task \notin Elems(rq) \cup Elems(sq) \cup Elems(dq)
  BY <1>1 DEF Lists, Places
<1>7. \A t \in ToSet(Ready) : t # current_task_PCB /\ t \in TCB /\ Waits(t)
  <2> SUFFICES ASSUME NEW t \in ToSet(Ready) PROVE t # current_task_PCB /\ t \in TCB /\ Waits(t)
    OBVIOUS
  <2>1. CASE t \in Elems(rq) \ {current_task_PCB}
    BY <1>1, <1>5, <2>1 DEF Places
  <2>2. CASE Popped /\ t = next_task
    BY <1>6, <2>2
  <2> QED
    BY <1>4, <2>1, <2>2
<1>8. /\ \A t \in Sleeping : state[t] = TASK_STATE_SLEEPING /\ pc[t] = "slept"
      /\ \A t \in Gone : state[t] \in {TASK_STATE_DEAD, TASK_STATE_TERMINATED} /\ pc[t] = "abort"
  BY <1>1, <1>3 DEF Places
<1>9. /\ ToSet(Ready) \cap Sleeping = {} /\ ToSet(Ready) \cap Gone = {} /\ Sleeping \cap Gone = {}
      /\ current_task_PCB \notin ToSet(Ready) /\ current_task_PCB \notin Sleeping
      /\ current_task_PCB \notin Gone
  BY <1>3, <1>4, <1>6
<1>10. ToSet(Ready) \cup Sleeping \cup Gone \cup {current_task_PCB} = Created
  <2>1. \A t \in ToSet(Ready) : pc[t] # "free"
    BY <1>7 DEF Waits
  <2>2. ToSet(Ready) \cup Sleeping \cup Gone \cup {current_task_PCB} \subseteq Created
    BY <1>2, <1>3, <1>5, <1>7, <1>8, <2>1 DEF Created, Runs
  <2>3. \A t \in TCB : \/ pc[t] = "free" \/ t = current_task_PCB \/ (Popped /\ t = next_task)
                       \/ t \in Elems(rq) \cup Elems(sq) \cup Elems(dq)
    BY <1>1 DEF Places
  <2>4. Created \subseteq ToSet(Ready) \cup Sleeping \cup Gone \cup {current_task_PCB}
    BY <1>3, <1>4, <2>3 DEF Created
  <2> QED
    BY <2>2, <2>4
<1> DEFINE where == <<ToSet(Ready), Sleeping, Gone, {current_task_PCB}>>
<1>11. DOMAIN where = {1, 2, 3, 4} /\ where[1] = ToSet(Ready) /\ where[2] = Sleeping
       /\ where[3] = Gone /\ where[4] = {current_task_PCB}
  OBVIOUS
<1> HIDE DEF where
<1>12. \A i, j \in DOMAIN where : i # j => where[i] \cap where[j] = {}
  BY <1>9, <1>11
<1>13. UNION ToSet(where) = Created
  <2>1. ToSet(where) = {ToSet(Ready), Sleeping, Gone, {current_task_PCB}}
    BY <1>11 DEF ToSet
  <2> QED
    BY <1>10, <2>1
<1>14. pc[current_task_PCB] # "drain" =>
          last_ready_to_run_task = IF first_ready_to_run_task = NULL THEN NULL
                                   ELSE Last(Chain(first_ready_to_run_task))
  <2>1. first_ready_to_run_task = NULL <=> Len(rq) = 0
    BY <1>1, OnLists
  <2>2. /\ Len(rq) # 0 => last_ready_to_run_task = rq[Len(rq)]
        /\ Len(rq) = 0 /\ pc[current_task_PCB] # "drain" => last_ready_to_run_task = NULL
    BY <1>1 DEF Lists
  <2> QED
    BY <1>3, <2>1, <2>2 DEF Last
<1>15. \A t \in ToSet(Ready) : state[t] = TASK_STATE_READY_TO_RUN
  BY <1>7 DEF Waits
<1> QED
  BY <1>3, <1>4, <1>8, <1>12, <1>13, <1>14, <1>15 DEF QueueIntegrity, where

\* What a state of dead_tasks_cleanup looks like.
LEMMA CleaningViews ==
  ASSUME NEW rq, NEW sq, NEW dq, Lists(rq, sq, dq), Reaping(rq, sq, dq), pc[Main] = "freeing"
  PROVE  /\ ~Popped /\ Ready = rq /\ Sleeping = Elems(sq)
         /\ Gone = {t \in Elems(dq) : pc[t] # "free"}
<1>1. /\ current_task_PCB = Main /\ rq \in Seq(TCB)
      /\ Main \notin Elems(rq) /\ Main \notin Elems(sq) /\ Main \notin Elems(dq)
  BY DEF Reaping, Lists, IsList
<1>2. ~Popped
  BY <1>1 DEF Popped, ScheduleBody
<1>3. Queued = rq
  BY <1>1, ListChains, TrimOut
<1>4. << >> \o rq = rq
  BY <1>1
<1>5. Ready = rq
  BY <1>2, <1>3, <1>4 DEF Ready
<1>6. /\ Sleeping = Elems(sq) \ {Main}
      /\ Gone = {t \in Elems(dq) \ {Main} : pc[t] # "free"}
  BY <1>1, ListChains
<1>7. Elems(sq) \ {Main} = Elems(sq) /\ Elems(dq) \ {Main} = Elems(dq)
  BY <1>1
<1> QED
  BY <1>2, <1>5, <1>6, <1>7

\* While the dead list is being freed the dead tasks are those not freed yet.
LEMMA CleaningIntegrity ==
  ASSUME IInv, Runs, Cleaning, pc[Main] = "freeing"
  PROVE  QueueIntegrity
<1>1. PICK rq, sq, dq : Lists(rq, sq, dq) /\ Reaping(rq, sq, dq)
  BY DEF Cleaning
<1>2. Main \in TCB /\ current_task_PCB = Main
  BY <1>1, TCBAssumption DEF Reaping
<1>3. /\ Chain(first_ready_to_run_task) = rq
      /\ WellFormed(first_ready_to_run_task) /\ WellFormed(sleeping_taskes) /\ WellFormed(dead_tasks)
  BY <1>1, ListChains
<1>4. /\ Ready = rq /\ Sleeping = Elems(sq) /\ Gone = {t \in Elems(dq) : pc[t] # "free"}
  BY <1>1, CleaningViews
<1>5. /\ rq \in Seq(TCB) /\ \A i, j \in 1..Len(rq) : rq[i] = rq[j] => i = j
      /\ Elems(rq) \subseteq TCB /\ Elems(sq) \subseteq TCB /\ Elems(dq) \subseteq TCB
      /\ Elems(rq) \cap Elems(sq) = {} /\ Elems(rq) \cap Elems(dq) = {}
      /\ Elems(sq) \cap Elems(dq) = {}
  BY <1>1, OnLists DEF Lists, IsList
<1>6. ToSet(Ready) = Elems(rq) /\ IsInjective(Ready)
  BY <1>4, <1>5, ElemsToSet DEF IsInjective
<1>7. /\ \A t \in Elems(rq) : t # Main /\ state[t] = TASK_STATE_READY_TO_RUN /\ pc[t] # "free"
      /\ \A t \in Elems(sq) : t # Main /\ state[t] = TASK_STATE_SLEEPING /\ pc[t] # "free"
      /\ \A t \in Elems(dq) : t # Main /\ state[t] \in {TASK_STATE_DEAD, TASK_STATE_TERMINATED}
  BY <1>1 DEF Reaping, Waits
<1>8. ToSet(Ready) \cup Sleeping \cup Gone \cup {current_task_PCB} = Created
  <2>1. \A t \in TCB : pc[t] = "free" \/ t = Main \/ t \in Elems(rq) \cup Elems(sq) \cup Elems(dq)
    BY <1>1 DEF Reaping
  <2> QED
    BY <1>2, <1>4, <1>5, <1>6, <1>7, <2>1 DEF Created
<1> DEFINE where == <<ToSet(Ready), Sleeping, Gone, {current_task_PCB}>>
<1>9. DOMAIN where = {1, 2, 3, 4} /\ where[1] = ToSet(Ready) /\ where[2] = Sleeping
      /\ where[3] = Gone /\ where[4] = {current_task_PCB}
  OBVIOUS
<1> HIDE DEF where
<1>10. \A i, j \in DOMAIN where : i # j => where[i] \cap where[j] = {}
  <2>1. /\ ToSet(Ready) \cap Sleeping = {} /\ ToSet(Ready) \cap Gone = {} /\ Sleeping \cap Gone = {}
        /\ current_task_PCB \notin ToSet(Ready) /\ current_task_PCB \notin Sleeping
        /\ current_task_PCB \notin Gone
    BY <1>2, <1>4, <1>5, <1>6, <1>7
  <2> QED
    BY <1>9, <2>1
<1>11. UNION ToSet(where) = Created
  <2>1. ToSet(where) = {ToSet(Ready), Sleeping, Gone, {current_task_PCB}}
    BY <1>9 DEF ToSet
  <2> QED
    BY <1>8, <2>1
<1>12. last_ready_to_run_task = IF first_ready_to_run_task = NULL THEN NULL
                                ELSE Last(Chain(first_ready_to_run_task))
  <2>1. first_ready_to_run_task = NULL <=> Len(rq) = 0
    BY <1>1, OnLists
  <2>2. /\ Len(rq) # 0 => last_ready_to_run_task = rq[Len(rq)]
        /\ Len(rq) = 0 => last_ready_to_run_task = NULL
    BY <1>1, <1>2 DEF Lists
  <2> QED
    BY <1>3, <2>1, <2>2 DEF Last
<1>13. /\ \A t \in ToSet(Ready) : state[t] = TASK_STATE_READY_TO_RUN
       /\ \A t \in Sleeping : state[t] = TASK_STATE_SLEEPING
       /\ \A t \in Gone : state[t] \in {TASK_STATE_DEAD, TASK_STATE_TERMINATED}
  BY <1>4, <1>6, <1>7
<1> QED
  BY <1>3, <1>6, <1>10, <1>11, <1>12, <1>13, Zenon DEF QueueIntegrity, where

\* The ready, the sleeping and the dead list end, share no task, and hold each task
\* that exists once, in the state that goes with the list, whatever the tasks, the
\* timer interrupt and dead_tasks_cleanup do.
THEOREM QueuesIntact ==
  Spec => []QueueIntegrity
<1>1. AInv => QueueIntegrity
  BY ListsIntegrity, CleaningIntegrity DEF AInv, LInv
<1> QED
  BY <1>1, ListsInductive, PTL

\* No list leads to a block that was not created or was freed, but for the dead list
\* while dead_tasks_cleanup walks it; that walk frees no block twice.
THEOREM NoListDangles ==
  Spec => []NoDanglingList
<1>1. ASSUME IInv, Runs, Placed, pc[Main] # "freeing" PROVE NoDanglingList
  <2>1. PICK rq, sq, dq : Lists(rq, sq, dq) /\ Places(rq, sq, dq)
    BY <1>1 DEF Placed
  <2>2. current_task_PCB \in TCB /\ ControlTypes /\ Control
    BY <1>1 DEF IInv, ControlTypes
  <2>3. pc[current_task_PCB] # "freeing"
    BY <1>1, <2>2, WhoRuns DEF MainLocation
  <2>4. /\ Chain(first_ready_to_run_task) = rq /\ Chain(sleeping_taskes) = sq /\ Chain(dead_tasks) = dq
    BY <2>1, Views
  <2>5. rq \in Seq(TCB) /\ sq \in Seq(TCB) /\ dq \in Seq(TCB)
    BY <2>1 DEF Lists, IsList
  <2>6. Elems(rq) \subseteq TCB /\ Elems(sq) \subseteq TCB /\ Elems(dq) \subseteq TCB
    BY <2>1, OnLists
  <2>7. pc[current_task_PCB] # "free"
    BY <1>1 DEF Runs
  <2>8. Elems(rq) \subseteq Created /\ Elems(sq) \subseteq Created /\ Elems(dq) \subseteq Created
    BY <2>1, <2>2, <2>6, <2>7 DEF Places, Waits, Created
  <2>9. ToSet(rq) \subseteq Created /\ ToSet(sq) \subseteq Created /\ ToSet(dq) \subseteq Created
    BY <2>5, <2>8, ElemsToSet
  <2> QED
    BY <2>3, <2>4, <2>9 DEF NoDanglingList
<1>2. ASSUME IInv, Cleaning, pc[Main] = "freeing" PROVE NoDanglingList
  <2>1. PICK rq, sq, dq : Lists(rq, sq, dq) /\ Reaping(rq, sq, dq)
    BY <1>2 DEF Cleaning
  <2>2. PICK k \in 1..(Len(dq) + 1) :
            /\ node = Nth(dq, k)
            /\ \A j \in 1..Len(dq) : pc[dq[j]] = IF j < k THEN "free" ELSE "abort"
    BY <2>1 DEF Reaping
  <2>3. /\ Elems(dq) \subseteq TCB /\ Len(dq) \in Nat /\ Main \notin Elems(dq)
        /\ current_task_PCB = Main
    BY <2>1, ListMembers DEF Lists, Reaping
  <2>4. CASE k \in 1..Len(dq)
    <3>1. node = dq[k] /\ dq[k] \in Elems(dq) /\ pc[dq[k]] = "abort"
      BY <2>2, <2>3, <2>4 DEF Nth, Elems
    <3> QED
      BY <1>2, <2>3, <3>1 DEF NoDanglingList, Created
  <2>5. CASE k \notin 1..Len(dq)
    BY <1>2, <2>2, <2>3, <2>5 DEF Nth, NoDanglingList
  <2> QED
    BY <2>4, <2>5
<1>3. AInv => NoDanglingList
  BY <1>1, <1>2 DEF AInv
<1> QED
  BY <1>3, ListsInductive, PTL

\* micro_sleep never returns early, as long as the clock does not pass the range of
\* the 32-bit wakeup time (run wrapped_sleep shows what happens when it does).
THEOREM SleepersSleep ==
  ASSUME MaxTicks < Wrap
  PROVE  Spec => []SleepsLongEnough
<1>1. ASSUME IInv, Runs PROVE SleepsLongEnough
  <2>1. /\ current_task_PCB \in TCB /\ arg[current_task_PCB] \in Nat /\ ticks_since_boot \in Nat
        /\ arg[current_task_PCB] <= MaxTicks /\ MaxTicks \in Nat /\ Wrap \in Nat \ {0}
        /\ pc[current_task_PCB] = "slept" => arg[current_task_PCB] % Wrap <= ticks_since_boot
    BY <1>1, ClockAssumption DEF IInv, ControlTypes, DataTypes, Runs, Due
  <2>2. arg[current_task_PCB] % Wrap = arg[current_task_PCB]
    BY <2>1
  <2> QED
    BY <2>1, <2>2 DEF SleepsLongEnough
<1>2. AInv => SleepsLongEnough
  BY <1>1 DEF AInv
<1> QED
  BY <1>2, ListsInductive, PTL

\* A step is one of dead_tasks_cleanup, or an ordinary step outside of it, or none.
LEMMA StepKinds ==
  ASSUME AInv, [Next]_vars
  PROVE  \/ Ordinary /\ IInv /\ LInv
         \/ dead_tasks_cleanup /\ IInv /\ LInv
         \/ (free_task \/ cleanup_done \/ UNCHANGED vars) /\ IInv /\ Runs /\ Cleaning /\ pc[Main] = "freeing"
<1>1. IInv /\ Runs /\ ControlTypes /\ Control
  BY DEF AInv, IInv
<1>2. CASE pc[Main] = "freeing"
  BY <1>1, <1>2, FreeingAlone DEF AInv
<1>3. CASE pc[Main] # "freeing"
  <2>1. ~free_task /\ ~cleanup_done
    BY <1>1, <1>3, WhoRuns DEF free_task, cleanup_done, Running, MainLocation
  <2> QED
    BY <1>1, <1>3, <2>1 DEF AInv, LInv, Ordinary
<1> QED
  BY <1>2, <1>3

\* A task that is dead is on the dead list, which no step takes a task off.
LEMMA DeadStep ==
  ASSUME Ordinary, IInv, LInv, [Next]_vars, NEW t \in TCB, pc[t] = "abort"
  PROVE  state'[t] = state[t] /\ pc'[t] = "abort" /\ current_task_PCB' # t
<1>1. Runs /\ ControlTypes /\ DataTypes /\ Control
  BY DEF LInv, IInv
<1>2. PICK rq, sq, dq : Lists(rq, sq, dq) /\ Places(rq, sq, dq)
  BY DEF LInv, Placed
<1>3. t # current_task_PCB
  BY <1>1 DEF Runs
<1>4. t \notin Elems(sq) /\ (Popped => t # next_task)
  BY <1>2, <1>3 DEF Places, Waits
<1>5. MovesTask \/ Quiet
  BY <1>1, <1>2, NextKinds
<1>6. CASE Quiet
  BY <1>3, <1>6 DEF Quiet
<1>7. CASE \/ schedule_pop \/ schedule_drain \/ schedule_link
           \/ micro_sleep_until \/ terminate_task \/ mark_task_for_death
  <2>1. /\ current_task_PCB' = current_task_PCB
        /\ \E l : pc' = [pc EXCEPT ![current_task_PCB] = l]
        /\ \/ state' = state
           \/ state' = [state EXCEPT ![current_task_PCB] = TASK_STATE_DEAD]
    BY <1>7 DEF schedule_pop, schedule_drain, schedule_link, micro_sleep_until, terminate_task,
         mark_task_for_death, Goto, fields, TaskFrame
  <2> QED
    BY <1>1, <1>3, <2>1 DEF ControlTypes, DataTypes
<1>8. CASE switch_to_task
  <2>1. pc[current_task_PCB] = "switch"
    BY <1>8 DEF switch_to_task, Running
  <2>2. Popped
    BY <2>1 DEF Popped, ScheduleBody
  <2>3. /\ \/ current_task_PCB' = current_task_PCB /\ state' = state
           \/ /\ current_task_PCB' = next_task
              /\ state' = [state EXCEPT ![next_task] = TASK_STATE_RUNNING]
        /\ pc' = [pc EXCEPT ![current_task_PCB] = ret[current_task_PCB]]
    BY <1>8 DEF switch_to_task, Goto
  <2> QED
    BY <1>1, <1>3, <1>4, <2>2, <2>3 DEF ControlTypes, DataTypes
<1>9. CASE create_kernel_task
  <2>1. PICK u \in TCB :
          /\ pc[u] = "free"
          /\ state' = [state EXCEPT ![u] = TASK_STATE_READY_TO_RUN]
          /\ pc' = [pc EXCEPT ![u] = "start", ![current_task_PCB] = "unlock"]
    BY <1>9 DEF create_kernel_task
  <2>2. current_task_PCB' = current_task_PCB /\ t # u
    BY <1>9, <2>1 DEF create_kernel_task, MainFrame
  <2> QED
    BY <1>1, <1>3, <2>1, <2>2 DEF ControlTypes, DataTypes
<1>10. CASE unblock_task
  <2>1. /\ state' = [state EXCEPT ![curr] = TASK_STATE_READY_TO_RUN] /\ pc' = pc
        /\ current_task_PCB' = current_task_PCB /\ irq = "timer" /\ curr # NULL
    BY <1>10 DEF unblock_task, IrqFrame
  <2>2. PICK i \in 1..(Len(sq) + 1) : curr = Nth(sq, i)
    BY <1>2, <2>1 DEF Lists, Cursor
  <2>3. curr \in Elems(sq)
    BY <2>1, <2>2 DEF Nth, Elems
  <2> QED
    BY <1>1, <1>3, <1>4, <2>1, <2>3 DEF DataTypes
<1> QED
  BY <1>5, <1>6, <1>7, <1>8, <1>9, <1>10 DEF MovesTask

\* dead_tasks_cleanup changes no task's state, and no location but of what it frees.
LEMMA CleanupDeadStep ==
  ASSUME IInv, NEW t \in TCB, pc[t] = "abort",
         dead_tasks_cleanup \/ free_task \/ cleanup_done \/ UNCHANGED vars,
         t # current_task_PCB
  PROVE  state'[t] = state[t] /\ pc'[t] \in {"abort", "free"} /\ current_task_PCB' # t
<1>1. ControlTypes
  BY DEF IInv
<1>2. /\ state' = state /\ current_task_PCB' = current_task_PCB
      /\ \/ pc' = pc
         \/ \E l : pc' = [pc EXCEPT ![current_task_PCB] = l]
         \/ pc' = [pc EXCEPT ![node] = "free"]
  BY DEF dead_tasks_cleanup, free_task, cleanup_done, vars, MainFrame, fields, Goto
<1> QED
  BY <1>1, <1>2 DEF ControlTypes

\* A task that was marked for death or terminated stays so, and never runs again.
THEOREM DeathIsFinal ==
  Spec => DeadStayDead
<1> DEFINE Stays == \A t \in TCB :
             (pc[t] = "abort" /\ state[t] \in {TASK_STATE_DEAD, TASK_STATE_TERMINATED})
                => /\ state'[t] = state[t]
                   /\ pc'[t] \in {"abort", "free"}
                   /\ current_task_PCB' # t
<1>1. ASSUME AInv, [Next]_vars PROVE Stays
  <2> SUFFICES ASSUME NEW t \in TCB, pc[t] = "abort"
               PROVE  state'[t] = state[t] /\ pc'[t] \in {"abort", "free"} /\ current_task_PCB' # t
    OBVIOUS
  <2>1. CASE Ordinary /\ IInv /\ LInv
    BY <1>1, <2>1, DeadStep
  <2>2. CASE ~(Ordinary /\ IInv /\ LInv)
    <3>1. t # current_task_PCB /\ IInv
      BY <1>1 DEF AInv, Runs
    <3> QED
      BY <1>1, <2>2, <3>1, StepKinds, CleanupDeadStep
  <2> QED
    BY <2>1, <2>2
<1>2. AInv /\ [Next]_vars => [Stays]_vars
  BY <1>1
<1> HIDE DEF Stays
<1>3. Spec => [][Stays]_vars
  BY <1>2, ListsInductive, PTL DEF Spec
<1> QED
  BY <1>3 DEF Stays, DeadStayDead

(***************************************************************************)
(* The scheduler implements cooperative round robin                        *)
(***************************************************************************)
\* The views after a step.
LEMMA ViewsAfter ==
  ASSUME NEW rq, NEW sq, NEW dq, Lists(rq, sq, dq)', Places(rq, sq, dq)'
  PROVE  /\ Ready' = (IF Popped' THEN <<next_task'>> ELSE << >>) \o Trim(rq, current_task_PCB')
         /\ Sleeping' = Elems(sq) \ {current_task_PCB'}
         /\ Gone' = Elems(dq) \ {current_task_PCB'}
         /\ Chain(first_ready_to_run_task)' = rq
<1>1. /\ IsList(first_ready_to_run_task', rq, next') /\ IsList(sleeping_taskes', sq, next')
      /\ IsList(dead_tasks', dq, next')
      /\ rq \in Seq(TCB) /\ sq \in Seq(TCB) /\ dq \in Seq(TCB)
  BY DEF Lists, IsList
<1>2. /\ ChainIn(first_ready_to_run_task', next') = rq /\ ChainIn(sleeping_taskes', next') = sq
      /\ ChainIn(dead_tasks', next') = dq
  BY <1>1, ChainList
<1>3. /\ Chain(first_ready_to_run_task)' = ChainIn(first_ready_to_run_task', next')
      /\ Chain(sleeping_taskes)' = ChainIn(sleeping_taskes', next')
      /\ Chain(dead_tasks)' = ChainIn(dead_tasks', next')
  BY DEF Follow, FollowIn, Chain, ChainIn
<1>4. /\ Chain(first_ready_to_run_task)' = rq /\ Chain(sleeping_taskes)' = sq
      /\ Chain(dead_tasks)' = dq
  BY <1>2, <1>3
<1>5. Queued' = Trim(rq, current_task_PCB')
  BY <1>4 DEF Queued, Trim, Last, Front
<1>6. Sleeping' = Elems(sq) \ {current_task_PCB'}
  BY <1>1, <1>4, ElemsToSet DEF Sleeping
<1>7. \A t \in Elems(dq) : t # current_task_PCB' => pc'[t] # "free"
  BY DEF Places, Elems
<1>8. Gone' = Elems(dq) \ {current_task_PCB'}
  BY <1>1, <1>4, <1>7, ElemsToSet DEF Gone
<1> QED
  BY <1>4, <1>5, <1>6, <1>8 DEF Ready

\* What a push adds.
LEMMA PushElems ==
  ASSUME NEW s, s \in Seq(TCB), NEW c \in TCB
  PROVE  Elems(<<c>> \o s) \ {c} = Elems(s) \ {c}
<1> DEFINE p == <<c>> \o s
<1>1. /\ p \in Seq(TCB) /\ Len(p) = Len(s) + 1 /\ Len(s) \in Nat /\ p[1] = c
      /\ \A i \in 1..Len(s) : p[i + 1] = s[i]
  OBVIOUS
<1> HIDE DEF p
<1>2. ASSUME NEW u \in Elems(p), u # c PROVE u \in Elems(s)
  <2>1. PICK i \in 1..Len(p) : u = p[i]
    BY DEF Elems
  <2>2. i # 1
    BY <1>1, <1>2, <2>1
  <2>3. i - 1 \in 1..Len(s) /\ (i - 1) + 1 = i
    BY <1>1, <2>2
  <2>4. s[i - 1] = u
    BY <1>1, <2>1, <2>3
  <2> QED
    BY <2>3, <2>4 DEF Elems
<1>3. ASSUME NEW u \in Elems(s) PROVE u \in Elems(p)
  <2>1. PICK i \in 1..Len(s) : u = s[i]
    BY DEF Elems
  <2>2. i + 1 \in 1..Len(p) /\ p[i + 1] = u
    BY <1>1, <2>1
  <2> QED
    BY <2>2 DEF Elems
<1> QED
  BY <1>2, <1>3 DEF p

\* A step between two states that look alike.
LEMMA ViewsSame ==
  ASSUME UNCHANGED current_task_PCB, Ready' = Ready, Sleeping' = Sleeping, Gone' = Gone
  PROVE  [RR!Next]_(RR!vars)
BY DEF RR!vars

\* Quiet steps and the steps by which a task prepares to leave change no view.
LEMMA StutterSteps ==
  ASSUME IInv, Runs, NEW rq, NEW sq, NEW dq, Lists(rq, sq, dq), Places(rq, sq, dq),
         \/ Quiet /\ Cursor(sq)'
         \/ schedule_pop \/ schedule_drain \/ schedule_link
         \/ micro_sleep_until \/ terminate_task \/ mark_task_for_death
  PROVE  [RR!Next]_(RR!vars)
<1>1. ControlTypes /\ DataTypes /\ Control /\ current_task_PCB \in TCB
  BY DEF IInv, ControlTypes
<1>2. /\ Ready = (IF Popped THEN <<next_task>> ELSE << >>) \o Trim(rq, current_task_PCB)
      /\ Sleeping = Elems(sq) \ {current_task_PCB}
      /\ Gone = Elems(dq) \ {current_task_PCB}
  BY Views
<1>3. /\ IsList(first_ready_to_run_task, rq, next) /\ rq \in Seq(TCB) /\ Len(rq) \in Nat
      /\ sq \in Seq(TCB) /\ dq \in Seq(TCB)
  BY DEF Lists, IsList
<1>4. ASSUME Lists(rq, sq, dq)', Places(rq, sq, dq)', UNCHANGED <<current_task_PCB, next_task>>,
             Popped' <=> Popped
      PROVE  [RR!Next]_(RR!vars)
  <2>1. Ready' = Ready /\ Sleeping' = Sleeping /\ Gone' = Gone
    BY <1>2, <1>4, ViewsAfter
  <2> QED
    BY <1>4, <2>1, ViewsSame
<1>5. CASE Quiet /\ Cursor(sq)'
  <2>1. Lists(rq, sq, dq)'
    BY <1>5, QuietLists
  <2>2. Places(rq, sq, dq)'
    BY <1>1, <1>5, QuietPlaces
  <2> QED
    BY <1>4, <1>5, <2>1, <2>2 DEF Quiet
<1>6. CASE schedule_drain
  <2>1. Lists(rq, sq, dq)' /\ Places(rq, sq, dq)'
    BY <1>6, DrainPlaced
  <2>2. /\ UNCHANGED <<current_task_PCB, next_task>> /\ pc[current_task_PCB] = "drain"
        /\ pc'[current_task_PCB] = "charge"
    BY <1>1, <1>6 DEF schedule_drain, Running, Goto, ControlTypes
  <2>3. Popped' <=> Popped
    BY <2>2 DEF Popped, ScheduleBody
  <2> QED
    BY <1>4, <2>1, <2>2, <2>3
<1>7. CASE schedule_pop
  <2>1. Lists(Tail(rq), sq, dq)' /\ Places(Tail(rq), sq, dq)'
    BY <1>7, PopPlaced
  <2>2. /\ current_task_PCB' = current_task_PCB /\ pc[current_task_PCB] = "pop"
        /\ pc'[current_task_PCB] = "drain" /\ next_task' = first_ready_to_run_task
    BY <1>1, <1>7 DEF schedule_pop, Running, Goto, ControlTypes
  <2>3. ~Popped /\ Popped' /\ ~Linked /\ first_ready_to_run_task # NULL
    BY <1>1, <2>2 DEF Popped, ScheduleBody, Linked, Control, BodyControl
  <2>4. current_task_PCB \notin Elems(rq)
    BY <2>3 DEF Places
  <2>5. /\ Elems(Tail(rq)) = Elems(rq) \ {first_ready_to_run_task}
        /\ Len(rq) # 0 /\ rq[1] = first_ready_to_run_task
    BY <1>3, <2>3, ListPop
  <2>6. Trim(rq, current_task_PCB) = rq
    BY <1>3, <2>4, TrimOut
  <2>7. Trim(Tail(rq), current_task_PCB) = Tail(rq)
    <3>1. Tail(rq) \in Seq(TCB) /\ current_task_PCB \notin Elems(Tail(rq))
      BY <1>3, <2>4, <2>5
    <3> QED
      BY <3>1, TrimOut
  <2>8. << >> \o rq = rq /\ <<rq[1]>> \o Tail(rq) = rq
    BY <1>3, <2>5
  <2>9. /\ Ready' = <<next_task'>> \o Tail(rq) /\ Sleeping' = Elems(sq) \ {current_task_PCB}
        /\ Gone' = Elems(dq) \ {current_task_PCB}
    BY <2>1, <2>2, <2>3, <2>7, ViewsAfter
  <2>10. Ready' = Ready /\ Sleeping' = Sleeping /\ Gone' = Gone
    BY <1>2, <2>2, <2>3, <2>5, <2>6, <2>8, <2>9
  <2> QED
    BY <2>2, <2>10, ViewsSame
<1>8. CASE schedule_link
  <2>1. PICK c \in TCB : /\ c = current_task_PCB
                         /\ Lists(Append(rq, c), sq, dq)' /\ Places(Append(rq, c), sq, dq)'
    BY <1>8, LinkPlaced
  <2>2. /\ current_task_PCB' = current_task_PCB /\ pc[current_task_PCB] = "link"
        /\ pc'[current_task_PCB] = "switch" /\ next_task' = next_task
    BY <1>1, <1>8 DEF schedule_link, Running, Goto, ControlTypes
  <2>3. Popped /\ Popped' /\ ~Linked
    BY <2>2 DEF Popped, ScheduleBody, Linked
  <2>4. c \notin Elems(rq)
    BY <2>1, <2>3 DEF Places
  <2>5. Trim(rq, c) = rq /\ Trim(Append(rq, c), c) = rq
    BY <1>3, <2>4, TrimOut, TrimLast
  <2>6. /\ Ready' = <<next_task'>> \o Trim(Append(rq, c), current_task_PCB')
        /\ Sleeping' = Elems(sq) \ {current_task_PCB'} /\ Gone' = Elems(dq) \ {current_task_PCB'}
    BY <2>1, <2>3, ViewsAfter
  <2>7. Ready' = Ready /\ Sleeping' = Sleeping /\ Gone' = Gone
    BY <1>2, <2>1, <2>2, <2>3, <2>5, <2>6
  <2> QED
    BY <2>2, <2>7, ViewsSame
<1>9. CASE micro_sleep_until
  <2>1. PICK c \in TCB : /\ c = current_task_PCB
                         /\ Lists(rq, <<c>> \o sq, dq)' /\ Places(rq, <<c>> \o sq, dq)'
    BY <1>9, SleepPlaced
  <2>2. /\ current_task_PCB' = current_task_PCB /\ pc[current_task_PCB] = "micro_sleep_until"
        /\ pc'[current_task_PCB] = "unlock" /\ next_task' = next_task
    BY <1>1, <1>9 DEF micro_sleep_until, TaskFrame, Running, Goto, ControlTypes
  <2>3. ~Popped /\ ~Popped'
    BY <2>2 DEF Popped, ScheduleBody
  <2>4. Elems(<<c>> \o sq) \ {c} = Elems(sq) \ {c}
    BY <1>3, PushElems
  <2>5. /\ Ready' = << >> \o Trim(rq, current_task_PCB')
        /\ Sleeping' = Elems(<<c>> \o sq) \ {current_task_PCB'}
        /\ Gone' = Elems(dq) \ {current_task_PCB'}
    BY <2>1, <2>3, ViewsAfter
  <2>6. Ready' = Ready /\ Sleeping' = Sleeping /\ Gone' = Gone
    BY <1>2, <2>1, <2>2, <2>3, <2>4, <2>5
  <2> QED
    BY <2>2, <2>6, ViewsSame
<1>10. CASE terminate_task \/ mark_task_for_death
  <2>1. PICK c \in TCB : /\ c = current_task_PCB
                         /\ Lists(rq, sq, <<c>> \o dq)' /\ Places(rq, sq, <<c>> \o dq)'
    BY <1>10, DeathPlaced
  <2>2. /\ current_task_PCB' = current_task_PCB /\ pc[current_task_PCB] \in {"terminate", "death"}
        /\ pc'[current_task_PCB] = "unlock" /\ next_task' = next_task
    BY <1>1, <1>10 DEF terminate_task, mark_task_for_death, TaskFrame, Running, Goto, ControlTypes
  <2>3. ~Popped /\ ~Popped'
    BY <2>2 DEF Popped, ScheduleBody
  <2>4. Elems(<<c>> \o dq) \ {c} = Elems(dq) \ {c}
    BY <1>3, PushElems
  <2>5. /\ Ready' = << >> \o Trim(rq, current_task_PCB')
        /\ Sleeping' = Elems(sq) \ {current_task_PCB'}
        /\ Gone' = Elems(<<c>> \o dq) \ {current_task_PCB'}
    BY <2>1, <2>3, ViewsAfter
  <2>6. Ready' = Ready /\ Sleeping' = Sleeping /\ Gone' = Gone
    BY <1>2, <2>1, <2>2, <2>3, <2>4, <2>5
  <2> QED
    BY <2>2, <2>6, ViewsSame
<1> QED
  BY <1>5, <1>6, <1>7, <1>8, <1>9, <1>10

\* What the ready queue becomes when its head is taken.
LEMMA HeadTail ==
  ASSUME NEW w \in TCB, NEW s, s \in Seq(TCB)
  PROVE  /\ <<w>> \o s # << >> /\ Head(<<w>> \o s) = w /\ Tail(<<w>> \o s) = s
         /\ << >> \o s = s
<1> DEFINE p == <<w>> \o s
<1>1. /\ p \in Seq(TCB) /\ Len(p) = Len(s) + 1 /\ Len(s) \in Nat /\ p[1] = w
      /\ \A i \in 1..Len(s) : p[i + 1] = s[i]
  OBVIOUS
<1>2. << >> \o s = s
  OBVIOUS
<1> HIDE DEF p
<1>3. p # << >> /\ Head(p) = w
  BY <1>1
<1>4. Tail(p) \in Seq(TCB) /\ Len(Tail(p)) = Len(s) /\ \A i \in 1..Len(s) : Tail(p)[i] = s[i]
  BY <1>1, <1>3
<1>5. Tail(p) = s
  BY <1>4
<1> QED
  BY <1>2, <1>3, <1>5 DEF p

\* _switch_to_task is the step by which the CPU changes hands.
LEMMA SwitchSteps ==
  ASSUME IInv, Runs, NEW rq, NEW sq, NEW dq, Lists(rq, sq, dq), Places(rq, sq, dq), switch_to_task
  PROVE  RR!Yield \/ RR!Sleep \/ RR!Exit
<1>1. Lists(rq, sq, dq)' /\ Places(rq, sq, dq)'
  BY SwitchPlaced
<1>2. PICK c \in TCB, w \in TCB :
         /\ c = current_task_PCB /\ w = next_task /\ current_task_PCB' = w /\ w # c
         /\ w \notin Elems(rq) \cup Elems(sq) \cup Elems(dq) /\ Popped /\ ~Popped'
         /\ ret[c] \in {"unlock_tail", "slept", "body", "abort"}
         /\ c \in Elems(sq) <=> ret[c] = "slept"
         /\ c \in Elems(dq) <=> ret[c] = "abort"
         /\ c \in Elems(rq) <=> ret[c] \in {"unlock_tail", "body"}
  BY SwitchPlaced
<1>3. /\ rq \in Seq(TCB) /\ Len(rq) \in Nat /\ \A i, j \in 1..Len(rq) : rq[i] = rq[j] => i = j
      /\ c \in Elems(rq) => rq[Len(rq)] = c /\ Len(rq) # 0
  BY <1>2 DEF Lists, IsList, Places, Elems
<1>4. Ready = <<w>> \o Trim(rq, c) /\ Sleeping = Elems(sq) \ {c} /\ Gone = Elems(dq) \ {c}
  BY <1>2, Views
<1>5. Ready' = << >> \o Trim(rq, w) /\ Sleeping' = Elems(sq) \ {w} /\ Gone' = Elems(dq) \ {w}
  BY <1>1, <1>2, ViewsAfter
<1>6. Trim(rq, w) = rq /\ << >> \o rq = rq
  BY <1>2, <1>3, TrimOut, HeadTail
<1>7. Ready' = rq /\ Sleeping' = Elems(sq) /\ Gone' = Elems(dq)
  BY <1>2, <1>5, <1>6
<1>8. CASE ret[c] \in {"unlock_tail", "body"}
  <2>1. c \in Elems(rq) /\ c \notin Elems(sq) /\ c \notin Elems(dq)
    BY <1>2, <1>8
  <2>2. Trim(rq, c) \in Seq(TCB) /\ rq = Append(Trim(rq, c), c)
    BY <1>3, <2>1, TrimAppend
  <2>3. Ready # << >> /\ Head(Ready) = w /\ Tail(Ready) = Trim(rq, c)
    BY <1>4, <2>2, HeadTail
  <2>4. Ready' = Append(Tail(Ready), current_task_PCB) /\ Sleeping' = Sleeping /\ Gone' = Gone
    BY <1>2, <1>4, <1>7, <2>1, <2>2, <2>3
  <2> QED
    BY <1>2, <2>3, <2>4 DEF RR!Yield
<1>9. CASE ret[c] \in {"slept", "abort"}
  <2>1. c \notin Elems(rq)
    BY <1>2, <1>9
  <2>2. Trim(rq, c) = rq
    BY <1>3, <2>1, TrimOut
  <2>3. Ready # << >> /\ Head(Ready) = w /\ Tail(Ready) = rq
    BY <1>3, <1>4, <2>2, HeadTail
  <2>4. CASE ret[c] = "slept"
    <3>1. Sleeping' = Sleeping \cup {current_task_PCB} /\ Gone' = Gone
      BY <1>2, <1>4, <1>7, <2>4
    <3> QED
      BY <1>2, <1>7, <2>3, <3>1 DEF RR!Sleep
  <2>5. CASE ret[c] = "abort"
    <3>1. Gone' = Gone \cup {current_task_PCB} /\ Sleeping' = Sleeping
      BY <1>2, <1>4, <1>7, <2>5
    <3> QED
      BY <1>2, <1>7, <2>3, <3>1 DEF RR!Exit
  <2> QED
    BY <1>9, <2>4, <2>5
<1> QED
  BY <1>2, <1>8, <1>9

\* A new task, or one whose sleep is over, waits behind all others.
LEMMA JoinSteps ==
  ASSUME IInv, Runs, NEW rq, NEW sq, NEW dq, Lists(rq, sq, dq), Places(rq, sq, dq),
         create_kernel_task \/ unblock_task
  PROVE  \E t \in TCB : RR!Create(t) \/ RR!Wake(t)
<1>1. ControlTypes /\ current_task_PCB \in TCB
  BY DEF IInv, ControlTypes
<1>2. PICK c \in TCB : c = current_task_PCB
  BY <1>1
<1>3. rq \in Seq(TCB)
  BY DEF Lists, IsList
<1>4. ASSUME NEW t \in TCB, t # c, c \notin Elems(rq)
      PROVE  /\ Trim(rq, c) = rq /\ << >> \o rq = rq
             /\ Trim(Append(rq, t), c) = Append(rq, t) /\ << >> \o Append(rq, t) = Append(rq, t)
  <2>1. Append(rq, t) \in Seq(TCB)
    BY <1>3
  <2>2. c \notin Elems(Append(rq, t))
    BY <1>3, <1>4 DEF Elems
  <2>3. Trim(rq, c) = rq /\ << >> \o rq = rq
    BY <1>3, <1>4, TrimOut, HeadTail
  <2>4. Trim(Append(rq, t), c) = Append(rq, t) /\ << >> \o Append(rq, t) = Append(rq, t)
    BY <2>1, <2>2, TrimOut, HeadTail
  <2> QED
    BY <2>3, <2>4
<1>5. CASE create_kernel_task
  <2>1. PICK t \in TCB : /\ t # current_task_PCB /\ t \notin Elems(rq) \cup Elems(sq) \cup Elems(dq)
                         /\ Lists(Append(rq, t), sq, dq)' /\ Places(Append(rq, t), sq, dq)'
    BY <1>5, CreatePlaced
  <2>2. /\ current_task_PCB' = c /\ pc[c] = "create" /\ pc'[c] = "unlock"
    BY <1>1, <1>2, <1>5 DEF create_kernel_task, MainFrame, Running, ControlTypes
  <2>3. ~Popped /\ ~Popped' /\ ~Linked
    BY <1>2, <2>2 DEF Popped, ScheduleBody, Linked
  <2>4. c \notin Elems(rq)
    BY <1>2, <2>3 DEF Places
  <2>5. Ready = rq /\ Sleeping = Elems(sq) \ {c} /\ Gone = Elems(dq) \ {c}
    BY <1>2, <1>4, <2>1, <2>3, <2>4, Views
  <2>6. Ready' = Append(rq, t) /\ Sleeping' = Elems(sq) \ {c} /\ Gone' = Elems(dq) \ {c}
    BY <1>2, <1>4, <2>1, <2>2, <2>3, <2>4, ViewsAfter
  <2>7. \A i \in DOMAIN rq : rq[i] \in Elems(rq)
    BY <1>3 DEF Elems
  <2>8. t \notin RR!Known
    BY <1>2, <2>1, <2>5, <2>7 DEF RR!Known, RR!Waiting
  <2>9. RR!Create(t)
    BY <1>2, <2>2, <2>5, <2>6, <2>8 DEF RR!Create
  <2> QED
    BY <2>9
<1>6. CASE unblock_task
  <2>1. PICK i \in 1..Len(sq), t \in TCB :
           /\ t = sq[i] /\ t # current_task_PCB /\ t \in Elems(sq) /\ current_task_PCB' = current_task_PCB
           /\ ~Popped /\ ~Popped' /\ current_task_PCB \notin Elems(rq)
           /\ Elems(Without(sq, i)) = Elems(sq) \ {t}
           /\ Lists(Append(rq, t), Without(sq, i), dq)'
           /\ Places(Append(rq, t), Without(sq, i), dq)'
    BY <1>6, UnblockPlaced
  <2>2. Ready = rq /\ Sleeping = Elems(sq) \ {c} /\ Gone = Elems(dq) \ {c}
    BY <1>2, <1>4, <2>1, Views
  <2>3. /\ Ready' = << >> \o Trim(Append(rq, t), current_task_PCB')
        /\ Sleeping' = Elems(Without(sq, i)) \ {current_task_PCB'}
        /\ Gone' = Elems(dq) \ {current_task_PCB'}
    BY <2>1, ViewsAfter
  <2>4. Ready' = Append(Ready, t) /\ Sleeping' = Sleeping \ {t} /\ Gone' = Gone /\ t \in Sleeping
    BY <1>2, <1>4, <2>1, <2>2, <2>3
  <2>5. RR!Wake(t)
    BY <2>1, <2>4 DEF RR!Wake
  <2> QED
    BY <2>5
<1> QED
  BY <1>5, <1>6

\* Every step outside dead_tasks_cleanup is a step of cooperative round robin or none.
LEMMA RoundRobinStep ==
  ASSUME Ordinary, IInv, LInv, [Next]_vars
  PROVE  [RR!Next]_(RR!vars)
<1>1. Runs
  BY DEF LInv
<1>2. PICK rq, sq, dq : Lists(rq, sq, dq) /\ Places(rq, sq, dq)
  BY DEF LInv, Placed
<1>3. MovesTask \/ (Quiet /\ Runs' /\ Cursor(sq)')
  BY <1>1, <1>2, NextKinds
<1>4. CASE switch_to_task
  BY <1>1, <1>2, <1>4, SwitchSteps DEF RR!Next
<1>5. CASE create_kernel_task \/ unblock_task
  BY <1>1, <1>2, <1>5, JoinSteps DEF RR!Next
<1>6. CASE ~(switch_to_task \/ create_kernel_task \/ unblock_task)
  BY <1>1, <1>2, <1>3, <1>6, StutterSteps DEF MovesTask
<1> QED
  BY <1>4, <1>5, <1>6

\* The steps of dead_tasks_cleanup: free_task takes a task off those that are gone,
\* the others change no view.
LEMMA RoundRobinCleanup ==
  ASSUME \/ dead_tasks_cleanup /\ IInv /\ LInv
         \/ (free_task \/ cleanup_done \/ UNCHANGED vars) /\ IInv /\ Runs /\ Cleaning /\ pc[Main] = "freeing"
  PROVE  [RR!Next]_(RR!vars)
<1>1. ControlTypes /\ Control /\ Main \in TCB
  BY TCBAssumption DEF IInv
<1>2. ASSUME UNCHANGED <<current_task_PCB, first_ready_to_run_task, sleeping_taskes, next, next_task>>,
             Popped' <=> Popped
      PROVE  /\ Ready' = Ready /\ Sleeping' = Sleeping
             /\ Chain(dead_tasks)' = ChainIn(dead_tasks', next)
             /\ Chain(dead_tasks) = ChainIn(dead_tasks, next)
  <2>1. /\ Chain(first_ready_to_run_task)' = Chain(first_ready_to_run_task)
        /\ Chain(sleeping_taskes)' = Chain(sleeping_taskes)
    BY <1>2 DEF Chain, Follow
  <2>2. Queued' = Queued /\ Sleeping' = Sleeping
    BY <1>2, <2>1 DEF Queued, Sleeping
  <2>3. Ready' = Ready
    BY <1>2, <2>2 DEF Ready
  <2> QED
    BY <1>2, <2>2, <2>3 DEF Chain, ChainIn, Follow, FollowIn
<1>3. CASE UNCHANGED vars
  <2>1. UNCHANGED <<current_task_PCB, first_ready_to_run_task, sleeping_taskes, dead_tasks, next,
                    next_task, pc>>
    BY <1>3 DEF vars, lists
  <2>2. Popped' <=> Popped
    BY <2>1 DEF Popped
  <2>3. Ready' = Ready /\ Sleeping' = Sleeping /\ Chain(dead_tasks)' = Chain(dead_tasks)
    BY <1>2, <2>1, <2>2
  <2>4. Gone' = Gone
    BY <2>1, <2>3 DEF Gone
  <2> QED
    BY <2>1, <2>3, <2>4, ViewsSame
<1>4. CASE dead_tasks_cleanup
  <2>1. current_task_PCB = Main /\ pc[Main] = "cleanup"
    BY <1>1, <1>4, WhoRuns DEF dead_tasks_cleanup, Running, MainLocation
  <2>2. /\ UNCHANGED <<current_task_PCB, first_ready_to_run_task, sleeping_taskes, dead_tasks, next,
                       next_task>>
        /\ pc' = [pc EXCEPT ![Main] = "freeing"]
    BY <1>4, <2>1 DEF dead_tasks_cleanup, Goto, MainFrame, lists
  <2>3. pc'[Main] = "freeing" /\ \A t : t # Main => pc'[t] = pc[t]
    BY <1>1, <2>2 DEF ControlTypes
  <2>4. Popped' <=> Popped
    BY <2>1, <2>2, <2>3 DEF Popped, ScheduleBody
  <2>5. Ready' = Ready /\ Sleeping' = Sleeping /\ Chain(dead_tasks)' = Chain(dead_tasks)
    BY <1>2, <2>2, <2>4
  <2>6. Gone' = Gone
    BY <2>1, <2>2, <2>3, <2>5 DEF Gone
  <2> QED
    BY <2>2, <2>5, <2>6, ViewsSame
<1>5. CASE pc[Main] = "freeing" /\ Cleaning /\ (free_task \/ cleanup_done)
  <2>1. PICK rq, sq, dq : Lists(rq, sq, dq) /\ Reaping(rq, sq, dq)
    BY <1>5 DEF Cleaning
  <2>2. PICK k \in 1..(Len(dq) + 1) :
            /\ node = Nth(dq, k)
            /\ \A j \in 1..Len(dq) : pc[dq[j]] = IF j < k THEN "free" ELSE "abort"
    BY <2>1 DEF Reaping
  <2>3. /\ Gone = {t \in Elems(dq) : pc[t] # "free"} /\ Chain(dead_tasks) = dq /\ ~Popped
        /\ dq \in Seq(TCB) /\ Len(dq) \in Nat /\ ToSet(dq) = Elems(dq) /\ Elems(dq) \subseteq TCB
        /\ current_task_PCB = Main /\ Main \notin Elems(dq)
    <3>1. dq \in Seq(TCB) /\ current_task_PCB = Main /\ Main \notin Elems(dq)
      BY <2>1 DEF Lists, IsList, Reaping
    <3>2. Len(dq) \in Nat /\ ToSet(dq) = Elems(dq) /\ Elems(dq) \subseteq TCB
      BY <2>1, <3>1, ElemsToSet, OnLists
    <3>3. Chain(dead_tasks) = dq
      BY <2>1, ListChains
    <3>4. Gone = {t \in Elems(dq) : pc[t] # "free"} /\ ~Popped
      BY <1>5, <2>1, CleaningViews
    <3> QED
      BY <3>1, <3>2, <3>3, <3>4
  <2>4. /\ UNCHANGED <<current_task_PCB, first_ready_to_run_task, sleeping_taskes, next, next_task>>
    BY <1>5 DEF free_task, cleanup_done, MainFrame, lists
  <2>5. CASE free_task
    <3>1. pc' = [pc EXCEPT ![node] = "free"] /\ dead_tasks' = dead_tasks /\ node # NULL
      BY <2>5 DEF free_task, lists
    <3>2. k \in 1..Len(dq) /\ node = dq[k]
      BY <2>2, <3>1 DEF Nth
    <3>3. node \in Elems(dq) /\ pc[node] = "abort"
      BY <2>2, <2>3, <3>2 DEF Elems
    <3>4. \A t \in TCB : pc'[t] = IF t = node THEN "free" ELSE pc[t]
      BY <1>1, <3>1 DEF ControlTypes
    <3>5. Popped' <=> Popped
      BY <1>1, <1>5, <2>3, <2>4, <3>3, <3>4 DEF Popped
    <3>6. Ready' = Ready /\ Sleeping' = Sleeping /\ Chain(dead_tasks)' = dq
      BY <1>2, <2>3, <2>4, <3>1, <3>5
    <3>7. Gone' = {t \in Elems(dq) : pc'[t] # "free"}
      BY <2>3, <2>4, <3>6 DEF Gone
    <3>8. Gone' = Gone \ {node} /\ node \in Gone /\ node \in TCB
      BY <2>3, <3>3, <3>4, <3>7
    <3>9. RR!Reap(node)
      BY <2>4, <3>6, <3>8 DEF RR!Reap
    <3> QED
      BY <3>8, <3>9 DEF RR!Next
  <2>6. CASE cleanup_done
    <3>1. node = NULL /\ dead_tasks' = NULL /\ pc' = [pc EXCEPT ![Main] = "unlock"]
      BY <2>3, <2>6 DEF cleanup_done, Goto
    <3>2. k \notin 1..Len(dq)
      BY <2>2, <2>3, <3>1, TCBAssumption DEF Nth, Elems
    <3>3. \A j \in 1..Len(dq) : j < k
      BY <2>3, <3>2
    <3>4. Gone = {}
      BY <2>2, <2>3, <3>3 DEF Elems
    <3>5. ~Popped'
      BY <1>1, <2>3, <2>4, <3>1 DEF Popped, ScheduleBody, ControlTypes
    <3>6. Ready' = Ready /\ Sleeping' = Sleeping /\ Chain(dead_tasks)' = ChainIn(NULL, next)
      BY <1>2, <2>3, <2>4, <3>1, <3>5
    <3> DEFINE e == << >>
    <3>7. e \in Seq(TCB) /\ Len(e) = 0 /\ Elems(e) = {}
      BY DEF Elems
    <3> HIDE DEF e
    <3>8. IsList(NULL, e, next)
      BY <3>7 DEF IsList
    <3>9. Chain(dead_tasks)' = e /\ ToSet(e) = {}
      BY <3>6, <3>7, <3>8, ChainList, ElemsToSet
    <3>10. Gone' = {}
      BY <3>9 DEF Gone
    <3> QED
      BY <2>4, <3>4, <3>6, <3>10, ViewsSame
  <2> QED
    BY <1>5, <2>5, <2>6
<1> QED
  BY <1>3, <1>4, <1>5

\* At boot kernel_main runs and there is no other task.
LEMMA RoundRobinInit ==
  ASSUME Init
  PROVE  RR!Init
<1>1. /\ current_task_PCB = Main /\ Main \in TCB /\ pc[Main] = "test_all"
      /\ first_ready_to_run_task = NULL /\ sleeping_taskes = NULL /\ dead_tasks = NULL
  BY TCBAssumption DEF Init, multitasking_initialize
<1> DEFINE e == << >>
<1>2. e \in Seq(TCB) /\ Len(e) = 0 /\ Elems(e) = {} /\ e = << >>
  BY DEF Elems
<1> HIDE DEF e
<1>3. IsList(NULL, e, next)
  BY <1>2 DEF IsList
<1>4. ChainIn(NULL, next) = e
  BY <1>3, ChainList
<1>5. Chain(NULL) = e
  BY <1>4 DEF Follow, FollowIn, Chain, ChainIn
<1>6. ~Popped
  BY <1>1 DEF Popped, ScheduleBody
<1>7. Queued = e
  BY <1>1, <1>2, <1>5 DEF Queued
<1>8. Ready = << >>
  BY <1>2, <1>6, <1>7 DEF Ready
<1>9. ToSet(e) = {}
  BY <1>2, ElemsToSet
<1>10. Sleeping = {} /\ Gone = {}
  BY <1>1, <1>5, <1>9 DEF Sleeping, Gone
<1> QED
  BY <1>1, <1>8, <1>10 DEF RR!Init

\* The scheduler with its linked lists, its locks and its deferred wake-ups implements
\* cooperative round robin: only _switch_to_task hands over the CPU, always to the
\* task that has been ready longest.
THEOREM SchedulerImplementsRoundRobin ==
  Spec => ImplementsRoundRobin
<1>1. Init => RR!Init
  BY RoundRobinInit
<1>2. AInv /\ [Next]_vars => [RR!Next]_(RR!vars)
  BY StepKinds, RoundRobinStep, RoundRobinCleanup
<1> QED
  BY <1>1, <1>2, ListsInductive, PTL DEF Spec, ImplementsRoundRobin, RR!Spec

(***************************************************************************)
(* The sum over a finite set.  MapThenSumSet is a recursive function on    *)
(* the subsets; that there is one, and what it computes, is shown by the   *)
(* smallest subset at which it would fail.                                 *)
(***************************************************************************)
SumOver(f) == MapThenSumSet(LAMBDA t : f[t], TCB)
Pick(s) == CHOOSE x \in s : TRUE
Rest(s) == s \ {Pick(s)}

\* it sums f over each set of sets.
Sums(it, f, sets) ==
    /\ it = [s \in sets |-> it[s]]
    /\ \A s \in sets : it[s] = IF s = {} THEN 0 ELSE f[Pick(s)] + it[Rest(s)]

Small(k) == {s \in SUBSET TCB : Cardinality(s) <= k}

\* A set with one element less.
LEMMA RestSmaller ==
  ASSUME NEW s \in SUBSET TCB, s # {}
  PROVE  /\ Pick(s) \in s /\ Pick(s) \in TCB /\ Rest(s) \in SUBSET TCB
         /\ Cardinality(s) \in Nat /\ Cardinality(Rest(s)) = Cardinality(s) - 1
         /\ Cardinality(s) # 0
<1>1. Pick(s) \in s
  BY DEF Pick
<1>2. IsFiniteSet(s)
  BY TCBAssumption, FS_Subset
<1>3. Cardinality(Rest(s)) = Cardinality(s) - 1
  BY <1>1, <1>2, FS_RemoveElement DEF Rest
<1>4. Cardinality(s) \in Nat /\ Cardinality(s) # 0
  BY <1>2, FS_CardinalityType, FS_EmptySet
<1> QED
  BY <1>1, <1>3, <1>4 DEF Rest

\* The sums of all subsets exist.
LEMMA SumsExist ==
  ASSUME NEW f \in [TCB -> Int]
  PROVE  \E it : Sums(it, f, SUBSET TCB)
<1> DEFINE Part(k, g) == g \in [Small(k) -> Int] /\ Sums(g, f, Small(k))
           Bad == {k \in Nat : ~\E g : Part(k, g)}
<1>0. \A s \in SUBSET TCB : IsFiniteSet(s) /\ Cardinality(s) \in Nat /\ (Cardinality(s) = 0 => s = {})
  BY TCBAssumption, FS_Subset, FS_CardinalityType, FS_EmptySet
<1>1. Bad = {}
  <2> SUFFICES ASSUME Bad # {} PROVE FALSE
    OBVIOUS
  <2>1. PICK k \in Bad : \A m \in Bad : k <= m
    BY Least
  <2>2. k \in Nat /\ ~\E g : Part(k, g)
    OBVIOUS
  <2>3. CASE k = 0
    <3> DEFINE g == [s \in Small(0) |-> 0]
    <3>1. \A s \in Small(0) : s = {}
      <4> SUFFICES ASSUME NEW s \in Small(0) PROVE s = {}
        OBVIOUS
      <4>1. s \in SUBSET TCB /\ Cardinality(s) <= 0
        BY DEF Small
      <4>2. Cardinality(s) = 0
        BY <1>0, <4>1
      <4> QED
        BY <1>0, <4>1, <4>2
    <3>2. g \in [Small(0) -> Int] /\ g = [s \in Small(0) |-> g[s]]
      OBVIOUS
    <3>3. \A s \in Small(0) : g[s] = 0
      OBVIOUS
    <3> HIDE DEF g
    <3>4. Part(0, g)
      BY <3>1, <3>2, <3>3 DEF Sums
    <3> QED
      BY <2>2, <2>3, <3>4
  <2>4. CASE k # 0
    <3>1. k - 1 \in Nat /\ k - 1 \notin Bad
      BY <2>1, <2>2, <2>4
    <3>2. PICK g : Part(k - 1, g)
      BY <3>1
    <3>3. /\ g \in [Small(k - 1) -> Int]
          /\ \A s \in Small(k - 1) : g[s] = IF s = {} THEN 0 ELSE f[Pick(s)] + g[Rest(s)]
      BY <3>2 DEF Sums
    <3> DEFINE h == [s \in Small(k) |-> IF s = {} THEN 0 ELSE f[Pick(s)] + g[Rest(s)]]
    <3>4. \A s \in Small(k) : s # {} => Pick(s) \in TCB /\ Rest(s) \in Small(k - 1)
      <4> SUFFICES ASSUME NEW s \in Small(k), s # {}
                   PROVE  Pick(s) \in TCB /\ Rest(s) \in Small(k - 1)
        OBVIOUS
      <4>1. s \in SUBSET TCB /\ Cardinality(s) <= k
        BY DEF Small
      <4>2. /\ Pick(s) \in TCB /\ Rest(s) \in SUBSET TCB /\ Cardinality(s) \in Nat
            /\ Cardinality(Rest(s)) = Cardinality(s) - 1
        BY <4>1, RestSmaller
      <4>3. Cardinality(Rest(s)) <= k - 1
        BY <2>2, <4>1, <4>2
      <4> QED
        BY <4>2, <4>3 DEF Small
    <3>5. \A s \in Small(k - 1) : s \in Small(k)
      <4> SUFFICES ASSUME NEW s \in Small(k - 1) PROVE s \in Small(k)
        OBVIOUS
      <4>1. s \in SUBSET TCB /\ Cardinality(s) <= k - 1 /\ Cardinality(s) \in Nat
        BY <1>0 DEF Small
      <4>2. Cardinality(s) <= k
        BY <2>2, <4>1
      <4> QED
        BY <4>1, <4>2 DEF Small
    <3>6. \A s \in Small(k) : h[s] = IF s = {} THEN 0 ELSE f[Pick(s)] + g[Rest(s)]
      OBVIOUS
    <3>7. h = [s \in Small(k) |-> h[s]] /\ DOMAIN h = Small(k)
      OBVIOUS
    <3> HIDE DEF h
    <3>8. \A s \in Small(k) : h[s] \in Int
      <4> SUFFICES ASSUME NEW s \in Small(k) PROVE h[s] \in Int
        OBVIOUS
      <4>1. s # {} => f[Pick(s)] \in Int /\ g[Rest(s)] \in Int
        BY <3>3, <3>4
      <4> QED
        BY <3>6, <4>1
    <3>9. h \in [Small(k) -> Int]
      BY <3>7, <3>8
    <3>10. \A s \in Small(k - 1) : h[s] = g[s]
      BY <3>3, <3>5, <3>6
    <3>11. \A s \in Small(k) : h[s] = IF s = {} THEN 0 ELSE f[Pick(s)] + h[Rest(s)]
      BY <3>4, <3>6, <3>10
    <3>12. Part(k, h)
      BY <3>7, <3>9, <3>11 DEF Sums
    <3> QED
      BY <2>2, <3>12
  <2> QED
    BY <2>3, <2>4
<1> DEFINE N == Cardinality(TCB)
<1>2. N \in Nat /\ \A s \in SUBSET TCB : Cardinality(s) <= N
  BY TCBAssumption, FS_CardinalityType, FS_Subset
<1> HIDE DEF N
<1>3. Small(N) = SUBSET TCB
  BY <1>2 DEF Small
<1>4. PICK g : Part(N, g)
  BY <1>1, <1>2
<1> QED
  BY <1>3, <1>4

SumFn(f) == CHOOSE it : Sums(it, f, SUBSET TCB)

\* MapThenSumSet is the sum.
LEMMA SumMeaning ==
  ASSUME NEW f \in [TCB -> Int]
  PROVE  /\ Sums(SumFn(f), f, SUBSET TCB)
         /\ SumOver(f) = SumFn(f)[TCB]
<1>1. Sums(SumFn(f), f, SUBSET TCB)
  BY SumsExist DEF SumFn
<1> DEFINE It(it) == it = [s \in SUBSET TCB |-> IF s = {} THEN 0 ELSE f[Pick(s)] + it[s \ {Pick(s)}]]
<1>2. SumOver(f) = (CHOOSE it : It(it))[TCB]
  BY Zenon DEF SumOver, Pick, MapThenSumSet, MapThenFoldSet
<1>3. ASSUME NEW it PROVE It(it) <=> Sums(it, f, SUBSET TCB)
  BY DEF Sums, Rest
<1>4. (CHOOSE it : It(it)) = SumFn(f)
  <2> HIDE DEF It
  <2> QED
    BY <1>3 DEF SumFn
<1> QED
  BY <1>1, <1>2, <1>4

\* Changing one term by d changes the sum by d.
LEMMA SumStep ==
  ASSUME NEW f \in [TCB -> Int], NEW g \in [TCB -> Int], NEW c \in TCB, NEW d \in Int,
         g[c] = f[c] + d, \A t \in TCB : t # c => g[t] = f[t]
  PROVE  SumOver(f) \in Int /\ SumOver(g) = SumOver(f) + d
<1> DEFINE F == SumFn(f)
           G == SumFn(g)
           Fine(s) == F[s] \in Int /\ G[s] = F[s] + (IF c \in s THEN d ELSE 0)
           Bad == {k \in Nat : \E s \in SUBSET TCB : Cardinality(s) = k /\ ~Fine(s)}
<1>1. /\ SumOver(f) = F[TCB] /\ SumOver(g) = G[TCB]
      /\ \A s \in SUBSET TCB : F[s] = IF s = {} THEN 0 ELSE f[Pick(s)] + F[Rest(s)]
      /\ \A s \in SUBSET TCB : G[s] = IF s = {} THEN 0 ELSE g[Pick(s)] + G[Rest(s)]
  BY SumMeaning DEF Sums
<1> HIDE DEF F, G
<1>2. Bad = {}
  <2> SUFFICES ASSUME Bad # {} PROVE FALSE
    OBVIOUS
  <2>1. PICK k \in Bad : \A m \in Bad : k <= m
    BY Least
  <2>2. PICK s \in SUBSET TCB : Cardinality(s) = k /\ ~Fine(s)
    OBVIOUS
  <2>3. CASE s = {}
    <3>1. F[s] = 0 /\ G[s] = 0 /\ c \notin s
      BY <1>1, <2>3
    <3> QED
      BY <2>2, <3>1
  <2>4. CASE s # {}
    <3>1. /\ Pick(s) \in s /\ Pick(s) \in TCB /\ Rest(s) \in SUBSET TCB
          /\ Cardinality(s) \in Nat /\ Cardinality(Rest(s)) = Cardinality(s) - 1
          /\ Cardinality(s) # 0
      BY <2>4, RestSmaller
    <3>2. Cardinality(Rest(s)) \in Nat /\ ~(k <= Cardinality(Rest(s)))
      BY <2>2, <3>1
    <3>3. Fine(Rest(s))
      BY <2>1, <3>1, <3>2
    <3>4. F[s] = f[Pick(s)] + F[Rest(s)] /\ G[s] = g[Pick(s)] + G[Rest(s)]
      BY <1>1, <2>4
    <3>5. c \in Rest(s) <=> c \in s /\ c # Pick(s)
      BY DEF Rest
    <3>6. f[Pick(s)] \in Int /\ g[Pick(s)] = f[Pick(s)] + (IF Pick(s) = c THEN d ELSE 0)
      <4>1. f[Pick(s)] \in Int
        BY <3>1
      <4>2. CASE Pick(s) = c
        BY <4>1, <4>2
      <4>3. CASE Pick(s) # c
        BY <3>1, <4>1, <4>3
      <4> QED
        BY <4>1, <4>2, <4>3
    <3>7. Fine(s)
      <4>1. CASE Pick(s) = c
        <5>1. c \in s /\ c \notin Rest(s)
          BY <3>1, <3>5, <4>1
        <5> QED
          BY <3>3, <3>4, <3>6, <4>1, <5>1
      <4>2. CASE Pick(s) # c
        <5>1. c \in Rest(s) <=> c \in s
          BY <3>5, <4>2
        <5> QED
          BY <3>3, <3>4, <3>6, <4>2, <5>1
      <4> QED
        BY <4>1, <4>2
    <3> QED
      BY <2>2, <3>7
  <2> QED
    BY <2>3, <2>4
<1>3. Cardinality(TCB) \in Nat /\ TCB \in SUBSET TCB
  BY TCBAssumption, FS_CardinalityType
<1>4. Fine(TCB)
  BY <1>2, <1>3
<1> QED
  BY <1>1, <1>4

\* The sum of no time is 0.
LEMMA SumZero ==
  ASSUME NEW f \in [TCB -> Int], \A t \in TCB : f[t] = 0
  PROVE  SumOver(f) = 0
<1> DEFINE F == SumFn(f)
           Bad == {k \in Nat : \E s \in SUBSET TCB : Cardinality(s) = k /\ F[s] # 0}
<1>1. /\ SumOver(f) = F[TCB]
      /\ \A s \in SUBSET TCB : F[s] = IF s = {} THEN 0 ELSE f[Pick(s)] + F[Rest(s)]
  BY SumMeaning DEF Sums
<1> HIDE DEF F
<1>2. Bad = {}
  <2> SUFFICES ASSUME Bad # {} PROVE FALSE
    OBVIOUS
  <2>1. PICK k \in Bad : \A m \in Bad : k <= m
    BY Least
  <2>2. PICK s \in SUBSET TCB : Cardinality(s) = k /\ F[s] # 0
    OBVIOUS
  <2>3. s # {}
    BY <1>1, <2>2
  <2>4. /\ Pick(s) \in TCB /\ Rest(s) \in SUBSET TCB
        /\ Cardinality(s) \in Nat /\ Cardinality(Rest(s)) = Cardinality(s) - 1
        /\ Cardinality(s) # 0
    BY <2>3, RestSmaller
  <2>5. Cardinality(Rest(s)) \in Nat /\ ~(k <= Cardinality(Rest(s)))
    BY <2>2, <2>4
  <2>6. F[Rest(s)] = 0
    BY <2>1, <2>4, <2>5
  <2> QED
    BY <1>1, <2>2, <2>3, <2>4, <2>6
<1>3. Cardinality(TCB) \in Nat /\ TCB \in SUBSET TCB
  BY TCBAssumption, FS_CardinalityType
<1> QED
  BY <1>1, <1>2, <1>3

(***************************************************************************)
(* The CPU time the tasks were charged                                     *)
(***************************************************************************)
\* A block that is not a task was charged nothing.
FreeUnused == \A t \in TCB : pc[t] = "free" => time_used[t] = 0

CpuInv == CpuTimeConserved /\ FreeUnused

\* No step but free_task frees a block.
LEMMA FreeStep ==
  ASSUME Ordinary, IInv, LInv, [Next]_vars, NEW t \in TCB, pc'[t] = "free"
  PROVE  pc[t] = "free"
<1>1. Runs /\ ControlTypes /\ Control /\ current_task_PCB \in TCB
  BY DEF LInv, IInv, ControlTypes
<1>2. PICK rq, sq, dq : Lists(rq, sq, dq) /\ Places(rq, sq, dq)
  BY DEF LInv, Placed
<1>3. MovesTask \/ (Quiet /\ Runs')
  BY <1>1, <1>2, NextKinds
<1>4. CASE Quiet /\ Runs'
  <2>1. current_task_PCB' = current_task_PCB /\ pc'[current_task_PCB'] # "free"
    BY <1>4 DEF Quiet, Runs
  <2> QED
    BY <1>4, <2>1 DEF Quiet
<1>5. CASE \/ schedule_pop \/ schedule_drain \/ schedule_link
           \/ micro_sleep_until \/ terminate_task \/ mark_task_for_death
  <2>1. \E l \in {"drain", "charge", "switch", "unlock"} : pc' = [pc EXCEPT ![current_task_PCB] = l]
    BY <1>5 DEF schedule_pop, schedule_drain, schedule_link, micro_sleep_until, terminate_task,
         mark_task_for_death, Goto
  <2> QED
    BY <1>1, <2>1 DEF ControlTypes
<1>6. CASE switch_to_task
  <2>1. pc' = [pc EXCEPT ![current_task_PCB] = ret[current_task_PCB]]
    BY <1>6 DEF switch_to_task, Goto
  <2>2. ret[current_task_PCB] # "free"
    BY <1>1 DEF ControlTypes, ReturnPlace
  <2> QED
    BY <1>1, <2>1, <2>2 DEF ControlTypes
<1>7. CASE create_kernel_task
  <2>1. PICK u \in TCB : pc' = [pc EXCEPT ![u] = "start", ![current_task_PCB] = "unlock"]
    BY <1>7 DEF create_kernel_task
  <2> QED
    BY <1>1, <2>1 DEF ControlTypes
<1>8. CASE unblock_task
  BY <1>8 DEF unblock_task
<1> QED
  BY <1>3, <1>4, <1>5, <1>6, <1>7, <1>8 DEF MovesTask

\* Who changes the CPU time: update_time_used and create_kernel_task.
LEMMA ChargeStep ==
  ASSUME [Next]_vars
  PROVE  update_time_used \/ create_kernel_task \/ UNCHANGED <<time_used, last_tick>>
<1>1. CASE UNCHANGED vars
  BY <1>1 DEF vars, fields, clock
<1>2. CASE unlock_scheduler \/ unlock_tail
  BY <1>2 DEF unlock_scheduler, unlock_tail, fields, clock
<1>3. CASE Schedule
  BY <1>3 DEF Schedule, schedule_enter, schedule_pop, schedule_drain, schedule_charge,
       schedule_requeue, schedule_link, switch_to_task, fields, clock
<1>4. CASE Task
  BY <1>4 DEF Task, task_start_up, yield, long_task, micro_sleep, micro_sleep_until, block_task,
       BlockedSchedule, Slept, terminate_task, mark_task_for_death, TaskFrame, fields, clock
<1>5. CASE kernel_main
  <2>1. CASE test_all \/ create_out_of_memory \/ created \/ first_yield \/ loop_head
             \/ loop_body \/ hlt \/ test_exit \/ app_exit
    BY <2>1 DEF test_all, create_out_of_memory, created, first_yield, loop_head, loop_body, hlt,
         test_exit, app_exit, fields, clock
  <2>2. CASE get_task_state \/ walk_ready \/ walk_sleeping \/ walk_dead
    BY <2>2 DEF get_task_state, walk_ready, walk_sleeping, walk_dead, Walk, WalkFrame, fields, clock
  <2>3. CASE dead_tasks_cleanup \/ free_task \/ cleanup_done
    BY <2>3 DEF dead_tasks_cleanup, free_task, cleanup_done, fields, clock
  <2> QED
    BY <1>5, <2>1, <2>2, <2>3 DEF kernel_main
<1>6. CASE irq_0_handler \/ Timer \/ irq_1_handler
  BY <1>6 DEF irq_0_handler, Timer, unblock_task, still_sleeping, irq_0_return, irq_1_handler,
       IrqFrame, fields
<1>7. CASE abort_loop
  BY <1>7 DEF abort_loop, vars, fields, clock
<1> QED
  BY <1>1, <1>2, <1>3, <1>4, <1>5, <1>6, <1>7 DEF Next, CPU

(***************************************************************************)
(* kernel_main from dead_tasks_cleanup on                                  *)
(***************************************************************************)
\* kernel_main frees the dead, or has freed them: it keeps the CPU and creates no
\* task any more.
Over ==
    /\ current_task_PCB = Main /\ task_switches_postponed_flag = 0
    /\ \/ pc[Main] = "idle"
       \/ pc[Main] \in {"freeing", "unlock", "unlock_tail"} /\ after[Main] = "idle"

\* dead_tasks_cleanup takes the scheduler's lock with nothing postponed.
LEMMA OverStarts ==
  ASSUME IInv, dead_tasks_cleanup
  PROVE  Over' /\ panic' = panic /\ UNCHANGED <<time_used, last_tick>>
<1>1. ControlTypes /\ Control /\ Main \in TCB
  BY TCBAssumption DEF IInv
<1>2. current_task_PCB = Main /\ pc[Main] = "cleanup"
  BY <1>1, WhoRuns DEF dead_tasks_cleanup, Running, MainLocation
<1>3. task_switches_postponed_flag = 0
  BY <1>1, <1>2 DEF Control, PostponeClean
<1>4. /\ current_task_PCB' = Main /\ task_switches_postponed_flag' = 0 /\ panic' = panic
      /\ pc'[Main] = "freeing" /\ after'[Main] = "idle" /\ UNCHANGED <<time_used, last_tick>>
  BY <1>1, <1>2, <1>3 DEF dead_tasks_cleanup, LockUntil, Goto, MainFrame, fields, clock, ControlTypes
<1> QED
  BY <1>4 DEF Over

\* Freeing the dead, releasing the lock and idling switch to no other task, abort
\* nothing and charge nobody.
LEMMA OverStep ==
  ASSUME AInv, Over, [Next]_vars
  PROVE  Over' /\ panic' = panic /\ UNCHANGED <<time_used, last_tick>>
<1>1. IInv /\ ControlTypes /\ Control /\ Main \in TCB /\ current_task_PCB = Main
  BY TCBAssumption DEF AInv, IInv, Over
<1>2. /\ pc[Main] \in {"idle", "freeing", "unlock", "unlock_tail"}
      /\ pc[Main] # "idle" => after[Main] = "idle"
      /\ task_switches_postponed_flag = 0
  BY DEF Over
<1>3. ~Schedule /\ ~Task
  BY <1>1, <1>2 DEF Schedule, schedule_enter, schedule_pop, schedule_drain,
     schedule_charge, schedule_requeue, schedule_link, switch_to_task, Task, task_start_up, yield,
     long_task, micro_sleep, micro_sleep_until, block_task, BlockedSchedule, Slept, terminate_task,
     mark_task_for_death, Running
<1>4. kernel_main => free_task \/ cleanup_done
  BY <1>1, <1>2 DEF kernel_main, test_all, create_kernel_task, create_out_of_memory, created,
     first_yield, loop_head, get_task_state, walk_ready, walk_sleeping, Walk, walk_dead, loop_body,
     hlt, test_exit, app_exit, dead_tasks_cleanup, Running
<1>5. CASE unlock_scheduler
  <2>1. /\ pc[Main] = "unlock" /\ pc' = [pc EXCEPT ![Main] = "unlock_tail"]
        /\ UNCHANGED <<current_task_PCB, after, panic, time_used, last_tick,
                       task_switches_postponed_flag>>
    BY <1>1, <1>2, <1>5 DEF unlock_scheduler, Running, Goto, fields, clock
  <2> QED
    BY <1>1, <1>2, <2>1 DEF Over, ControlTypes
<1>6. CASE unlock_tail
  <2>1. /\ pc[Main] = "unlock_tail" /\ pc' = [pc EXCEPT ![Main] = "idle"]
        /\ UNCHANGED <<current_task_PCB, after, panic, time_used, last_tick,
                       task_switches_postponed_flag>>
    BY <1>1, <1>2, <1>6 DEF unlock_tail, Running, Goto, fields, clock
  <2> QED
    BY <1>1, <1>2, <2>1 DEF Over, ControlTypes
<1>7. CASE free_task
  <2>1. pc[Main] = "freeing"
    BY <1>1, <1>7 DEF free_task, Running
  <2>2. pc'[Main] = "freeing"
    BY <1>7, <2>1, FreeReaps DEF AInv
  <2>3. UNCHANGED <<current_task_PCB, after, panic, time_used, last_tick, task_switches_postponed_flag>>
    BY <1>7 DEF free_task, MainFrame, fields, clock, locks
  <2> QED
    BY <1>1, <1>2, <2>1, <2>2, <2>3 DEF Over
<1>8. CASE cleanup_done
  <2>1. /\ pc[Main] = "freeing" /\ pc' = [pc EXCEPT ![Main] = "unlock"]
        /\ UNCHANGED <<current_task_PCB, after, panic, time_used, last_tick,
                       task_switches_postponed_flag>>
    BY <1>1, <1>8 DEF cleanup_done, Running, Goto, MainFrame, fields, clock, locks
  <2> QED
    BY <1>1, <1>2, <2>1 DEF Over, ControlTypes
<1>9. CASE irq_0_handler \/ Timer \/ irq_1_handler \/ abort_loop \/ UNCHANGED vars
  <2>1. UNCHANGED <<current_task_PCB, after, panic, time_used, last_tick, task_switches_postponed_flag>>
    BY <1>9 DEF irq_0_handler, Timer, unblock_task, still_sleeping, irq_0_return, irq_1_handler,
       abort_loop, IrqFrame, vars, fields, clock, locks
  <2>2. pc'[Main] = pc[Main]
    BY <1>1, <1>2, <1>9 DEF irq_0_handler, Timer, unblock_task, still_sleeping, irq_0_return,
       irq_1_handler, abort_loop, vars, Wake, ControlTypes
  <2> QED
    BY <1>1, <1>2, <2>1, <2>2 DEF Over
<1> QED
  BY <1>3, <1>4, <1>5, <1>6, <1>7, <1>8, <1>9 DEF Next, CPU

\* Every step keeps the charged time equal to the clock last read.
LEMMA NextCpuInv ==
  ASSUME Ordinary, IInv, LInv, [Next]_vars, CpuInv
  PROVE  CpuInv'
<1>1. /\ time_used \in [TCB -> Nat] /\ last_tick \in Nat /\ ticks_since_boot \in Nat
      /\ current_task_PCB \in TCB
  BY DEF IInv, DataTypes, ControlTypes
<1>2. SumOver(time_used) = last_tick - BootTicks /\ FreeUnused
  BY DEF CpuInv, CpuTimeConserved, SumOver
<1>3. \A t \in TCB : pc'[t] = "free" => pc[t] = "free"
  BY FreeStep
<1>4. BootTicks \in Int
  BY ClockAssumption
<1>5. SUFFICES SumOver(time_used') = last_tick' - BootTicks /\ FreeUnused'
  <2>1. CpuTimeConserved' <=> SumOver(time_used') = last_tick' - BootTicks
    BY Zenon DEF CpuTimeConserved, SumOver, MapThenSumSet, MapThenFoldSet
  <2> QED
    BY <2>1, Zenon DEF CpuInv
<1>6. time_used \in [TCB -> Int]
  BY <1>1
<1>7. CASE update_time_used
  <2>1. PICK c \in TCB : c = current_task_PCB
    BY <1>1
  <2>2. PICK d \in Int : d = ticks_since_boot - last_tick
    BY <1>1
  <2>3. time_used' = [time_used EXCEPT ![c] = @ + d] /\ last_tick' = ticks_since_boot
    BY <1>7, <2>1, <2>2 DEF update_time_used
  <2>4. /\ time_used' \in [TCB -> Int] /\ time_used'[c] = time_used[c] + d
        /\ \A t \in TCB : t # c => time_used'[t] = time_used[t]
    BY <1>6, <2>3
  <2>5. SumOver(time_used) \in Int /\ SumOver(time_used') = SumOver(time_used) + d
    BY <1>6, <2>4, SumStep
  <2>6. SumOver(time_used') = last_tick' - BootTicks
    BY <1>1, <1>2, <1>4, <2>2, <2>3, <2>5
  <2>7. pc[c] # "free"
    BY <2>1 DEF LInv, Runs
  <2> QED
    BY <1>2, <1>3, <2>4, <2>6, <2>7 DEF FreeUnused
<1>8. CASE create_kernel_task
  <2>1. PICK t \in TCB : pc[t] = "free" /\ time_used' = [time_used EXCEPT ![t] = 0]
    BY <1>8 DEF create_kernel_task
  <2>2. last_tick' = last_tick
    BY <1>8 DEF create_kernel_task, clock
  <2>3. time_used' = time_used
    BY <1>1, <1>2, <2>1 DEF FreeUnused
  <2> QED
    BY <1>2, <1>3, <2>2, <2>3 DEF FreeUnused
<1>9. CASE UNCHANGED <<time_used, last_tick>>
  BY <1>2, <1>3, <1>9 DEF FreeUnused
<1> QED
  BY <1>7, <1>8, <1>9, ChargeStep

\* update_time_used charges each tick once: what the tasks were charged adds up to
\* the clock when it was last read, for any number of tasks.
THEOREM CpuTimeAddsUp ==
  Spec => []CpuTimeConserved
<1> DEFINE I == (CpuInv /\ pc[Main] # "freeing") \/ (CpuTimeConserved /\ Over)
<1>1. Init => I
  <2> SUFFICES ASSUME Init PROVE I
    OBVIOUS
  <2>1. time_used = [t \in TCB |-> 0] /\ last_tick = BootTicks /\ BootTicks \in Int
    BY ClockAssumption DEF Init, multitasking_initialize
  <2>2. time_used \in [TCB -> Int] /\ \A t \in TCB : time_used[t] = 0
    BY <2>1
  <2>3. SumOver(time_used) = 0
    BY <2>2, SumZero
  <2>4. SumOver(time_used) = last_tick - BootTicks
    BY <2>1, <2>3
  <2>5. pc[Main] = "test_all"
    BY TCBAssumption DEF Init
  <2> QED
    BY <2>2, <2>4, <2>5 DEF CpuInv, CpuTimeConserved, SumOver, FreeUnused
<1>2. AInv /\ I /\ [Next]_vars => I'
  <2> SUFFICES ASSUME AInv, I, [Next]_vars PROVE I'
    OBVIOUS
  <2>1. UNCHANGED <<time_used, last_tick>> /\ CpuTimeConserved => CpuTimeConserved'
    <3>1. CpuTimeConserved <=> SumOver(time_used) = last_tick - BootTicks
      BY Zenon DEF CpuTimeConserved, SumOver
    <3>2. CpuTimeConserved' <=> SumOver(time_used') = last_tick' - BootTicks
      BY Zenon DEF CpuTimeConserved, SumOver, MapThenSumSet, MapThenFoldSet
    <3>3. UNCHANGED <<time_used, last_tick>> => time_used' = time_used /\ last_tick' = last_tick
      OBVIOUS
    <3> QED
      BY <3>1, <3>2, <3>3, Zenon
  <2>2. CASE CpuTimeConserved /\ Over
    BY <2>1, <2>2, OverStep
  <2>3. CASE CpuInv /\ pc[Main] # "freeing"
    <3>1. CASE Ordinary /\ IInv /\ LInv
      BY <2>3, <3>1, NextCpuInv, NotFreeing
    <3>2. CASE dead_tasks_cleanup /\ IInv /\ LInv
      BY <2>1, <2>3, <3>2, OverStarts DEF CpuInv
    <3> QED
      BY <2>3, <3>1, <3>2, StepKinds
  <2> QED
    BY <2>2, <2>3
<1>3. I => CpuTimeConserved
  BY DEF CpuInv
<1> HIDE DEF I
<1> QED
  BY <1>1, <1>2, <1>3, ListsInductive, PTL DEF Spec

(***************************************************************************)
(* kernel_main's two waiting loops                                         *)
(***************************************************************************)
Long(t) == func[t] = "long_task"

\* A task that gives up the CPU inside a lock has ended.
Ended(t) == Long(t) => pc[t] = "abort"

LongPlace == InSchedule \cup {"free", "start", "body", "yield", "death", "blocked_for_good", "abort",
                              "unlock", "unlock_tail"}

\* Only long_task leaves the CPU inside its lock; the demo tasks never do.
FuncPlace(t) ==
    /\ pc[t] = "free" => Long(t)
    /\ IF Long(t)
       THEN /\ pc[t] \in LongPlace /\ after[t] \in {"body", "blocked_for_good"}
            /\ ret[t] \in {"unlock", "unlock_tail", "abort"}
       ELSE /\ pc[t] # "yield"
            /\ pc[t] = "unlock_tail" => t = current_task_PCB
            /\ pc[t] \in InSchedule => ret[t] \notin {"unlock", "unlock_tail"}

FuncInv ==
    /\ \A t \in TCB \ {Main} : FuncPlace(t)
    /\ task_switches_postponed_flag # 0 => current_task_PCB = Main \/ Long(current_task_PCB)

\* kernel_main does not yield while it creates tasks, and halts for the demo only.
MainInv ==
    /\ \/ pc[Main] \in InSchedule \cup {"yield"} \/ current_task_PCB # Main
       \/ task_switches_postponed_flag # 0
       => after[Main] # "created"
    /\ after[Main] = "hlt" \/ pc[Main] \in {"hlt", "halted"} => phase = "app"
    /\ pc[Main] = "assert" => phase = "test"
    /\ panic = "none" /\ pc[Main] \notin {"test_all", "create"} => watched # << >>

\* Until the first yield of the self test no task has run.
Fresh ==
    /\ phase = "test"
    /\ \/ pc[Main] \in {"test_all", "create", "created", "assert"}
       \/ pc[Main] \in {"unlock", "unlock_tail"} /\ after[Main] = "created"

FreshInv == Fresh => \A t \in TCB \ {Main} : pc[t] \in {"free", "start"}

\* The self test watches every task there is.
WatchedInv ==
    /\ \A i \in 1..Len(watched) : watched[i] # Main /\ pc[watched[i]] # "free"
    /\ phase = "test" => \A t \in TCB \ {Main} :
          pc[t] = "free" \/ \E i \in 1..Len(watched) : watched[i] = t

Walks == {"get_task_state", "walk_ready", "walk_sleeping", "walk_dead"}

\* node is a task of the ready list, at or before t.
Before(rq, t) == \E i, k \in 1..Len(rq) : i <= k /\ node = rq[i] /\ rq[k] = t

\* The loop has passed the tasks that have ended, and get_task_state does not miss
\* one that waits inside its lock.
WalkInv ==
    /\ pc[Main] \in Walks => wi \in 1..Len(watched) /\ \A j \in 1..(wi - 1) : Ended(watched[j])
    /\ pc[Main] = "loop_exit" => \A j \in 1..Len(watched) : Ended(watched[j])
    /\ pc[Main] \in {"walk_sleeping", "walk_dead"} => Ended(watched[wi])
    /\ pc[Main] = "walk_ready" =>
          Ended(watched[wi]) \/ Before(Chain(first_ready_to_run_task), watched[wi])

KInv == FuncInv /\ MainInv /\ FreshInv /\ WatchedInv /\ WalkInv /\ panic # "tests failed"

\* A task inside schedule and unlock_scheduler, or in its own code.
LEMMA TaskInside ==
  ASSUME IInv, Runs, FuncInv, Inside, NEW c \in TCB, c = current_task_PCB, c # Main
  PROVE  FuncPlace(c)'
<1>1. ControlTypes /\ DataTypes /\ Control
  BY DEF IInv
<1>2. FuncPlace(c) /\ func' = func /\ irq = "none"
  BY InsideFrame DEF FuncInv
<1>3. pc[c] \in TaskPlace /\ after[c] \in TaskAfter /\ ret[c] \in ReturnPlace /\ pc[c] # "free"
  BY <1>1 DEF Control, TaskControl, ControlTypes, Runs
<1>4. CASE unlock_scheduler
  <2>1. /\ pc[c] = "unlock" /\ after'[c] = after[c] /\ current_task_PCB' = c
        /\ \/ /\ task_switches_postponed_flag # 0 /\ pc'[c] = "schedule" /\ ret'[c] = "unlock_tail"
           \/ pc'[c] = "unlock_tail" /\ ret'[c] = ret[c]
    BY <1>1, <1>4 DEF unlock_scheduler, Running, Goto, CallSchedule, ControlTypes
  <2>2. task_switches_postponed_flag # 0 => Long(c)
    BY DEF FuncInv
  <2> QED
    BY <1>2, <2>1, <2>2 DEF FuncPlace, Long, LongPlace, InSchedule, ScheduleBody
<1>5. CASE unlock_tail
  <2>1. pc'[c] = after[c] /\ after'[c] = after[c] /\ ret'[c] = ret[c] /\ pc[c] = "unlock_tail"
    BY <1>1, <1>5 DEF unlock_tail, Running, Goto, ControlTypes
  <2> QED
    BY <1>2, <1>3, <2>1 DEF FuncPlace, Long, LongPlace, InSchedule, ScheduleBody, TaskAfter
<1>6. CASE schedule_enter
  <2>1. /\ pc[c] = "schedule" /\ after'[c] = after[c] /\ ret'[c] = ret[c]
        /\ pc'[c] \in {"pop", ret[c]} /\ current_task_PCB' = c
    BY <1>1, <1>6 DEF schedule_enter, Running, Goto, ControlTypes
  <2> QED
    BY <1>2, <1>3, <2>1 DEF FuncPlace, Long, LongPlace, InSchedule, ScheduleBody, ReturnPlace
<1>7. CASE schedule_pop \/ schedule_drain \/ schedule_charge \/ schedule_requeue \/ schedule_link
  <2>1. /\ pc[c] \in ScheduleBody /\ pc'[c] \in ScheduleBody
        /\ after'[c] = after[c] /\ ret'[c] = ret[c]
    BY <1>1, <1>7 DEF schedule_pop, schedule_drain, schedule_charge, schedule_requeue, schedule_link,
         Running, Goto, ControlTypes, ScheduleFrame, ScheduleBody
  <2> QED
    BY <1>2, <2>1 DEF FuncPlace, Long, LongPlace, InSchedule, ScheduleBody
<1>8. CASE switch_to_task
  <2>1. /\ pc[c] = "switch" /\ after'[c] = after[c] /\ ret'[c] = ret[c] /\ pc'[c] = ret[c]
    BY <1>1, <1>8 DEF switch_to_task, Running, Goto, ControlTypes
  <2> QED
    BY <1>2, <1>3, <2>1 DEF FuncPlace, Long, LongPlace, InSchedule, ScheduleBody, ReturnPlace
<1>9. CASE task_start_up
  <2>1. pc[c] = "start" /\ after'[c] = after[c] /\ ret'[c] = ret[c] /\ pc'[c] = "body"
    BY <1>1, <1>9 DEF task_start_up, Running, Goto, ControlTypes
  <2> QED
    BY <1>2, <2>1 DEF FuncPlace, Long, LongPlace, InSchedule, ScheduleBody
<1>10. CASE yield
  <2>1. pc[c] = "yield" /\ after'[c] = after[c] /\ ret'[c] = "unlock" /\ pc'[c] = "schedule"
    BY <1>1, <1>10 DEF yield, Running, Goto, CallSchedule, ControlTypes
  <2> QED
    BY <1>2, <2>1 DEF FuncPlace, Long, LongPlace, InSchedule, ScheduleBody
<1>11. CASE long_task
  <2>1. /\ pc[c] = "body" /\ Long(c) /\ ret'[c] = ret[c]
        /\ \/ after'[c] = "body" /\ pc'[c] = "yield"
           \/ after'[c] = after[c] /\ pc'[c] = "death"
    BY <1>1, <1>11 DEF long_task, Running, Goto, Long, ControlTypes
  <2> QED
    BY <1>2, <2>1 DEF FuncPlace, Long, LongPlace, InSchedule, ScheduleBody
<1>12. CASE micro_sleep
  <2>1. ~Long(c) /\ after'[c] = after[c] /\ ret'[c] = ret[c] /\ pc'[c] \in {"micro_sleep_until", "death"}
    BY <1>1, <1>12 DEF micro_sleep, Running, Goto, Long, ControlTypes
  <2> QED
    BY <1>2, <2>1 DEF FuncPlace, Long, InSchedule, ScheduleBody
<1>13. CASE \/ micro_sleep_until \/ terminate_task
            \/ block_task("block_sleeping", TASK_STATE_SLEEPING, "blocked_sleeping")
            \/ block_task("block_terminated", TASK_STATE_TERMINATED, "blocked_for_good")
  <2>1. /\ pc[c] \in {"micro_sleep_until", "terminate", "block_sleeping", "block_terminated"}
        /\ pc'[c] = "unlock"
    BY <1>1, <1>13 DEF micro_sleep_until, terminate_task, block_task, Running, Goto, ControlTypes
  <2>2. ~Long(c)
    BY <1>2, <2>1 DEF FuncPlace, LongPlace, InSchedule, ScheduleBody
  <2> QED
    BY <1>2, <2>1, <2>2 DEF FuncPlace, Long, InSchedule, ScheduleBody
<1>14. CASE mark_task_for_death
  <2>1. pc'[c] = "unlock" /\ after'[c] = "blocked_for_good" /\ ret'[c] = ret[c]
    BY <1>1, <1>14 DEF mark_task_for_death, LockUntil, Running, Goto, ControlTypes
  <2> QED
    BY <1>2, <2>1 DEF FuncPlace, Long, LongPlace, InSchedule, ScheduleBody
<1>15. CASE BlockedSchedule("blocked_sleeping", "slept")
  <2>1. pc[c] = "blocked_sleeping" /\ pc'[c] = "schedule" /\ ret'[c] = "slept"
    BY <1>1, <1>15 DEF BlockedSchedule, CallSchedule, Running, Goto, ControlTypes
  <2>2. ~Long(c)
    BY <1>2, <2>1 DEF FuncPlace, LongPlace, InSchedule, ScheduleBody
  <2> QED
    BY <1>2, <2>1, <2>2 DEF FuncPlace, Long, InSchedule, ScheduleBody
<1>16. CASE BlockedSchedule("blocked_for_good", "abort")
  <2>1. pc'[c] = "schedule" /\ ret'[c] = "abort" /\ after'[c] = after[c]
    BY <1>1, <1>16 DEF BlockedSchedule, CallSchedule, Running, Goto, ControlTypes
  <2> QED
    BY <1>2, <2>1 DEF FuncPlace, Long, LongPlace, InSchedule, ScheduleBody
<1>17. CASE Slept
  <2>1. /\ pc[c] = "slept"
        /\ \/ pc'[c] = "terminate"
           \/ pc'[c] = "schedule" /\ ret'[c] = "body"
    BY <1>1, <1>17 DEF Slept, CallSchedule, Running, Goto, ControlTypes
  <2>2. ~Long(c)
    BY <1>2, <2>1 DEF FuncPlace, LongPlace, InSchedule, ScheduleBody
  <2> QED
    BY <1>2, <2>1, <2>2 DEF FuncPlace, Long, InSchedule, ScheduleBody
<1> QED
  BY <1>4, <1>5, <1>6, <1>7, <1>8, <1>9, <1>10, <1>11, <1>12, <1>13, <1>14, <1>15, <1>16, <1>17
     DEF Inside, Schedule, Task

\* A switch can only be pending for long_task and kernel_main.
LEMMA FlagInside ==
  ASSUME IInv, LInv, FuncInv, Inside
  PROVE  task_switches_postponed_flag' # 0 => current_task_PCB' = Main \/ Long(current_task_PCB)'
<1>1. ControlTypes /\ Control /\ current_task_PCB \in TCB /\ func' = func /\ irq = "none"
  BY InsideFrame DEF IInv, ControlTypes
<1>2. CASE schedule_enter
  <2>1. /\ pc[current_task_PCB] = "schedule" /\ current_task_PCB' = current_task_PCB
        /\ postpone_task_switches_counter = 0 =>
              task_switches_postponed_flag' = task_switches_postponed_flag
    BY <1>2 DEF schedule_enter, Running
  <2>2. task_switches_postponed_flag = 0
    BY <1>1, <2>1 DEF Control, PostponeClean
  <2>3. CASE postpone_task_switches_counter # 0
    <3>1. ret[current_task_PCB] = "unlock"
      BY <1>1, <2>1, <2>3 DEF Control, PostponeClean, InHandler
    <3>2. current_task_PCB # Main => Long(current_task_PCB)
      BY <1>1, <2>1, <3>1 DEF FuncInv, FuncPlace, InSchedule
    <3> QED
      BY <1>1, <2>1, <3>2 DEF Long
  <2> QED
    BY <2>1, <2>2, <2>3
<1>3. CASE switch_to_task
  <2>1. pc[current_task_PCB] = "switch"
    BY <1>3 DEF switch_to_task, Running
  <2>2. task_switches_postponed_flag = 0 /\ postpone_task_switches_counter = 0
    BY <1>1, <2>1 DEF Control, PostponeClean, InHandler
  <2> QED
    BY <1>3, <2>2 DEF switch_to_task
<1>4. CASE Inside /\ ~schedule_enter /\ ~switch_to_task
  <2>1. /\ current_task_PCB' = current_task_PCB
        /\ task_switches_postponed_flag' # 0 => task_switches_postponed_flag # 0
    <3>1. CASE unlock_scheduler \/ unlock_tail
      BY <3>1 DEF unlock_scheduler, unlock_tail
    <3>2. CASE schedule_pop \/ schedule_drain \/ schedule_charge \/ schedule_requeue \/ schedule_link
      BY <3>2 DEF schedule_pop, schedule_drain, schedule_charge, schedule_requeue, schedule_link,
           ScheduleFrame, locks
    <3>3. CASE Task
      BY <3>3 DEF Task, task_start_up, yield, long_task, micro_sleep, micro_sleep_until, block_task,
           BlockedSchedule, Slept, terminate_task, mark_task_for_death, TaskFrame, LockUntil, locks
    <3> QED
      BY <1>4, <3>1, <3>2, <3>3 DEF Inside, Schedule
  <2> QED
    BY <1>1, <2>1 DEF FuncInv, Long
<1> QED
  BY <1>2, <1>3, <1>4

\* kernel_main watches tasks.
LEMMA WatchedTasks ==
  ASSUME IInv
  PROVE  \A i \in 1..Len(watched) : watched[i] \in TCB
<1>1. watched \in Seq(TCB)
  BY DEF IInv, DataTypes
<1> QED
  BY <1>1

\* A step inside the scheduler or of a task preserves the invariant.
LEMMA InsideKInv ==
  ASSUME Ordinary, IInv, LInv, KInv, Inside, [Next]_vars
  PROVE  KInv'
<1>1. ControlTypes /\ Control /\ current_task_PCB \in TCB /\ Main \in TCB /\ Runs
  BY TCBAssumption DEF IInv, ControlTypes, LInv
<1>2. /\ func' = func /\ phase' = phase /\ watched' = watched /\ wi' = wi /\ node' = node
      /\ panic' = panic
      /\ \A t \in TCB : t # current_task_PCB =>
            pc'[t] = pc[t] /\ after'[t] = after[t] /\ ret'[t] = ret[t]
  BY InsideFrame
<1>3. FuncInv /\ MainInv /\ FreshInv /\ WatchedInv /\ WalkInv /\ panic # "tests failed"
  BY DEF KInv
<1>4. FuncInv'
  <2>1. ASSUME NEW t \in TCB \ {Main} PROVE FuncPlace(t)'
    <3>1. CASE t = current_task_PCB
      BY <1>1, <1>3, <3>1, TaskInside
    <3>2. CASE t # current_task_PCB
      BY <1>2, <1>3, <3>2 DEF FuncInv, FuncPlace, Long
    <3> QED
      BY <3>1, <3>2
  <2>2. (task_switches_postponed_flag # 0 => current_task_PCB = Main \/ Long(current_task_PCB))'
    BY <1>3, FlagInside
  <2> QED
    BY <2>1, <2>2 DEF FuncInv
\* kernel_main's own place.
<1>5. /\ after'[Main] = after[Main]
      /\ \/ /\ current_task_PCB # Main /\ pc'[Main] = pc[Main] /\ pc[Main] = "unlock_tail"
            /\ after[Main] # "created"
         \/ /\ current_task_PCB = Main /\ pc[Main] = "unlock" /\ pc'[Main] \in {"unlock_tail", "schedule"}
            /\ pc'[Main] = "schedule" => task_switches_postponed_flag # 0
            /\ task_switches_postponed_flag' # 0 => task_switches_postponed_flag # 0
            /\ current_task_PCB' = Main
         \/ /\ pc[Main] = "unlock_tail" /\ pc'[Main] = after[Main] /\ after[Main] \in MainAfter
            /\ task_switches_postponed_flag' = 0 /\ current_task_PCB' = Main
         \/ /\ pc[Main] \in InSchedule \cup {"yield"}
            /\ pc'[Main] \in InSchedule \cup {"unlock", "unlock_tail"}
  <2>1. CASE current_task_PCB # Main
    BY <1>1, <1>2, <1>3, <2>1 DEF Control, MainAway, MainInv
  <2>2. CASE current_task_PCB = Main
    <3>1. after[Main] \in MainAfter
      BY <1>1 DEF Control, MainControl
    <3>2. pc[Main] \in {"unlock", "unlock_tail"} => current_task_PCB' = current_task_PCB
      <4>1. CASE switch_to_task
        BY <2>2, <4>1 DEF switch_to_task, Running
      <4>2. CASE ~switch_to_task
        BY <4>2 DEF Inside, Schedule, unlock_scheduler, unlock_tail, schedule_enter, schedule_pop,
             schedule_drain, schedule_charge, schedule_requeue, schedule_link, Task, task_start_up,
             yield, long_task, micro_sleep, micro_sleep_until, block_task, BlockedSchedule, Slept,
             terminate_task, mark_task_for_death, TaskFrame
      <4> QED
        BY <4>1, <4>2
    <3> QED
      BY <2>2, <3>1, <3>2, MainInside
  <2> QED
    BY <2>1, <2>2
<1>6. MainInv'
  BY <1>2, <1>3, <1>5 DEF MainInv, MainAfter, InSchedule, ScheduleBody
<1>7. FreshInv'
  <2> SUFFICES ASSUME Fresh' PROVE \A t \in TCB \ {Main} : pc'[t] \in {"free", "start"}
    BY DEF FreshInv
  <2>1. Fresh /\ current_task_PCB = Main
    BY <1>2, <1>3, <1>5 DEF Fresh, MainInv, MainAfter, InSchedule, ScheduleBody
  <2> QED
    BY <1>2, <1>3, <2>1 DEF FreshInv
<1>8. \A t \in TCB : pc'[t] = "free" <=> pc[t] = "free"
  <2>1. \A t \in TCB : pc'[t] = "free" => pc[t] = "free"
    BY FreeStep
  <2> QED
    BY <1>1, <1>2, <2>1 DEF Runs
<1>9. \A i \in 1..Len(watched) : watched[i] \in TCB
  BY WatchedTasks
<1>10. WatchedInv'
  <2>1. \A i \in 1..Len(watched) : watched[i] # Main /\ pc'[watched[i]] # "free"
    BY <1>3, <1>8, <1>9 DEF WatchedInv
  <2>2. phase = "test" => \A t \in TCB \ {Main} :
           pc'[t] = "free" \/ \E i \in 1..Len(watched) : watched[i] = t
    BY <1>3, <1>8 DEF WatchedInv
  <2> QED
    BY <1>2, <2>1, <2>2 DEF WatchedInv
<1>11. WalkInv'
  <2>1. pc'[Main] \notin Walks \cup {"loop_exit"}
    BY <1>5 DEF Walks, MainAfter, InSchedule, ScheduleBody
  <2> QED
    BY <2>1 DEF WalkInv, Walks
<1> QED
  BY <1>2, <1>3, <1>4, <1>6, <1>7, <1>10, <1>11 DEF KInv

\* Appending to the ready list leaves what is behind a node behind it.
LEMMA BeforeAppend ==
  ASSUME NEW rq, rq \in Seq(TCB), NEW t \in TCB, NEW w, Before(rq, w)
  PROVE  Before(Append(rq, t), w)
<1>1. PICK i, k \in 1..Len(rq) : i <= k /\ node = rq[i] /\ rq[k] = w
  BY DEF Before
<1> DEFINE p == Append(rq, t)
<1>2. i \in 1..Len(p) /\ k \in 1..Len(p) /\ p[i] = rq[i] /\ p[k] = rq[k]
  OBVIOUS
<1> HIDE DEF p
<1>3. Before(p, w)
  BY <1>1, <1>2 DEF Before
<1> QED
  BY <1>3 DEF p

\* The tasks the loop has passed are tasks it watches.
LEMMA BeforeIndex ==
  ASSUME IInv, wi \in 1..Len(watched)
  PROVE  wi \in Nat /\ Len(watched) \in Nat /\ \A j \in 1..(wi - 1) : j \in 1..Len(watched)
<1>1. watched \in Seq(TCB)
  BY DEF IInv, DataTypes
<1>2. Len(watched) \in Nat
  BY <1>1
<1> QED
  BY <1>2

\* An interrupt changes nothing of kernel_main's loops but that it ends a hlt.
LEMMA IrqFrameKInv ==
  ASSUME IInv, LInv, irq_0_handler \/ Timer \/ irq_1_handler \/ abort_loop \/ UNCHANGED vars
  PROVE  /\ UNCHANGED <<current_task_PCB, after, ret, func, phase, watched, wi, node, panic,
                        task_switches_postponed_flag>>
         /\ \/ pc' = pc
            \/ /\ current_task_PCB = Main /\ pc[Main] = "halted" /\ pc'[Main] = "loop"
               /\ \A t \in TCB : t # Main => pc'[t] = pc[t]
<1>1. ControlTypes /\ Control /\ current_task_PCB \in TCB
  BY DEF IInv, ControlTypes
<1>2. UNCHANGED <<current_task_PCB, after, ret, func, phase, watched, wi, node, panic,
                  task_switches_postponed_flag>>
  BY DEF irq_0_handler, Timer, unblock_task, still_sleeping, irq_0_return, irq_1_handler, abort_loop,
         IrqFrame, vars, locals, main, locks
<1>3. \/ pc' = pc
      \/ /\ pc[current_task_PCB] = "halted"
         /\ pc' = [pc EXCEPT ![current_task_PCB] = "loop"]
  BY <1>1 DEF irq_0_handler, Timer, unblock_task, still_sleeping, irq_0_return, irq_1_handler,
     abort_loop, vars, Wake, ControlTypes
<1>4. pc[current_task_PCB] = "halted" => current_task_PCB = Main
  BY <1>1, WhoRuns DEF MainLocation
<1> QED
  BY <1>1, <1>2, <1>3, <1>4 DEF ControlTypes

\* An interrupt preserves the invariant.
LEMMA IrqKInv ==
  ASSUME Ordinary, IInv, LInv, KInv, [Next]_vars,
         irq_0_handler \/ Timer \/ irq_1_handler \/ abort_loop \/ UNCHANGED vars
  PROVE  KInv'
<1>1. /\ current_task_PCB' = current_task_PCB /\ after' = after /\ ret' = ret /\ func' = func
      /\ phase' = phase /\ watched' = watched /\ wi' = wi /\ node' = node /\ panic' = panic
      /\ task_switches_postponed_flag' = task_switches_postponed_flag
      /\ \/ pc'[Main] = pc[Main]
         \/ pc[Main] = "halted" /\ pc'[Main] = "loop" /\ current_task_PCB = Main
      /\ \A t \in TCB : t # Main => pc'[t] = pc[t]
  BY IrqFrameKInv
<1>2. FuncInv /\ MainInv /\ FreshInv /\ WatchedInv /\ WalkInv /\ panic # "tests failed"
  BY DEF KInv
<1>3. FuncInv'
  BY <1>1, <1>2 DEF FuncInv, FuncPlace, Long
<1>4. MainInv'
  BY <1>1, <1>2 DEF MainInv, InSchedule, ScheduleBody
<1>5. FreshInv'
  BY <1>1, <1>2 DEF FreshInv, Fresh
<1>6. \A i \in 1..Len(watched) : watched[i] \in TCB
  BY WatchedTasks
<1>7. WatchedInv'
  <2>1. \A i \in 1..Len(watched) : watched[i] # Main /\ pc'[watched[i]] # "free"
    BY <1>1, <1>2, <1>6 DEF WatchedInv
  <2>2. phase = "test" => \A t \in TCB \ {Main} :
           pc'[t] = "free" \/ \E i \in 1..Len(watched) : watched[i] = t
    BY <1>1, <1>2 DEF WatchedInv
  <2> QED
    BY <1>1, <2>1, <2>2 DEF WatchedInv
<1>8. WalkInv'
  <2>1. \A i \in 1..Len(watched) : Ended(watched[i])' <=> Ended(watched[i])
    BY <1>1, <1>2, <1>6 DEF Ended, Long, WatchedInv
  <2>2. pc'[Main] \in Walks \cup {"loop_exit"} => pc'[Main] = pc[Main]
    BY <1>1 DEF Walks
  <2>3. pc[Main] \in Walks => wi \in 1..Len(watched)
    BY <1>2 DEF WalkInv
  <2>4. pc[Main] \in Walks => /\ wi \in 1..Len(watched) /\ \A j \in 1..(wi - 1) : j \in 1..Len(watched)
    BY <2>3, BeforeIndex
  <2>5. pc'[Main] = "walk_ready" =>
           Ended(watched[wi])' \/ Before(Chain(first_ready_to_run_task), watched[wi])'
    <3> SUFFICES ASSUME pc'[Main] = "walk_ready"
                 PROVE  Ended(watched[wi])' \/ Before(Chain(first_ready_to_run_task), watched[wi])'
      OBVIOUS
    <3>1. PICK rq, sq, dq : Lists(rq, sq, dq) /\ Places(rq, sq, dq)
      BY DEF LInv, Placed
    <3>2. Chain(first_ready_to_run_task) = rq /\ rq \in Seq(TCB) /\ Runs
      BY <3>1, Views DEF Lists, IsList, LInv
    <3>3. Chain(first_ready_to_run_task)' = rq
             \/ \E t \in TCB : Chain(first_ready_to_run_task)' = Append(rq, t)
      <4>1. CASE unblock_task
        <5>1. PICK i \in 1..Len(sq), t \in TCB :
                 /\ Lists(Append(rq, t), Without(sq, i), dq)'
                 /\ Places(Append(rq, t), Without(sq, i), dq)'
          BY <3>1, <3>2, <4>1, UnblockPlaced
        <5>2. Chain(first_ready_to_run_task)' = Append(rq, t)
          BY <5>1, ViewsAfter
        <5> QED
          BY <5>2
      <4>2. CASE ~unblock_task
        <5>1. Quiet /\ Cursor(sq)'
          <6>1. CASE irq_0_handler \/ still_sleeping \/ irq_0_return \/ irq_1_handler
            BY <3>1, <3>2, <6>1, TimerQuiet, CursorStep
          <6>2. CASE abort_loop \/ UNCHANGED vars
            <7>1. /\ UNCHANGED <<current_task_PCB, lists, state, target_wakeup_time, next_task,
                       ticks_since_boot, pc, after, ret, arg, task_switches_postponed_flag>>
                  /\ UNCHANGED timer
              BY <6>2 DEF abort_loop, vars, fields, locks, clock, locals
            <7> QED
              BY <3>1, <3>2, <7>1, SameQuiet, CursorSame DEF IInv
          <6> QED
            BY <4>2, <6>1, <6>2 DEF Timer
        <5>2. Lists(rq, sq, dq)'
          BY <3>1, <5>1, QuietLists
        <5>3. Places(rq, sq, dq)'
          BY <3>1, <5>1, QuietPlaces DEF IInv
        <5> QED
          BY <5>2, <5>3, ViewsAfter
      <4> QED
        BY <4>1, <4>2
    <3>4. pc[Main] = "walk_ready"
      BY <2>2 DEF Walks
    <3>5. Ended(watched[wi]) \/ Before(rq, watched[wi])
      BY <1>2, <3>2, <3>4 DEF WalkInv
    <3>6. CASE Ended(watched[wi])
      BY <1>1, <2>1, <2>4, <3>4, <3>6 DEF Walks
    <3>7. CASE Before(rq, watched[wi])
      <4>1. \A t \in TCB : Before(Append(rq, t), watched[wi])
        BY <3>2, <3>7, BeforeAppend
      <4>2. PICK s : Chain(first_ready_to_run_task)' = s /\ Before(s, watched[wi])
        BY <3>3, <3>7, <4>1
      <4> QED
        BY <1>1, <4>2 DEF Before
    <3> QED
      BY <3>5, <3>6, <3>7
  <2> QED
    BY <1>1, <1>2, <2>1, <2>2, <2>4, <2>5 DEF WalkInv, Walks
<1> QED
  BY <1>1, <1>2, <1>3, <1>4, <1>5, <1>7, <1>8 DEF KInv

\* In kernel_main's own code no lock is open but those of suspended tasks.
LEMMA NoHolders ==
  ASSUME IInv, current_task_PCB = Main, irq = "none", pc[Main] \in MainLocation \ {"freeing"},
         \A t \in TCB \ {Main} : pc[t] # "unlock_tail"
  PROVE  IRQ_disable_counter = 0
<1>1. Control /\ LockConservation /\ ControlTypes
  BY DEF IInv
<1>2. pc[Main] # "freeing"
  OBVIOUS
<1>3. \A t \in TCB : ~Holds(t)
  <2> SUFFICES ASSUME NEW t \in TCB PROVE ~Holds(t)
    OBVIOUS
  <2>1. CASE t = Main
    BY <1>2, <2>1 DEF Holds, MainLocation, ScheduleBody
  <2>2. CASE t # Main
    <3>1. pc[t] \in ParkedPlace /\ pc[t] # "unlock_tail"
      BY <1>1, <2>2 DEF Control, Parked
    <3> QED
      BY <3>1 DEF Holds, ParkedPlace, ScheduleBody
  <2> QED
    BY <2>1, <2>2
<1>4. {t \in TCB : Holds(t)} = {}
  BY <1>3
<1>5. Cardinality({t \in TCB : Holds(t)}) = 0
  BY <1>4, FS_EmptySet
<1> QED
  BY <1>1, <1>5 DEF LockConservation, InHandler

\* When the self test's loop ends, no task is left inside a lock.
LEMMA LoopDone ==
  ASSUME IInv, KInv, current_task_PCB = Main, pc[Main] = "loop_exit", phase = "test"
  PROVE  /\ \A t \in TCB \ {Main} : pc[t] # "unlock_tail"
         /\ \A t \in TCB \ {Main} : Long(t) => pc[t] \in {"free", "abort"}
<1>1. ASSUME NEW t \in TCB \ {Main} PROVE Long(t) => pc[t] \in {"free", "abort"}
  <2>1. CASE pc[t] # "free"
    <3>1. PICK i \in 1..Len(watched) : watched[i] = t
      BY <2>1 DEF KInv, WatchedInv
    <3>2. Ended(watched[i])
      BY DEF KInv, WalkInv
    <3> QED
      BY <3>1, <3>2 DEF Ended
  <2> QED
    BY <2>1
<1>2. ASSUME NEW t \in TCB \ {Main} PROVE pc[t] # "unlock_tail"
  <2>1. FuncPlace(t)
    BY DEF KInv, FuncInv
  <2> QED
    BY <1>1, <2>1 DEF FuncPlace
<1> QED
  BY <1>1, <1>2

\* kernel_main runs, with no switch pending.
LEMMA MainRuns ==
  ASSUME IInv, kernel_main
  PROVE  /\ current_task_PCB = Main /\ current_task_PCB' = Main /\ Main \in TCB
         /\ irq = "none" /\ panic = "none" /\ pc[Main] \in MainLocation
         /\ task_switches_postponed_flag = 0 /\ task_switches_postponed_flag' = 0
         /\ ret' = ret
<1>1. ControlTypes /\ Control /\ Main \in TCB
  BY TCBAssumption DEF IInv
<1>2. /\ irq = "none" /\ panic = "none" /\ current_task_PCB' = current_task_PCB /\ ret' = ret
      /\ pc[current_task_PCB] \in MainLocation
      /\ task_switches_postponed_flag' = task_switches_postponed_flag
  <2>1. CASE test_all \/ create_kernel_task \/ create_out_of_memory \/ created \/ first_yield \/ loop_head
             \/ loop_body \/ hlt \/ test_exit \/ app_exit
    BY <2>1 DEF test_all, create_kernel_task, create_out_of_memory, created, first_yield, loop_head,
         loop_body, hlt, test_exit, app_exit, Running, MainFrame, MainLocation, LockUntil, locks
  <2>2. CASE get_task_state \/ walk_ready \/ walk_sleeping \/ walk_dead
    BY <2>2 DEF get_task_state, walk_ready, walk_sleeping, walk_dead, Walk, WalkFrame, Running,
         MainFrame, MainLocation, locks
  <2>3. CASE dead_tasks_cleanup \/ free_task \/ cleanup_done
    BY <2>3 DEF dead_tasks_cleanup, free_task, cleanup_done, Running, MainFrame, MainLocation,
         LockUntil, locks
  <2> QED
    BY <2>1, <2>2, <2>3 DEF kernel_main
<1>3. current_task_PCB = Main
  BY <1>1, <1>2, WhoRuns
<1>4. task_switches_postponed_flag = 0
  BY <1>1, <1>2, <1>3 DEF Control, PostponeClean, MainLocation
<1> QED
  BY <1>1, <1>2, <1>3, <1>4

\* create_kernel_task preserves the invariant.
LEMMA CreateKInv ==
  ASSUME IInv, KInv, create_kernel_task
  PROVE  KInv'
<1>1. /\ current_task_PCB = Main /\ current_task_PCB' = Main /\ Main \in TCB /\ ret' = ret
      /\ task_switches_postponed_flag' = 0
  BY MainRuns DEF kernel_main
<1>2. ControlTypes /\ DataTypes
  BY DEF IInv
<1>3. PICK t \in TCB :
         /\ pc[t] = "free" /\ pc' = [pc EXCEPT ![t] = "start", ![Main] = "unlock"]
         /\ after' = [after EXCEPT ![Main] = "created"]
         /\ func' = [func EXCEPT ![t] = Program[Len(watched) + 1]]
         /\ watched' = Append(watched, t)
  BY <1>1 DEF create_kernel_task, LockUntil
<1>4. pc[Main] = "create" /\ phase' = phase /\ panic' = panic
  BY <1>1 DEF create_kernel_task, Running
<1>5. /\ t # Main /\ pc'[t] = "start" /\ pc'[Main] = "unlock" /\ after'[Main] = "created"
      /\ \A u \in TCB : u # Main => after'[u] = after[u]
      /\ \A u \in TCB : u # Main /\ u # t => pc'[u] = pc[u] /\ func'[u] = func[u]
  BY <1>1, <1>2, <1>3, <1>4 DEF ControlTypes, DataTypes
<1>6. FuncInv /\ MainInv /\ FreshInv /\ WatchedInv /\ panic # "tests failed"
  BY DEF KInv
<1>7. FuncInv'
  <2>1. ASSUME NEW u \in TCB \ {Main} PROVE FuncPlace(u)'
    <3>1. FuncPlace(u)
      BY <1>6 DEF FuncInv
    <3>2. CASE u = t
      BY <1>1, <1>3, <1>5, <3>1, <3>2 DEF FuncPlace, Long, LongPlace, InSchedule, ScheduleBody
    <3>3. CASE u # t
      BY <1>1, <1>5, <3>1, <3>3 DEF FuncPlace, Long
    <3> QED
      BY <3>2, <3>3
  <2> QED
    BY <1>1, <2>1 DEF FuncInv
<1>8. watched \in Seq(TCB)
  BY <1>2 DEF DataTypes
<1>9. /\ Len(watched') = Len(watched) + 1 /\ Len(watched) \in Nat
      /\ watched'[Len(watched) + 1] = t
      /\ \A i \in 1..Len(watched) : watched'[i] = watched[i] /\ watched[i] \in TCB
      /\ watched' # << >>
  BY <1>3, <1>8
<1>10. MainInv'
  BY <1>1, <1>4, <1>5, <1>6, <1>9 DEF MainInv, InSchedule, ScheduleBody
<1>11. FreshInv'
  BY <1>4, <1>5, <1>6 DEF FreshInv, Fresh
<1>12. WatchedInv'
  <2>1. ASSUME NEW i \in 1..Len(watched') PROVE watched'[i] # Main /\ pc'[watched'[i]] # "free"
    <3>1. CASE i = Len(watched) + 1
      BY <1>5, <1>9, <3>1
    <3>2. CASE i # Len(watched) + 1
      <4>1. i \in 1..Len(watched)
        BY <1>9, <3>2
      <4>2. watched[i] # Main /\ pc[watched[i]] # "free"
        BY <1>6, <4>1 DEF WatchedInv
      <4> QED
        BY <1>5, <1>9, <4>1, <4>2
    <3> QED
      BY <3>1, <3>2
  <2>2. ASSUME phase = "test", NEW u \in TCB \ {Main}, pc'[u] # "free"
        PROVE  \E i \in 1..Len(watched') : watched'[i] = u
    <3>1. CASE u = t
      <4>1. Len(watched) + 1 \in 1..Len(watched')
        BY <1>9
      <4> QED
        BY <1>9, <3>1, <4>1
    <3>2. CASE u # t
      <4>1. PICK i \in 1..Len(watched) : watched[i] = u
        BY <1>5, <1>6, <2>2, <3>2 DEF WatchedInv
      <4>2. i \in 1..Len(watched') /\ watched'[i] = u
        BY <1>9, <4>1
      <4> QED
        BY <4>2
    <3> QED
      BY <3>1, <3>2
  <2> QED
    BY <1>4, <2>1, <2>2 DEF WatchedInv
<1>13. WalkInv'
  BY <1>5 DEF WalkInv, Walks
<1> QED
  BY <1>4, <1>6, <1>7, <1>10, <1>11, <1>12, <1>13 DEF KInv

\* A step of kernel_main that creates no task leaves the tasks alone.
LEMMA MainOwn ==
  ASSUME IInv, KInv, kernel_main, func' = func,
         \A t \in TCB : t # Main => pc'[t] = pc[t] /\ after'[t] = after[t]
  PROVE  /\ FuncInv'
         /\ watched' = watched /\ phase' = phase => WatchedInv'
         /\ ~Fresh' \/ Fresh => FreshInv'
         /\ watched' = watched => \A i \in 1..Len(watched) : Ended(watched[i])' <=> Ended(watched[i])
<1>1. /\ current_task_PCB = Main /\ current_task_PCB' = Main /\ ret' = ret
      /\ task_switches_postponed_flag' = 0
  BY MainRuns
<1>2. FuncInv /\ FreshInv /\ WatchedInv
  BY DEF KInv
<1>3. FuncInv'
  BY <1>1, <1>2 DEF FuncInv, FuncPlace, Long
<1>4. ~Fresh' \/ Fresh => FreshInv'
  BY <1>2 DEF FreshInv
<1>5. \A i \in 1..Len(watched) : watched[i] \in TCB /\ watched[i] # Main
  BY <1>2, WatchedTasks DEF WatchedInv
<1>6. ASSUME watched' = watched, phase' = phase PROVE WatchedInv'
  <2>1. \A i \in 1..Len(watched) : watched[i] # Main /\ pc'[watched[i]] # "free"
    BY <1>2, <1>5 DEF WatchedInv
  <2>2. phase = "test" => \A t \in TCB \ {Main} :
           pc'[t] = "free" \/ \E i \in 1..Len(watched) : watched[i] = t
    BY <1>2 DEF WatchedInv
  <2> QED
    BY <1>6, <2>1, <2>2 DEF WatchedInv
<1>7. ASSUME watched' = watched
      PROVE  \A i \in 1..Len(watched) : Ended(watched[i])' <=> Ended(watched[i])
  BY <1>5, <1>7 DEF Ended, Long
<1> QED
  BY <1>3, <1>4, <1>6, <1>7

\* The steps of kernel_main outside get_task_state.
LEMMA PlainKInv ==
  ASSUME IInv, KInv, kernel_main,
         \/ test_all \/ create_out_of_memory \/ created \/ first_yield \/ loop_head
         \/ loop_body \/ hlt \/ test_exit \/ app_exit,
         Ordinary
  PROVE  KInv'
<1>1. /\ current_task_PCB = Main /\ current_task_PCB' = Main /\ Main \in TCB /\ panic = "none"
      /\ pc[Main] \in MainLocation /\ irq = "none" /\ task_switches_postponed_flag' = 0
  BY MainRuns
<1>2. ControlTypes /\ DataTypes /\ Control
  BY DEF IInv
<1>3. FuncInv /\ MainInv /\ FreshInv /\ WatchedInv /\ WalkInv
  BY DEF KInv
<1>4. func' = func /\ \A t \in TCB : t # Main => pc'[t] = pc[t] /\ after'[t] = after[t]
  BY <1>1, <1>2 DEF test_all, create_out_of_memory, created, first_yield, loop_head, loop_body, hlt,
       test_exit, app_exit, locals, Goto, LockUntil, ControlTypes
<1>5. /\ FuncInv'
      /\ watched' = watched /\ phase' = phase => WatchedInv'
      /\ ~Fresh' \/ Fresh => FreshInv'
  BY <1>4, MainOwn
<1>6. CASE test_all
  <2>1. /\ pc[Main] = "test_all" /\ pc'[Main] = "create" /\ after' = after /\ phase' = phase
        /\ watched' = watched /\ panic' = panic
    BY <1>1, <1>2, <1>6 DEF test_all, Running, Goto, main, ControlTypes
  <2>2. MainInv'
    BY <1>1, <1>3, <2>1 DEF MainInv, InSchedule, ScheduleBody
  <2>3. WalkInv' /\ (~Fresh' \/ Fresh)
    BY <2>1 DEF WalkInv, Walks, Fresh
  <2> QED
    BY <1>1, <1>5, <2>1, <2>2, <2>3 DEF KInv
<1>7. CASE create_out_of_memory
  <2>1. /\ pc[Main] = "create" /\ pc'[Main] = "unlock" /\ after'[Main] = "created" /\ phase' = phase
        /\ watched' = watched /\ panic' = "failed to allocate kernel task"
    BY <1>1, <1>2, <1>7 DEF create_out_of_memory, LockUntil, Running, Goto, main, ControlTypes
  <2>2. MainInv'
    BY <1>1, <1>3, <2>1 DEF MainInv, InSchedule, ScheduleBody
  <2>3. WalkInv' /\ (~Fresh' \/ Fresh)
    BY <2>1 DEF WalkInv, Walks, Fresh
  <2> QED
    BY <1>5, <2>1, <2>2, <2>3 DEF KInv
<1>8. CASE created
  <2>1. /\ pc[Main] = "created" /\ after' = after /\ phase' = phase
        /\ watched' = watched /\ panic' = panic
        /\ pc' = [pc EXCEPT ![Main] = CASE Len(watched) < Len(Program) -> "create"
                                      [] phase = "test" -> "assert"
                                      [] OTHER -> "loop"]
    BY <1>1, <1>8 DEF created, Running, Goto, main
  <2>2. (CASE Len(watched) < Len(Program) -> "create"
           [] phase = "test" -> "assert"
           [] OTHER -> "loop")
        \in {"create", "assert", "loop"}
    OBVIOUS
  <2>3. pc'[Main] \in {"create", "assert", "loop"}
    BY <1>1, <1>2, <2>1, <2>2 DEF ControlTypes
  <2>4. pc'[Main] = "assert" => phase = "test"
    BY <1>1, <1>2, <2>1 DEF ControlTypes
  <2>5. MainInv'
    BY <1>1, <1>3, <2>1, <2>3, <2>4 DEF MainInv, InSchedule, ScheduleBody
  <2>6. WalkInv' /\ (~Fresh' \/ Fresh)
    BY <2>1, <2>3 DEF WalkInv, Walks, Fresh
  <2> QED
    BY <1>1, <1>5, <2>1, <2>5, <2>6 DEF KInv
<1>9. CASE first_yield
  <2>1. pc[Main] = "assert"
    BY <1>1, <1>9 DEF first_yield, Running
  <2>2. \A t \in TCB \ {Main} : pc[t] # "unlock_tail"
    BY <1>3, <2>1 DEF MainInv, FreshInv, Fresh
  <2>3. IRQ_disable_counter = 0
    BY <1>1, <2>1, <2>2, NoHolders
  <2>4. /\ pc'[Main] = "yield" /\ after'[Main] = "loop" /\ phase' = phase /\ watched' = watched
        /\ panic' = panic
    BY <1>1, <1>2, <1>9, <2>3 DEF first_yield, Goto, main, ControlTypes
  <2>5. MainInv'
    BY <1>1, <1>3, <2>1, <2>4 DEF MainInv, InSchedule, ScheduleBody
  <2>6. WalkInv' /\ ~Fresh'
    BY <2>4 DEF WalkInv, Walks, Fresh
  <2> QED
    BY <1>1, <1>5, <2>4, <2>5, <2>6 DEF KInv
<1>10. CASE loop_head
  <2>1. /\ pc[Main] = "loop" /\ pc'[Main] = "get_task_state" /\ after' = after /\ phase' = phase
        /\ watched' = watched /\ panic' = panic /\ wi' = 1
    BY <1>1, <1>2, <1>10 DEF loop_head, Running, Goto, ControlTypes
  <2>2. MainInv'
    BY <1>1, <1>3, <2>1 DEF MainInv, InSchedule, ScheduleBody
  <2>3. ~Fresh'
    BY <2>1 DEF Fresh
  <2>4. 1 \in 1..Len(watched)
    <3>1. watched # << >> /\ watched \in Seq(TCB)
      BY <1>1, <1>2, <1>3, <2>1 DEF MainInv, DataTypes
    <3> QED
      BY <3>1
  <2>5. WalkInv'
    BY <2>1, <2>4 DEF WalkInv
  <2> QED
    BY <1>1, <1>5, <2>1, <2>2, <2>3, <2>5 DEF KInv
<1>11. CASE loop_body
  <2>1. /\ pc[Main] = "loop_body" /\ pc'[Main] = "yield" /\ phase' = phase
        /\ after'[Main] = IF phase = "test" THEN "loop" ELSE "hlt"
        /\ watched' = watched /\ panic' = panic
    BY <1>1, <1>2, <1>11 DEF loop_body, Running, Goto, main, ControlTypes
  <2>2. phase \in {"test", "app"}
    BY <1>2 DEF DataTypes
  <2>3. MainInv'
    BY <1>1, <1>3, <2>1, <2>2 DEF MainInv, InSchedule, ScheduleBody
  <2>4. WalkInv' /\ ~Fresh'
    BY <2>1 DEF WalkInv, Walks, Fresh
  <2> QED
    BY <1>1, <1>5, <2>1, <2>3, <2>4 DEF KInv
<1>12. CASE hlt \/ app_exit
  <2>1. /\ pc[Main] \in {"hlt", "loop_exit"} /\ pc'[Main] \in {"halted", "idle", "cleanup"}
        /\ phase' = phase
        /\ pc'[Main] = "halted" => pc[Main] = "hlt"
        /\ after' = after /\ watched' = watched /\ panic' = panic
    BY <1>1, <1>2, <1>12 DEF hlt, app_exit, Running, Goto, main, ControlTypes
  <2>2. MainInv'
    BY <1>1, <1>3, <2>1 DEF MainInv, InSchedule, ScheduleBody
  <2>3. WalkInv' /\ ~Fresh'
    BY <2>1 DEF WalkInv, Walks, Fresh
  <2> QED
    BY <1>1, <1>5, <2>1, <2>2, <2>3 DEF KInv
<1>13. CASE test_exit
  <2>1. pc[Main] = "loop_exit" /\ phase = "test"
    BY <1>1, <1>13 DEF test_exit, Running
  <2>2. \A t \in TCB \ {Main} : pc[t] # "unlock_tail"
    BY <1>1, <2>1, LoopDone
  <2>3. IRQ_disable_counter = 0
    BY <1>1, <2>1, <2>2, NoHolders
  <2>4. /\ pc'[Main] = "create" /\ after' = after /\ phase' = "app" /\ watched' = << >>
        /\ panic' = panic
    BY <1>1, <1>2, <1>13, <2>3 DEF test_exit, Goto, ControlTypes
  <2>5. MainInv'
    BY <1>1, <2>4 DEF MainInv, InSchedule, ScheduleBody
  <2>6. WalkInv' /\ ~Fresh'
    BY <2>4 DEF WalkInv, Walks, Fresh
  <2>7. WatchedInv'
    BY <2>4 DEF WatchedInv
  <2> QED
    BY <1>1, <1>5, <2>4, <2>5, <2>6, <2>7 DEF KInv
<1> QED
  BY <1>6, <1>7, <1>8, <1>9, <1>10, <1>11, <1>12, <1>13

\* What the answer of get_task_state does to the loop.
LEMMA AnswerWalk ==
  ASSUME IInv, KInv, NEW v \in Int, Answer(v), current_task_PCB = Main, pc[Main] \in Walks,
         watched' = watched,
         \A i \in 1..Len(watched) : Ended(watched[i])' <=> Ended(watched[i]),
         v <= 0 => Ended(watched[wi])
  PROVE  WalkInv' /\ pc'[Main] \in {"get_task_state", "loop_body", "loop_exit"}
<1>1. wi \in 1..Len(watched) /\ \A j \in 1..(wi - 1) : Ended(watched[j])
  BY DEF KInv, WalkInv
<1>2. wi \in Nat /\ Len(watched) \in Nat /\ \A j \in 1..(wi - 1) : j \in 1..Len(watched)
  BY <1>1, BeforeIndex
<1>3. ControlTypes /\ Main \in TCB
  BY TCBAssumption DEF IInv
<1>4. CASE v > 0
  <2>1. pc'[Main] = "loop_body"
    BY <1>3, <1>4 DEF Answer, Goto, ControlTypes
  <2> QED
    BY <2>1 DEF WalkInv, Walks
<1>5. CASE v <= 0
  <2>1. \A j \in 1..wi : j \in 1..Len(watched) /\ Ended(watched[j])
    <3> SUFFICES ASSUME NEW j \in 1..wi PROVE j \in 1..Len(watched) /\ Ended(watched[j])
      OBVIOUS
    <3>1. j = wi \/ j \in 1..(wi - 1)
      BY <1>2
    <3> QED
      BY <1>1, <1>2, <1>5, <3>1
  <2>2. CASE wi < Len(watched)
    <3>1. wi' = wi + 1 /\ pc'[Main] = "get_task_state"
      BY <1>2, <1>3, <1>5, <2>2 DEF Answer, Goto, ControlTypes
    <3>2. wi' \in 1..Len(watched) /\ wi' - 1 = wi
      BY <1>2, <2>2, <3>1
    <3>3. \A j \in 1..(wi' - 1) : Ended(watched[j])'
      BY <2>1, <3>2
    <3> QED
      BY <3>1, <3>2, <3>3 DEF WalkInv
  <2>3. CASE ~(wi < Len(watched))
    <3>1. pc'[Main] = "loop_exit" /\ wi = Len(watched)
      BY <1>1, <1>2, <1>3, <1>5, <2>3 DEF Answer, Goto, ControlTypes
    <3>2. \A j \in 1..Len(watched) : Ended(watched[j])'
      BY <2>1, <3>1
    <3> QED
      BY <3>1, <3>2 DEF WalkInv, Walks
  <2> QED
    BY <2>2, <2>3
<1> QED
  BY <1>4, <1>5

\* get_task_state's walks preserve the invariant: they take no lock, but the handler
\* only appends to the ready list, and a task suspended in a lock is on that list.
LEMMA WalkKInv ==
  ASSUME IInv, LInv, KInv, kernel_main,
         get_task_state \/ walk_ready \/ walk_sleeping \/ walk_dead
  PROVE  KInv'
<1>1. /\ current_task_PCB = Main /\ current_task_PCB' = Main /\ Main \in TCB /\ panic = "none"
      /\ task_switches_postponed_flag' = 0
  BY MainRuns
<1>2. ControlTypes /\ DataTypes /\ Runs
  BY DEF IInv, LInv
<1>3. PICK rq, sq, dq : Lists(rq, sq, dq) /\ Places(rq, sq, dq)
  BY DEF LInv, Placed
<1>4. /\ UNCHANGED <<lists, fields, after, func, phase, watched, panic>>
      /\ pc[Main] \in Walks
  BY <1>1 DEF get_task_state, walk_ready, walk_sleeping, walk_dead, Walk, WalkFrame, Running, locals,
       Walks
<1>5. \E l : pc' = [pc EXCEPT ![Main] = l]
  <2>1. pc = [pc EXCEPT ![Main] = pc[Main]]
    BY <1>1, <1>2 DEF ControlTypes
  <2> QED
    BY <1>1, <2>1 DEF get_task_state, walk_ready, walk_sleeping, walk_dead, Walk, Answer, Goto
<1>6. func' = func /\ \A t \in TCB : t # Main => pc'[t] = pc[t] /\ after'[t] = after[t]
  BY <1>1, <1>2, <1>4, <1>5 DEF ControlTypes
<1>7. FuncInv /\ MainInv /\ WalkInv
  BY DEF KInv
<1>8. /\ FuncInv' /\ WatchedInv'
      /\ ~Fresh' \/ Fresh => FreshInv'
      /\ \A i \in 1..Len(watched) : Ended(watched[i])' <=> Ended(watched[i])
  BY <1>4, <1>6, MainOwn
<1>9. SUFFICES WalkInv' /\ pc'[Main] \in Walks \cup {"loop_body", "loop_exit"}
  <2>1. MainInv'
    BY <1>1, <1>4, <1>7, <1>9 DEF MainInv, Walks, InSchedule, ScheduleBody
  <2>2. ~Fresh'
    BY <1>9 DEF Fresh, Walks
  <2> QED
    BY <1>1, <1>4, <1>8, <1>9, <2>1, <2>2 DEF KInv
<1>10. wi \in 1..Len(watched) /\ \A j \in 1..(wi - 1) : Ended(watched[j])
  BY <1>4, <1>7 DEF WalkInv
<1>11. PICK w \in TCB : w = watched[wi] /\ w # Main /\ pc[w] # "free"
  BY <1>10, WatchedTasks DEF KInv, WatchedInv
<1>12. \A t \in TCB : state[t] \in Int
  <2>1. \A t \in TCB : state[t] \in TaskState
    BY <1>2 DEF DataTypes
  <2>2. TaskState \subseteq Int
    BY DEF TaskState, TASK_STATE_TERMINATED, TASK_STATE_SLEEPING
  <2> QED
    BY <2>1, <2>2
\* While it walks, the loop stays at the same task.
<1>13. ASSUME wi' = wi, pc'[Main] \in Walks, pc'[Main] \in {"walk_sleeping", "walk_dead"} => Ended(w),
              pc'[Main] = "walk_ready" =>
                 Ended(w) \/ Before(Chain(first_ready_to_run_task), watched[wi])'
       PROVE  WalkInv'
  <2>1. Ended(w) => Ended(watched[wi])'
    BY <1>4, <1>8, <1>10, <1>11, <1>13
  <2>2. \A j \in 1..(wi - 1) : Ended(watched[j])'
    BY <1>8, <1>10, BeforeIndex
  <2> QED
    BY <1>4, <1>10, <1>13, <2>1, <2>2 DEF WalkInv, Walks
<1>14. ~Popped /\ ~Linked
  BY <1>1, <1>4 DEF Popped, Linked, Walks, ScheduleBody
<1>15. /\ IsList(first_ready_to_run_task, rq, next) /\ rq \in Seq(TCB) /\ Len(rq) \in Nat
       /\ Chain(first_ready_to_run_task) = rq
  <2>1. IsList(first_ready_to_run_task, rq, next)
    BY <1>3 DEF Lists
  <2>2. rq \in Seq(TCB) /\ Len(rq) \in Nat
    BY <2>1 DEF IsList
  <2>3. Chain(first_ready_to_run_task) = rq
    BY <1>3, Views
  <2> QED
    BY <2>1, <2>2, <2>3
<1>16. Chain(first_ready_to_run_task)' = rq
  <2>1. first_ready_to_run_task' = first_ready_to_run_task /\ next' = next
    BY <1>4 DEF lists
  <2>2. Chain(first_ready_to_run_task)' = ChainIn(first_ready_to_run_task', next')
    BY DEF Follow, FollowIn, Chain, ChainIn
  <2>3. ChainIn(first_ready_to_run_task, next) = rq
    BY <1>15, ChainList
  <2> QED
    BY <2>1, <2>2, <2>3
\* A task that has not ended is on the ready list.
<1>17. Ended(w) \/ w \in Elems(rq)
  <2> SUFFICES ASSUME Long(w), pc[w] # "abort" PROVE w \in Elems(rq)
    BY DEF Ended
  <2>1. pc[w] \in LongPlace
    BY <1>7, <1>11 DEF FuncInv, FuncPlace
  <2>2. w \in Elems(rq) \cup Elems(sq) \cup Elems(dq)
    BY <1>1, <1>3, <1>11, <1>14 DEF Places
  <2>3. w \notin Elems(dq)
    BY <1>1, <1>3, <1>11 DEF Places
  <2>4. w \notin Elems(sq)
    BY <1>1, <1>3, <1>11, <2>1 DEF Places, LongPlace, InSchedule, ScheduleBody
  <2> QED
    BY <2>2, <2>3, <2>4
<1>18. CASE get_task_state
  <2>1. /\ node' = first_ready_to_run_task /\ wi' = wi /\ pc' = [pc EXCEPT ![Main] = "walk_ready"]
    BY <1>1, <1>11, <1>18 DEF get_task_state, Goto
  <2>2. pc'[Main] = "walk_ready"
    BY <1>1, <1>2, <2>1 DEF ControlTypes
  <2>3. w \in Elems(rq) => Before(Chain(first_ready_to_run_task), watched[wi])'
    <3> SUFFICES ASSUME w \in Elems(rq)
                 PROVE  Before(Chain(first_ready_to_run_task), watched[wi])'
      OBVIOUS
    <3>1. PICK k \in 1..Len(rq) : rq[k] = w
      BY DEF Elems
    <3>2. Len(rq) # 0 /\ 1 \in 1..Len(rq) /\ 1 <= k
      BY <1>15, <3>1
    <3>3. node' = rq[1]
      BY <1>15, <2>1, <3>2 DEF IsList
    <3> QED
      BY <1>4, <1>11, <1>16, <2>1, <3>1, <3>2, <3>3 DEF Before
  <2> QED
    BY <1>13, <1>17, <2>1, <2>2, <2>3 DEF Walks
<1>19. CASE walk_ready
  <2>1. pc[Main] = "walk_ready"
    BY <1>1, <1>19 DEF walk_ready, Walk, Running
  <2>2. Ended(w) \/ Before(rq, w)
    BY <1>7, <1>11, <1>15, <2>1 DEF WalkInv
  <2>3. CASE node = NULL /\ wi' = wi /\ pc' = [pc EXCEPT ![Main] = "walk_sleeping"]
    <3>1. pc'[Main] = "walk_sleeping"
      BY <1>1, <1>2, <2>3 DEF ControlTypes
    <3>2. ~Before(rq, w)
      <4>1. \A i \in 1..Len(rq) : rq[i] # NULL
        <5>1. \A i \in 1..Len(rq) : rq[i] \in TCB
          BY <1>15
        <5> QED
          BY <5>1, TCBAssumption
      <4> QED
        BY <2>3, <4>1 DEF Before
    <3> QED
      BY <1>13, <2>2, <2>3, <3>1, <3>2 DEF Walks
  <2>4. CASE node = w /\ Answer(state[node])
    <3>1. PICK v \in Int : v = state[node]
      BY <1>12, <2>4
    <3>2. Answer(v)
      BY <2>4, <3>1
    <3>3. v <= 0 => Ended(w)
      <4> SUFFICES ASSUME ~Ended(w) PROVE ~(v <= 0)
        OBVIOUS
      <4>1. w \in Elems(rq)
        BY <1>17
      <4>2. state[w] = 1
        BY <1>1, <1>3, <1>11, <4>1 DEF Places, Waits, TASK_STATE_READY_TO_RUN
      <4> QED
        BY <2>4, <3>1, <4>2
    <3>4. WalkInv' /\ pc'[Main] \in {"get_task_state", "loop_body", "loop_exit"}
      BY <1>1, <1>4, <1>8, <1>11, <3>2, <3>3, AnswerWalk
    <3> QED
      BY <3>4 DEF Walks
  <2>5. CASE node \notin {NULL, w} /\ node' = next[node] /\ wi' = wi /\ pc' = pc
    <3>1. Before(rq, w) => Before(Chain(first_ready_to_run_task), watched[wi])'
      <4> SUFFICES ASSUME Before(rq, w)
                   PROVE  Before(Chain(first_ready_to_run_task), watched[wi])'
        OBVIOUS
      <4>1. PICK i, k \in 1..Len(rq) : i <= k /\ node = rq[i] /\ rq[k] = w
        BY DEF Before
      <4>2. i # k
        BY <2>5, <4>1
      <4>3. i # Len(rq) /\ i + 1 \in 1..Len(rq) /\ i + 1 <= k
        BY <1>15, <4>1, <4>2
      <4>4. node' = rq[i + 1]
        BY <1>15, <2>5, <4>1, <4>3 DEF IsList
      <4> QED
        BY <1>4, <1>11, <1>16, <2>5, <4>1, <4>3, <4>4 DEF Before
    <3> QED
      BY <1>13, <2>1, <2>2, <2>5, <3>1 DEF Walks
  <2> QED
    BY <1>1, <1>11, <1>19, <2>3, <2>4, <2>5 DEF walk_ready, Walk, Goto
<1>20. CASE walk_sleeping \/ walk_dead
  <2>1. pc[Main] \in {"walk_sleeping", "walk_dead"}
    BY <1>1, <1>20 DEF walk_sleeping, walk_dead, Walk, Running
  <2>2. Ended(w)
    BY <1>7, <1>11, <2>1 DEF WalkInv
  <2>3. CASE wi' = wi /\ (pc' = pc \/ pc' = [pc EXCEPT ![Main] = "walk_dead"])
    <3>1. pc'[Main] \in {"walk_sleeping", "walk_dead"}
      BY <1>1, <1>2, <2>1, <2>3 DEF ControlTypes
    <3> QED
      BY <1>13, <2>2, <2>3, <3>1 DEF Walks
  <2>4. CASE \E v \in Int : Answer(v)
    <3>1. PICK v \in Int : Answer(v)
      BY <2>4
    <3>2. WalkInv' /\ pc'[Main] \in {"get_task_state", "loop_body", "loop_exit"}
      BY <1>1, <1>4, <1>8, <1>11, <2>2, <3>1, AnswerWalk
    <3> QED
      BY <3>2 DEF Walks
  <2>5. CASE walk_sleeping
    <3>1. node = watched[wi] => state[node] \in Int
      BY <1>11, <1>12
    <3> QED
      BY <1>1, <2>3, <2>4, <2>5, <3>1 DEF walk_sleeping, Walk, Goto
  <2>6. CASE walk_dead
    <3>1. node = watched[wi] => state[node] \in Int
      BY <1>11, <1>12
    <3>2. TASK_STATE_NOT_FOUND \in Int
      BY DEF TASK_STATE_NOT_FOUND
    <3>3. node \in {NULL, watched[wi]} => (IF node = NULL THEN TASK_STATE_NOT_FOUND ELSE state[node]) \in Int
      BY <3>1, <3>2
    <3> QED
      BY <2>3, <2>4, <2>6, <3>3 DEF walk_dead
  <2> QED
    BY <1>20, <2>5, <2>6
<1> QED
  BY <1>18, <1>19, <1>20

\* Every step outside dead_tasks_cleanup preserves the invariant of kernel_main's loops.
LEMMA NextKInv ==
  ASSUME Ordinary, IInv, LInv, KInv, [Next]_vars
  PROVE  KInv'
<1>1. CASE Inside
  BY <1>1, InsideKInv
<1>2. CASE irq_0_handler \/ Timer \/ irq_1_handler \/ abort_loop \/ UNCHANGED vars
  BY <1>2, IrqKInv
<1>3. CASE kernel_main
  <2>1. ~dead_tasks_cleanup /\ ~free_task /\ ~cleanup_done
    BY DEF Ordinary
  <2>2. CASE create_kernel_task
    BY <2>2, CreateKInv
  <2>3. CASE get_task_state \/ walk_ready \/ walk_sleeping \/ walk_dead
    BY <1>3, <2>3, WalkKInv
  <2>4. CASE \/ test_all \/ create_out_of_memory \/ created \/ first_yield \/ loop_head
             \/ loop_body \/ hlt \/ test_exit \/ app_exit
    BY <1>3, <2>4, PlainKInv
  <2> QED
    BY <1>3, <2>1, <2>2, <2>3, <2>4 DEF kernel_main
<1> QED
  BY <1>1, <1>2, <1>3 DEF Next, CPU, Inside

\* At boot.
LEMMA InitKInv ==
  ASSUME Init
  PROVE  KInv
<1>1. /\ current_task_PCB = Main /\ Main \in TCB /\ pc[Main] = "test_all" /\ phase = "test"
      /\ watched = << >> /\ panic = "none" /\ task_switches_postponed_flag = 0
      /\ after[Main] = "created"
      /\ \A t \in TCB : t # Main => /\ pc[t] = "free" /\ func[t] = "long_task" /\ after[t] = "body"
                                    /\ ret[t] = "unlock"
  BY TCBAssumption DEF Init, multitasking_initialize
<1>2. FuncInv
  BY <1>1 DEF FuncInv, FuncPlace, Long, LongPlace
<1>3. MainInv
  BY <1>1 DEF MainInv, InSchedule, ScheduleBody
<1>4. FreshInv
  BY <1>1 DEF FreshInv
<1>5. WatchedInv
  BY <1>1 DEF WatchedInv
<1>6. WalkInv
  BY <1>1 DEF WalkInv, Walks
<1> QED
  BY <1>1, <1>2, <1>3, <1>4, <1>5, <1>6 DEF KInv

\* The self test's assertions hold, and no task is resumed that was marked for death,
\* terminated or freed: for any number of tasks and any program of the three task
\* functions, since only long_task is ever suspended inside a lock and get_task_state,
\* which takes none, still never misses a long_task.
THEOREM SelfTestPasses ==
  Spec => []NoPanic
<1> DEFINE I == (KInv /\ pc[Main] # "freeing") \/ (Over /\ panic # "tests failed")
<1>1. Init => I
  <2>1. Init => pc[Main] = "test_all"
    BY TCBAssumption DEF Init
  <2> QED
    BY <2>1, InitKInv
<1>2. AInv /\ I /\ [Next]_vars => I'
  <2> SUFFICES ASSUME AInv, I, [Next]_vars PROVE I'
    OBVIOUS
  <2>1. CASE Over /\ panic # "tests failed"
    BY <2>1, OverStep
  <2>2. CASE KInv /\ pc[Main] # "freeing"
    <3>1. CASE Ordinary /\ IInv /\ LInv
      BY <2>2, <3>1, NextKInv, NotFreeing
    <3>2. CASE dead_tasks_cleanup /\ IInv /\ LInv
      BY <2>2, <3>2, OverStarts DEF KInv
    <3> QED
      BY <2>2, <3>1, <3>2, StepKinds
  <2> QED
    BY <2>1, <2>2
<1>3. AInv /\ I => NoPanic
  BY DEF AInv, Runs, KInv, NoPanic
<1> HIDE DEF I
<1> QED
  BY <1>1, <1>2, <1>3, ListsInductive, PTL DEF Spec

(***************************************************************************)
(* The hlt of kernel_main's waiting loop                                   *)
(***************************************************************************)
\* The tasks kernel_main creates for its demo give up the CPU with no lock open.
SleepersOnly == \A i \in 1..Len(AppFuncs) : AppFuncs[i] # "long_task"

\* During the demo every task of the self test is over.
AppInv == phase = "app" => \A t \in TCB \ {Main} : Long(t) => pc[t] \in {"free", "abort"}

\* Interrupts are enabled when no lock is open.
IntrInv == IRQ_disable_counter = 0 => intr

\* The interrupt ends the hlt before its handler runs.
HaltedAlone == irq = "timer" => pc[current_task_PCB] # "halted"

\* The steps of the demo keep to its tasks.
LEMMA NextAppInv ==
  ASSUME Ordinary, SleepersOnly, IInv, LInv, KInv, [Next]_vars, AppInv
  PROVE  AppInv'
<1> SUFFICES ASSUME phase' = "app", NEW t \in TCB \ {Main}, Long(t)'
             PROVE  pc'[t] \in {"free", "abort"}
  BY DEF AppInv
<1>1. ControlTypes /\ DataTypes /\ current_task_PCB \in TCB /\ Runs
  BY DEF IInv, LInv, ControlTypes
<1>2. ASSUME Long(t), phase = "app", pc[t] = "free" => pc'[t] = "free"
      PROVE  pc'[t] \in {"free", "abort"}
  <2>1. pc[t] \in {"free", "abort"}
    BY <1>2 DEF AppInv
  <2> QED
    BY <1>2, <2>1, DeadStep
<1>3. CASE Inside
  <2>1. func' = func /\ phase' = phase /\ (t # current_task_PCB => pc'[t] = pc[t])
    BY <1>3, InsideFrame
  <2> QED
    BY <1>1, <1>2, <2>1 DEF Long, Runs
<1>4. CASE irq_0_handler \/ Timer \/ irq_1_handler \/ abort_loop \/ UNCHANGED vars
  <2>1. func' = func /\ phase' = phase /\ pc'[t] = pc[t]
    BY <1>4, IrqFrameKInv
  <2> QED
    BY <1>2, <2>1 DEF Long
<1>5. CASE kernel_main
  <2>1. current_task_PCB = Main /\ Main \in TCB
    BY <1>5, MainRuns
  <2>2. CASE create_kernel_task
    <3>1. PICK u \in TCB :
             /\ pc[u] = "free" /\ pc' = [pc EXCEPT ![u] = "start", ![current_task_PCB] = "unlock"]
             /\ func' = [func EXCEPT ![u] = Program[Len(watched) + 1]]
      BY <2>2 DEF create_kernel_task
    <3>2. phase' = phase /\ pc[Main] = "create"
      BY <2>1, <2>2 DEF create_kernel_task, Running
    <3>3. Len(watched) + 1 \in 1..Len(AppFuncs) /\ Program = AppFuncs
      <4>1. Program = AppFuncs /\ Len(watched) < Len(Program)
        BY <3>2 DEF Program, IInv, ProgramControl
      <4>2. watched \in Seq(TCB)
        BY <1>1 DEF DataTypes
      <4>3. Len(watched) \in Nat
        BY <4>2
      <4>4. AppFuncs \in Seq(Func)
        BY ProgramAssumption
      <4>5. Len(AppFuncs) \in Nat
        BY <4>4
      <4> QED
        BY <4>1, <4>3, <4>5
    <3>4. Program[Len(watched) + 1] # "long_task"
      BY <3>3 DEF SleepersOnly
    <3>5. t # u
      BY <1>1, <3>1, <3>4 DEF Long, DataTypes
    <3>6. pc'[t] = pc[t] /\ func'[t] = func[t]
      BY <1>1, <2>1, <3>1, <3>5 DEF ControlTypes, DataTypes
    <3> QED
      BY <1>2, <3>2, <3>6 DEF Long
  <2>3. CASE ~create_kernel_task
    <3>1. func' = func /\ pc'[t] = pc[t]
      <4>1. ~dead_tasks_cleanup /\ ~free_task /\ ~cleanup_done
        BY DEF Ordinary
      <4>2. CASE \/ test_all \/ create_out_of_memory \/ created \/ first_yield \/ loop_head
                 \/ loop_body \/ hlt \/ test_exit \/ app_exit
        BY <1>1, <2>1, <4>2 DEF test_all, create_out_of_memory, created, first_yield, loop_head,
             loop_body, hlt, test_exit, app_exit, locals, Goto, LockUntil, ControlTypes
      <4>3. CASE get_task_state \/ walk_ready \/ walk_sleeping \/ walk_dead
        <5>1. func' = func
          BY <4>3 DEF get_task_state, walk_ready, walk_sleeping, walk_dead, Walk, WalkFrame, locals
        <5>2. pc' = pc \/ \E l : pc' = [pc EXCEPT ![Main] = l]
          BY <2>1, <4>3 DEF get_task_state, walk_ready, walk_sleeping, walk_dead, Walk, Answer, Goto
        <5> QED
          BY <1>1, <5>1, <5>2 DEF ControlTypes
      <4> QED
        BY <1>5, <2>3, <4>1, <4>2, <4>3 DEF kernel_main
    <3>2. CASE phase = "app"
      BY <1>2, <3>1, <3>2 DEF Long
    <3>3. CASE phase # "app"
      <4>1. test_exit
        BY <1>5, <2>3, <3>3 DEF kernel_main, test_all, create_out_of_memory, created, first_yield,
             loop_head, loop_body, hlt, app_exit, get_task_state, walk_ready, walk_sleeping, walk_dead,
             Walk, WalkFrame, dead_tasks_cleanup, free_task, cleanup_done, main
      <4>2. pc[Main] = "loop_exit" /\ phase = "test"
        BY <2>1, <4>1 DEF test_exit, Running
      <4> QED
        BY <2>1, <3>1, <4>2, LoopDone DEF Long
    <3> QED
      BY <3>2, <3>3
  <2> QED
    BY <2>2, <2>3
<1> QED
  BY <1>3, <1>4, <1>5 DEF Next, CPU, Inside

\* cli comes with an open lock, and the last unlock is an sti.
LEMMA NextIntrInv ==
  ASSUME IInv, [Next]_vars, IntrInv
  PROVE  IntrInv'
<1>1. IRQ_disable_counter \in Nat /\ intr \in BOOLEAN
  BY IInvTypeOK DEF TypeOK
<1>2. ASSUME lock_scheduler PROVE IntrInv'
  BY <1>1, <1>2 DEF lock_scheduler, IntrInv
<1>3. ASSUME UNCHANGED <<IRQ_disable_counter, intr>> PROVE IntrInv'
  BY <1>3 DEF IntrInv
<1>4. ASSUME intr' PROVE IntrInv'
  BY <1>4 DEF IntrInv
<1>5. CASE unlock_scheduler \/ Schedule \/ UNCHANGED vars \/ abort_loop
  <2>1. UNCHANGED <<IRQ_disable_counter, intr>>
    BY <1>5 DEF unlock_scheduler, Schedule, schedule_enter, schedule_pop, schedule_drain,
         schedule_charge, schedule_requeue, schedule_link, switch_to_task, ScheduleFrame, locks, vars,
         abort_loop
  <2> QED
    BY <1>3, <2>1
<1>6. CASE unlock_tail
  <2>1. /\ IRQ_disable_counter' = IRQ_disable_counter - 1
        /\ intr' = (intr \/ IRQ_disable_counter = 1)
    BY <1>6 DEF unlock_tail
  <2>2. IRQ_disable_counter' = 0 => IRQ_disable_counter = 1
    BY <1>1, <2>1
  <2> QED
    BY <2>1, <2>2, Zenon DEF IntrInv
<1>7. CASE Task
  <2>1. lock_scheduler \/ UNCHANGED <<IRQ_disable_counter, intr>> \/ intr'
    BY <1>7 DEF Task, task_start_up, yield, long_task, micro_sleep, micro_sleep_until, block_task,
         BlockedSchedule, Slept, terminate_task, mark_task_for_death, LockUntil, locks
  <2> QED
    BY <1>2, <1>3, <1>4, <2>1
<1>8. CASE kernel_main
  <2>1. lock_scheduler \/ UNCHANGED <<IRQ_disable_counter, intr>>
    BY <1>8 DEF kernel_main, test_all, create_kernel_task, create_out_of_memory, created, first_yield,
         loop_head, loop_body, hlt, test_exit, app_exit, get_task_state, walk_ready, walk_sleeping,
         walk_dead, Walk, WalkFrame, dead_tasks_cleanup, free_task, cleanup_done, LockUntil, locks
  <2> QED
    BY <1>2, <1>3, <2>1
<1>9. CASE irq_0_handler \/ Timer \/ irq_1_handler
  <2>1. lock_scheduler \/ UNCHANGED <<IRQ_disable_counter, intr>> \/ intr'
    BY <1>9 DEF irq_0_handler, Timer, unblock_task, still_sleeping, irq_0_return, irq_1_handler, locks
  <2> QED
    BY <1>2, <1>3, <1>4, <2>1
<1> QED
  BY <1>5, <1>6, <1>7, <1>8, <1>9 DEF Next, CPU

\* The handler runs with the hlt ended.
LEMMA NextHaltedAlone ==
  ASSUME IInv, LInv, [Next]_vars, HaltedAlone
  PROVE  HaltedAlone'
<1>1. ControlTypes /\ current_task_PCB \in TCB
  BY DEF IInv, ControlTypes
<1>2. CASE CPU
  <2>1. irq = "none" /\ irq' = irq
    <3>1. CASE Inside
      BY <3>1 DEF Inside, unlock_scheduler, unlock_tail, Schedule, schedule_enter, schedule_pop,
           schedule_drain, schedule_charge, schedule_requeue, schedule_link, switch_to_task,
           ScheduleFrame, Task, task_start_up, yield, long_task, micro_sleep, micro_sleep_until,
           block_task, BlockedSchedule, Slept, terminate_task, mark_task_for_death, TaskFrame, timer,
           Running
    <3>2. CASE kernel_main
      BY <3>2 DEF kernel_main, test_all, create_kernel_task, create_out_of_memory, created, first_yield,
           loop_head, loop_body, hlt, test_exit, app_exit, get_task_state, walk_ready, walk_sleeping,
           walk_dead, Walk, dead_tasks_cleanup, free_task, cleanup_done, MainFrame, timer, Running
    <3> QED
      BY <1>2, <3>1, <3>2 DEF CPU, Inside
  <2> QED
    BY <2>1 DEF HaltedAlone
<1>3. CASE irq_0_handler
  <2>1. /\ pc' = [pc EXCEPT ![current_task_PCB] = IF @ = "halted" THEN "loop" ELSE @]
        /\ current_task_PCB' = current_task_PCB
    BY <1>3 DEF irq_0_handler, Wake, IrqFrame
  <2>2. pc'[current_task_PCB'] # "halted"
    BY <1>1, <2>1 DEF ControlTypes
  <2> QED
    BY <2>2 DEF HaltedAlone
<1>4. CASE irq_1_handler
  BY <1>4 DEF irq_1_handler, Interruptible, timer, HaltedAlone
<1>5. CASE Timer \/ abort_loop \/ UNCHANGED vars
  <2>1. /\ pc' = pc /\ current_task_PCB' = current_task_PCB
        /\ irq' = "timer" => irq = "timer"
    BY <1>5 DEF Timer, unblock_task, still_sleeping, irq_0_return, IrqFrame, abort_loop, vars, timer
  <2> QED
    BY <2>1 DEF HaltedAlone
<1> QED
  BY <1>2, <1>3, <1>4, <1>5 DEF Next

\* kernel_main halts with no lock open.
LEMMA HaltSafe ==
  ASSUME IInv, LInv, KInv, AppInv, IntrInv, HaltedAlone
  PROVE  HaltNeedsInterrupts
<1> SUFFICES ASSUME pc[current_task_PCB] = "halted" PROVE intr /\ IRQ_disable_counter = 0
  BY DEF HaltNeedsInterrupts
<1>1. ControlTypes /\ Control
  BY DEF IInv
<1>2. current_task_PCB = Main /\ pc[Main] = "halted"
  BY <1>1, WhoRuns DEF MainLocation
<1>3. phase = "app"
  BY <1>2 DEF KInv, MainInv
<1>4. \A t \in TCB \ {Main} : pc[t] # "unlock_tail"
  <2> SUFFICES ASSUME NEW t \in TCB \ {Main}, pc[t] = "unlock_tail" PROVE FALSE
    OBVIOUS
  <2>1. FuncPlace(t)
    BY DEF KInv, FuncInv
  <2> QED
    BY <1>2, <1>3, <2>1 DEF FuncPlace, AppInv
<1>5. irq = "none"
  BY <1>1, <1>2 DEF HaltedAlone, ControlTypes
<1>6. IRQ_disable_counter = 0
  BY <1>2, <1>4, <1>5, NoHolders DEF MainLocation
<1> QED
  BY <1>6 DEF IntrInv

\* The hlt of the waiting loop is only executed with interrupts enabled and no lock
\* open, so it always ends, provided the tasks waited for give up the CPU unlocked as
\* test_sleep and test_sleep1 do: with long_task among them kernel_main could halt
\* while that task's lock keeps interrupts disabled.
THEOREM HaltIsInterruptible ==
  ASSUME SleepersOnly
  PROVE  Spec => []HaltNeedsInterrupts
<1> DEFINE I == \/ KInv /\ AppInv /\ IntrInv /\ HaltedAlone /\ pc[Main] # "freeing"
                \/ Over
<1>1. Init => I
  <2> SUFFICES ASSUME Init PROVE I
    OBVIOUS
  <2>1. phase = "test" /\ intr = TRUE /\ irq = "none" /\ pc[Main] = "test_all"
    BY TCBAssumption DEF Init, multitasking_initialize
  <2> QED
    BY <2>1, InitKInv DEF AppInv, IntrInv, HaltedAlone
<1>2. AInv /\ I /\ [Next]_vars => I'
  <2> SUFFICES ASSUME AInv, I, [Next]_vars PROVE I'
    OBVIOUS
  <2>1. CASE Over
    BY <2>1, OverStep
  <2>2. CASE KInv /\ AppInv /\ IntrInv /\ HaltedAlone /\ pc[Main] # "freeing"
    <3>1. CASE Ordinary /\ IInv /\ LInv
      BY <2>2, <3>1, NextKInv, NextAppInv, NextIntrInv, NextHaltedAlone, NotFreeing
    <3>2. CASE dead_tasks_cleanup /\ IInv /\ LInv
      BY <3>2, OverStarts
    <3> QED
      BY <2>2, <3>1, <3>2, StepKinds
  <2> QED
    BY <2>1, <2>2
<1>3. AInv /\ I => HaltNeedsInterrupts
  <2> SUFFICES ASSUME AInv, I PROVE HaltNeedsInterrupts
    OBVIOUS
  <2>1. CASE Over
    BY <2>1 DEF Over, HaltNeedsInterrupts
  <2>2. CASE ~Over
    BY <2>2, HaltSafe DEF AInv, LInv
  <2> QED
    BY <2>1, <2>2
<1> HIDE DEF I
<1> QED
  BY <1>1, <1>2, <1>3, ListsInductive, PTL DEF Spec
=============================================================================
