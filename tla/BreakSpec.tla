----------------------------- MODULE BreakSpec -----------------------------
(***************************************************************************)
(* The outcomes of Break.tla as a specification: the break is set once at  *)
(* start-up, and every call of sbrk() takes effect at once.                *)
(***************************************************************************)
EXTENDS Break

VARIABLES
    break,     \* the program break; NULL before heap_init
    answer     \* the call that just ended, NULL between calls

Init == break = NULL /\ answer = NULL

heap_init ==
    /\ break = NULL
    /\ break' \in Address
    /\ UNCHANGED answer

Sbrk(increment) ==
    /\ break # NULL /\ answer = NULL
    /\ \E r \in sbrk(break, increment) :
        /\ break' = r.brk
        /\ answer' = [increment |-> increment, ret |-> r.ret]

Return == answer' = NULL /\ UNCHANGED break

Next ==
    \/ heap_init
    \/ answer' # NULL /\ Sbrk(answer'.increment)
    \/ Return

Spec == Init /\ [][Next]_<<break, answer>>
=============================================================================
