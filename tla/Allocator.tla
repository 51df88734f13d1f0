----------------------------- MODULE Allocator -----------------------------
(***************************************************************************)
(* What heap.h promises: a caller that gets a pointer gets a region of the *)
(* size it asked for that nobody else holds, and keeps it, at that place,  *)
(* until it gives it back.                                                 *)
(***************************************************************************)
EXTENDS Integers

CONSTANT Place   \* the addresses the allocator may hand out

VARIABLE live    \* the regions callers hold: [ptr, size]

Region == [ptr : Place, size : Nat]

\* Two regions share no byte, and no two regions begin at the same place.
Apart(r, s) == r.ptr # s.ptr /\ (r.ptr + r.size <= s.ptr \/ s.ptr + s.size <= r.ptr)

Init == live = {}

Allocate(r) ==
    /\ \A s \in live : Apart(r, s)
    /\ live' = live \cup {r}

Release(r) == live' = live \ {r}

\* The region keeps its place; what it gains, nobody else holds.
Resize(r, new) ==
    /\ new.ptr = r.ptr
    /\ \A s \in live \ {r} : Apart(new, s)
    /\ live' = (live \ {r}) \cup {new}

Next ==
    \/ \E r \in live' : r \in Region /\ Allocate(r)
    \/ \E r \in live : Release(r) \/ \E new \in live' : new \in Region /\ Resize(r, new)

Spec == Init /\ [][Next]_live
=============================================================================
