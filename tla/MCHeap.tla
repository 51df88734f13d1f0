------------------------------- MODULE MCHeap -------------------------------
(* A heap of a few blocks; one unit stands for 4 bytes of the kernel's heap. *)
EXTENDS Heap

None == {}
Requests == {0, 3}
Nmemb == {2}
Resizes == {0, 1, 5}
Query == {0}
Growth == {3}
=============================================================================
