------------------------------- MODULE MCHeap -------------------------------
(* A heap of twelve units of two bytes, a header being one of them.          *)
EXTENDS Heap

(* Odd and even sizes, some large enough that mem_realloc cuts them down.    *)
MCSizes == {1, 2, 3, 6, 7, 12}
=============================================================================
