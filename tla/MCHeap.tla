------------------------------- MODULE MCHeap -------------------------------
(* Small instances of Heap: room for three or four blocks and two pages.   *)
EXTENDS Heap

CONSTANTS p1, p2
=============================================================================
