------------------------------- MODULE MCHeap -------------------------------
EXTENDS Heap

(* Two cells of each class in a page. *)
MCCells == [c \in Class |-> 2]
=============================================================================
