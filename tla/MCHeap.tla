------------------------------- MODULE MCHeap -------------------------------
(***************************************************************************)
(* The heap with the real header size, alignment and split threshold on an *)
(* array of a hundred bytes or so.                                         *)
(***************************************************************************)
EXTENDS Heap

\* One byte, one byte over two units, about a third of the heap, more than
\* the heap ever has, and a size that wraps to zero when it is rounded up.
MCRequests == {1, 17, 25, 90, 252}

=============================================================================
