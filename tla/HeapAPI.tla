------------------------------ MODULE HeapAPI ------------------------------
(***************************************************************************)
(* What kmalloc and kfree promise their callers: a granted region lies     *)
(* inside the heap, overlaps no other granted region, and stays exactly    *)
(* where it is until its owner gives it back.  How free space is found,    *)
(* split or merged is not visible at this level.                           *)
(***************************************************************************)
EXTENDS Integers

CONSTANT HeapBytes

VARIABLE regions    \* the regions callers currently own

Region == [base : 0 .. HeapBytes, size : 0 .. HeapBytes]

End(r) == r.base + r.size

\* Distinct base addresses and no byte in common.
Apart(r, s) ==
    /\ r.base # s.base
    /\ End(r) <= s.base \/ End(s) <= r.base

Init == regions = {}

Grant(r) ==
    /\ End(r) <= HeapBytes
    /\ \A s \in regions : Apart(r, s)
    /\ regions' = regions \cup {r}

Release(r) == regions' = regions \ {r}

Next ==
    \/ \E r \in regions' : r \in Region /\ Grant(r)
    \/ \E r \in regions : Release(r)

Spec == Init /\ [][Next]_regions

=============================================================================
