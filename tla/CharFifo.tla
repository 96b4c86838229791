------------------------------ MODULE CharFifo ------------------------------
(***************************************************************************)
(* What a keyboard buffer promises: the characters come out in the order   *)
(* they went in, each once, and never more than Capacity of them are       *)
(* inside.  A character that finds no room never goes in.                  *)
(***************************************************************************)
EXTENDS Naturals, Sequences

CONSTANTS Char, Capacity

VARIABLES in, out

Init == in = <<>> /\ out = <<>>

Put(c) ==
    /\ Len(in) - Len(out) < Capacity
    /\ in' = Append(in, c)
    /\ UNCHANGED out

Get ==
    /\ Len(out) < Len(in)
    /\ out' = Append(out, in[Len(out) + 1])
    /\ UNCHANGED in

Next == Get \/ \E c \in Char : Put(c)

Spec == Init /\ [][Next]_<<in, out>>

=============================================================================
