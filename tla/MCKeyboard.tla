----------------------------- MODULE MCKeyboard -----------------------------
(***************************************************************************)
(* A ring of a few slots and a keyboard that sends a handful of scancodes, *)
(* enough for head and tail to wrap and for the ring to fill up.           *)
(***************************************************************************)
EXTENDS Keyboard

CONSTANTS a, dead, bs, lsh, rsh

=============================================================================
