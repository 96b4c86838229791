------------------------------- MODULE MCPs2 --------------------------------
(***************************************************************************)
(* The make and break codes of one key (Enter), and two packets: a move to *)
(* the right, past the edge of the screen, and one with a button, left and *)
(* up.                                                                     *)
(***************************************************************************)
EXTENDS Ps2

\* Translation, system flag and keyboard interrupt are on, the mouse is off.
MCConfig == {0, 2, 5, 6}
MCScancodes == {{4, 3, 2}, {7, 4, 3, 2}}
MCPackets == {<<{3}, {0}, {}>>, <<{3, 4, 0}, 0..7, {3}>>}

=============================================================================
