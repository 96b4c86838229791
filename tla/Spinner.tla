------------------------------- MODULE Spinner -------------------------------
(***************************************************************************)
(* What the shell of src/kernel.c and the applications share: the tick     *)
(* counter, the one animated cursor (src/ani_loader.c) and, for every      *)
(* application, whether it is open and whether it is minimized.            *)
(***************************************************************************)
EXTENDS Naturals

CONSTANTS
    Wrap,        \* timer_ticks is modulo this: 2^32
    Apps,        \* the applications of the start menu
    HasFrames    \* arrow_load.ani was loaded: ani_frame_count > 0

ASSUME SpinnerAssumption == Wrap \in Nat \ {0} /\ HasFrames \in BOOLEAN

VARIABLES timer_ticks, ani_active, active, minimized

\* Ticks from tick b to tick a, as unsigned subtraction.
Since(a, b) == (a + Wrap - b) % Wrap

\* The animation does not start when no frame was loaded.
ani_play == ani_active' = (ani_active \/ HasFrames)

ani_stop == ani_active' = FALSE

=============================================================================
