-------------------------------- MODULE Shell --------------------------------
(***************************************************************************)
(* The desktop shell in the main loop of src/kernel.c: the taskbar, the    *)
(* start menu and the delayed launch of applications with its animation.   *)
(***************************************************************************)
EXTENDS Spinner

CONSTANTS
    LaunchDelay,   \* ANIMATION_DELAY_TICKS: 18
    NoApp          \* APP_LAUNCH_NONE

ASSUME ShellAssumption == LaunchDelay \in Nat /\ NoApp \notin Apps

VARIABLES pending_app_launch, pending_app_start_tick, start_menu_open

shell == <<pending_app_launch, pending_app_start_tick, start_menu_open>>

ShellInit ==
    /\ pending_app_launch = NoApp /\ pending_app_start_tick = 0
    /\ start_menu_open = FALSE
    /\ active = [a \in Apps |-> FALSE] /\ minimized = [a \in Apps |-> FALSE]

\* The delay is over: the application's window opens.
Launch ==
    /\ ani_stop
    /\ active' = [active EXCEPT ![pending_app_launch] = TRUE]
    /\ minimized' = [minimized EXCEPT ![pending_app_launch] = FALSE]
    /\ pending_app_launch' = NoApp /\ pending_app_start_tick' = 0
    /\ UNCHANGED start_menu_open

\* The handler at the top of the loop.  The first frame that sees a pending
\* launch notes the tick (0 means not noted) and starts the animation.
LaunchHandler ==
    LET first == pending_app_start_tick = 0
        start == IF first THEN timer_ticks ELSE pending_app_start_tick
    IN  IF pending_app_launch = NoApp
        THEN UNCHANGED <<shell, ani_active, active, minimized>>
        ELSE IF Since(timer_ticks, start) >= LaunchDelay THEN Launch
        ELSE /\ IF first THEN ani_play ELSE UNCHANGED ani_active
             /\ pending_app_start_tick' = start
             /\ UNCHANGED <<pending_app_launch, start_menu_open, active, minimized>>

\* The START button.
StartButton ==
    /\ start_menu_open' = ~start_menu_open
    /\ UNCHANGED <<pending_app_launch, pending_app_start_tick, ani_active, active, minimized>>

\* The button an open application has on the taskbar.
TaskButton(a) ==
    /\ active[a]
    /\ minimized' = [minimized EXCEPT ![a] = ~minimized[a]]
    /\ UNCHANGED <<shell, ani_active, active>>

\* An entry of the start menu: ignored while another launch is pending.
MenuButton(a) ==
    /\ start_menu_open
    /\ IF pending_app_launch = NoApp
       THEN /\ pending_app_launch' = a /\ start_menu_open' = FALSE
            /\ UNCHANGED pending_app_start_tick
       ELSE UNCHANGED shell
    /\ UNCHANGED <<ani_active, active, minimized>>

\* The close button of an application that keeps nothing else to clean up.
CloseButton(a) ==
    /\ active[a] /\ ~minimized[a]
    /\ active' = [active EXCEPT ![a] = FALSE]
    /\ UNCHANGED <<shell, ani_active, minimized>>

=============================================================================
