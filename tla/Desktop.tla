------------------------------- MODULE Desktop -------------------------------
(***************************************************************************)
(* One frame after the other of the main loop of src/kernel.c: the launch  *)
(* handler, the input, taskbar and start menu, then render_naoedit.  The   *)
(* timer interrupt may come between any two of these.  In one frame the    *)
(* user does at most one thing.                                            *)
(***************************************************************************)
EXTENDS Shell, NaoEdit

VARIABLES
    phase,       \* "launch", "shell", "delay" or "window"
    clicked,     \* the user has done something in this frame
    elapsed      \* ticks in this frame

vars == <<timer_ticks, ani_active, active, minimized, shell, edit, phase, clicked,
          elapsed>>

Init ==
    /\ timer_ticks = 0 /\ ani_active = FALSE
    /\ ShellInit /\ EditInit
    /\ phase = "launch" /\ clicked = FALSE /\ elapsed = 0

\* The timer interrupt; a frame takes at most one tick (bound).
Tick ==
    /\ elapsed = 0 /\ elapsed' = 1
    /\ timer_ticks' = (timer_ticks + 1) % Wrap
    /\ UNCHANGED <<ani_active, active, minimized, shell, edit, phase, clicked>>

\* The top of the loop, up to nk_input_end.
LaunchPhase ==
    /\ phase = "launch" /\ phase' = "shell"
    /\ LaunchHandler
    /\ clicked' = FALSE
    /\ UNCHANGED <<timer_ticks, edit, elapsed>>

\* The taskbar, the start menu and the windows of the other applications.
ShellPhase ==
    /\ phase = "shell" /\ phase' = "delay"
    /\ \/ /\ \/ StartButton
             \/ \E a \in Apps : TaskButton(a) \/ MenuButton(a)
             \/ \E a \in Apps \ {Editor} : CloseButton(a)
          /\ clicked' = TRUE
       \/ UNCHANGED <<shell, ani_active, active, minimized, clicked>>
    /\ UNCHANGED <<timer_ticks, edit, elapsed>>

Rendered == active[Editor] /\ ~minimized[Editor]

\* render_naoedit returns at once when there is no window to draw.
DelayPhase ==
    /\ phase = "delay" /\ phase' = "window"
    /\ IF Rendered THEN DelayHandler ELSE UNCHANGED <<edit, ani_active>>
    /\ UNCHANGED <<timer_ticks, active, minimized, shell, clicked, elapsed>>

\* The rest of render_naoedit, to the end of the frame.
WindowPhase ==
    /\ phase = "window" /\ phase' = "launch"
    /\ \/ /\ Rendered /\ ~clicked
          /\ \/ OpenItem \/ SaveItem \/ DialogOk \/ DialogCancel \/ AlertOk
             \/ \E p \in Paths : TypePath(p)
             \/ \E d \in Docs, n \in Sizes : TypeText([of |-> d, len |-> n])
          /\ UNCHANGED active
       \/ Rendered /\ ~clicked /\ CloseEditor
       \/ Rendered /\ TypeText(text_buffer) /\ UNCHANGED active
       \/ ~Rendered /\ UNCHANGED <<edit, ani_active, active>>
    /\ elapsed' = 0
    /\ UNCHANGED <<timer_ticks, minimized, shell, clicked>>

Frame == LaunchPhase \/ ShellPhase \/ DelayPhase \/ WindowPhase

Next == Tick \/ Frame

\* The timer runs and the main loop never stops.
Spec == Init /\ [][Next]_vars /\ WF_vars(Tick) /\ WF_vars(Frame)

-----------------------------------------------------------------------------

\* The desktop's and the editor's variables keep the values the code gives them.
TypeOK ==
    /\ {timer_ticks, pending_app_start_tick, file_op_start_tick} \subseteq 0 .. Wrap - 1
    /\ ani_active \in BOOLEAN /\ start_menu_open \in BOOLEAN
    /\ active \in [Apps -> BOOLEAN] /\ minimized \in [Apps -> BOOLEAN]
    /\ pending_app_launch \in Apps \cup {NoApp}
    /\ text_buffer \in Text /\ text_buffer.len <= MaxText - 1
    /\ text_len \in Nat
    /\ filepath_buffer \in Paths /\ confirmed \in Paths
    /\ show_open_dialog \in BOOLEAN /\ show_save_dialog \in BOOLEAN
    /\ file_op_state \in 0 .. 2 /\ alert_state \in 0 .. 2
    /\ files \in [Paths -> Text \cup {Absent}]
    /\ phase \in {"launch", "shell", "delay", "window"} /\ clicked \in BOOLEAN
    /\ elapsed \in {0, 1}

\* The one animated cursor spins only for a launch or a file operation that is
\* still pending, although each of the two starts and stops it for itself.
SpinnerHasReason == ani_active => pending_app_launch # NoApp \/ file_op_state # 0

\* While an operation waits out its delay, the path it will use is the one
\* that was in the dialog when OK was pressed.
PathIsConfirmed == file_op_state # 0 => filepath_buffer = confirmed

\* A file changes only by a confirmed save, and only the file confirmed.
OnlyConfirmedSaves ==
    [][ \A p \in Paths : files'[p] # files[p] => file_op_state = 2 /\ p = confirmed ]_vars

\* "File written securely to disk." (src/naoedit.c:80): when the editor says
\* so, the file holds the whole text of the window.
SavedSecurely ==
    [][ file_op_state = 2 /\ file_op_state' = 0 /\ alert_state' = 1
            => files'[filepath_buffer] = text_buffer ]_vars

\* What is delayed happens, wherever the tick counter wraps: a launch, whatever
\* the editor does to the animation in the meantime, and a confirmed operation,
\* unless the editor is minimized, which suspends it.
DelaysEnd ==
    /\ \A a \in Apps : pending_app_launch = a ~> active[a]
    /\ file_op_state # 0 ~> (file_op_state = 0 \/ minimized[Editor])

=============================================================================
