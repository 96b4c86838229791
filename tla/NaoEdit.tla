------------------------------- MODULE NaoEdit -------------------------------
(***************************************************************************)
(* The text editor of src/naoedit.c: its dialogs, the delayed open and     *)
(* save (a confirmed operation is carried out OpDelay ticks later by a     *)
(* frame that renders the window), its alert, and the file system it uses. *)
(*                                                                         *)
(* A text is a prefix: [of, len] is the first len characters of document   *)
(* `of`.  A file holds a text as well, or is Absent.                       *)
(***************************************************************************)
EXTENDS Spinner

CONSTANTS
    OpDelay,      \* ticks a file operation waits: 30
    MaxText,      \* MAX_TEXT_LEN: 4096
    Paths, Docs,
    Sizes,        \* the lengths of files and of what is typed
    Editor,       \* NaoEdit's entry in Apps
    Absent,
    VolumeFails   \* the volume may be full, or its FAT damaged

ASSUME NaoEditAssumption ==
    /\ OpDelay \in Nat /\ MaxText \in Nat /\ MaxText > 2
    /\ Sizes \subseteq Nat /\ Editor \in Apps /\ VolumeFails \in BOOLEAN

VARIABLES
    text_buffer, text_len, filepath_buffer,
    show_open_dialog, show_save_dialog,
    file_op_state,        \* 0 idle, 1 open pending, 2 save pending
    file_op_start_tick,
    alert_state,          \* 0 none, 1 success, 2 error
    files,                \* the volume
    confirmed             \* the path in the dialog when its OK was pressed

dialogs == <<show_open_dialog, show_save_dialog>>
edit == <<text_buffer, text_len, filepath_buffer, dialogs, file_op_state,
          file_op_start_tick, alert_state, files, confirmed>>

Text == [of : Docs, len : Nat]
Cut(t, n) == [of |-> t.of, len |-> IF t.len < n THEN t.len ELSE n]

\* text_len starts one short of the welcome text it belongs to.
EditInit ==
    /\ text_buffer \in [of : Docs, len : {n \in Sizes : n \in 1 .. MaxText - 2}]
    /\ text_len = text_buffer.len - 1
    /\ filepath_buffer \in Paths /\ confirmed = filepath_buffer
    /\ show_open_dialog = FALSE /\ show_save_dialog = FALSE
    /\ file_op_state = 0 /\ file_op_start_tick = 0 /\ alert_state = 0
    /\ files \in [Paths -> [of : Docs, len : Sizes] \cup {Absent}]

\* f_open, f_read of at most MaxText - 1 bytes, f_close.  A read that fails on
\* the way may have overwritten the text.
execute_actual_open(path) ==
    /\ \/ files[path] = Absent /\ alert_state' = 2 /\ UNCHANGED <<text_buffer, text_len>>
       \/ /\ files[path] # Absent
          /\ text_buffer' = Cut(files[path], MaxText - 1)
          /\ text_len' = text_buffer'.len
          /\ alert_state' = 0
       \/ /\ VolumeFails /\ files[path] # Absent
          /\ text_buffer' \in {text_buffer, Cut(files[path], MaxText - 1)}
          /\ alert_state' = 2
          /\ UNCHANGED text_len
    /\ UNCHANGED files

\* f_open with FA_CREATE_ALWAYS, f_write of text_len bytes, f_close.  A
\* directory without room refuses the f_open; a full volume makes f_write
\* write less than it was asked to, and return FR_OK; a damaged FAT makes it
\* fail.
execute_actual_save(path) ==
    /\ \/ VolumeFails /\ files[path] = Absent /\ alert_state' = 2 /\ UNCHANGED files
       \/ /\ \E n \in 0 .. text_len :
                /\ n = text_len \/ VolumeFails
                /\ files' = [files EXCEPT ![path] = Cut(text_buffer, n)]
          /\ alert_state' = 1
       \/ /\ VolumeFails
          /\ files' = [files EXCEPT ![path] = Cut(text_buffer, 0)]
          /\ alert_state' = 2
    /\ UNCHANGED <<text_buffer, text_len>>

\* Mutant: the operation stays pending.
DelayHandler_Again ==
    IF file_op_state # 0 /\ Since(timer_ticks, file_op_start_tick) >= OpDelay
    THEN /\ ani_stop
         /\ IF file_op_state = 1 THEN execute_actual_open(filepath_buffer)
                                 ELSE execute_actual_save(filepath_buffer)
         /\ UNCHANGED <<filepath_buffer, dialogs, file_op_state, file_op_start_tick, confirmed>>
    ELSE UNCHANGED <<edit, ani_active>>

\* The top of render_naoedit: a pending operation whose time has come.
DelayHandler ==
    IF file_op_state # 0 /\ Since(timer_ticks, file_op_start_tick) >= OpDelay
    THEN /\ ani_stop
         /\ IF file_op_state = 1 THEN execute_actual_open(filepath_buffer)
                                 ELSE execute_actual_save(filepath_buffer)
         /\ file_op_state' = 0
         /\ UNCHANGED <<filepath_buffer, dialogs, file_op_start_tick, confirmed>>
    ELSE UNCHANGED <<edit, ani_active>>

\* Mutant: the length is not brought up to date.
EditArea_StaleLength(t) == text_buffer' = Cut(t, MaxText - 2) /\ UNCHANGED text_len

\* The text field, which every frame cuts to MaxText - 2 characters, and the
\* recount of text_len behind it.
EditArea(t) ==
    /\ text_buffer' = Cut(t, MaxText - 2)
    /\ text_len' = text_buffer'.len

\* Mutant: the menu is open to a pending operation.
OpenItem_Always ==
    /\ show_open_dialog' = TRUE /\ show_save_dialog' = FALSE
    /\ EditArea(text_buffer)
    /\ UNCHANGED <<filepath_buffer, file_op_state, file_op_start_tick, alert_state,
                   files, confirmed, ani_active>>

\* File > Open...: only while nothing is pending.
OpenItem ==
    /\ IF file_op_state = 0
       THEN show_open_dialog' = TRUE /\ show_save_dialog' = FALSE
       ELSE UNCHANGED dialogs
    /\ EditArea(text_buffer)
    /\ UNCHANGED <<filepath_buffer, file_op_state, file_op_start_tick, alert_state,
                   files, confirmed, ani_active>>

\* File > Save As...
SaveItem ==
    /\ IF file_op_state = 0
       THEN show_save_dialog' = TRUE /\ show_open_dialog' = FALSE
       ELSE UNCHANGED dialogs
    /\ EditArea(text_buffer)
    /\ UNCHANGED <<filepath_buffer, file_op_state, file_op_start_tick, alert_state,
                   files, confirmed, ani_active>>

\* The path field of the dialog.
TypePath(p) ==
    /\ show_open_dialog \/ show_save_dialog
    /\ filepath_buffer' = p
    /\ EditArea(text_buffer)
    /\ UNCHANGED <<dialogs, file_op_state, file_op_start_tick, alert_state, files,
                   confirmed, ani_active>>

\* OK in the dialog.
DialogOk ==
    /\ show_open_dialog \/ show_save_dialog
    /\ IF file_op_state = 0
       THEN /\ ani_play
            /\ file_op_start_tick' = timer_ticks
            /\ file_op_state' = IF show_open_dialog THEN 1 ELSE 2
            /\ confirmed' = filepath_buffer
       ELSE UNCHANGED <<ani_active, file_op_start_tick, file_op_state, confirmed>>
    /\ show_open_dialog' = FALSE /\ show_save_dialog' = FALSE
    /\ EditArea(text_buffer)
    /\ UNCHANGED <<filepath_buffer, alert_state, files>>

\* Cancel in the dialog.
DialogCancel ==
    /\ show_open_dialog \/ show_save_dialog
    /\ show_open_dialog' = FALSE /\ show_save_dialog' = FALSE
    /\ EditArea(text_buffer)
    /\ UNCHANGED <<filepath_buffer, file_op_state, file_op_start_tick, alert_state,
                   files, confirmed, ani_active>>

\* Typing in the text field, or a frame without input for the editor.
TypeText(t) ==
    /\ EditArea(t)
    /\ UNCHANGED <<filepath_buffer, dialogs, file_op_state, file_op_start_tick,
                   alert_state, files, confirmed, ani_active>>

\* OK, or the close button, of the alert window.
AlertOk ==
    /\ alert_state # 0
    /\ alert_state' = 0
    /\ EditArea(text_buffer)
    /\ UNCHANGED <<filepath_buffer, dialogs, file_op_state, file_op_start_tick,
                   files, confirmed, ani_active>>

\* Mutant: the spinner does not stop.
CloseEditor_SpinsOn ==
    /\ active' = [active EXCEPT ![Editor] = FALSE]
    /\ alert_state' = 0 /\ file_op_state' = 0
    /\ UNCHANGED <<text_buffer, text_len, filepath_buffer, dialogs,
                   file_op_start_tick, files, confirmed, ani_active>>

\* The close button of the editor: the body of the window is skipped and a
\* pending operation is dropped.
CloseEditor ==
    /\ active' = [active EXCEPT ![Editor] = FALSE]
    /\ alert_state' = 0 /\ file_op_state' = 0
    /\ ani_stop
    /\ UNCHANGED <<text_buffer, text_len, filepath_buffer, dialogs,
                   file_op_start_tick, files, confirmed>>

=============================================================================
