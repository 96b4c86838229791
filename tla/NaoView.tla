------------------------------ MODULE NaoView -------------------------------
(***************************************************************************)
(* The image viewer of src/naoview.c.  One action is one frame with at     *)
(* most one click.  The path and the pixels are left out: what the volume  *)
(* and the decoder make of a path is any of the three results.  When the   *)
(* heap has no room for the pixels kmalloc never returns (Heap), so there  *)
(* is no such step.                                                        *)
(*                                                                         *)
(* Nuklear (src/nuklear.h) gives a window at most one popup at a time, the *)
(* window behind it takes no input, and a popup that is not drawn in a     *)
(* frame is gone.                                                          *)
(***************************************************************************)
EXTENDS Naturals

VARIABLES
    naoview_active, naoview_minimized, naoview_show_open_dialog,
    naoview_alert,       \* OK, ERR_NOT_FOUND or ERR_BAD_FORMAT
    naoview_pixels,      \* a buffer, or none
    blocks,              \* buffers taken from the heap and not given back
    popup,               \* the title of the window's popup, or "none"
    result               \* what a load in this frame came to, OK without one

viewerVars == <<naoview_active, naoview_minimized, naoview_show_open_dialog,
                naoview_alert, naoview_pixels, blocks, popup, result>>

NoPixels == "NULL"
OpenFile == "Open File"
Alert == "Application Alert"

ViewerInit ==
    /\ naoview_active = FALSE /\ naoview_minimized = FALSE
    /\ naoview_show_open_dialog = FALSE /\ naoview_alert = "OK"
    /\ naoview_pixels = NoPixels /\ blocks = 0
    /\ popup = "none" /\ result = "OK"

\* nk_popup_begin: another popup that is active keeps this one from opening.
nk_popup_begin(active, title) == active \in {"none", title}

\* The end of render_naoview: both dialogs, from the flags as they are when
\* the frame comes to each; `closes` and `ok` say which of their buttons close.
Dialogs(show, closes, alert, ok) ==
    LET first == show /\ nk_popup_begin(popup, OpenFile)
        drawn == IF first THEN IF closes THEN "none" ELSE OpenFile ELSE popup
        second == alert # "OK" /\ nk_popup_begin(drawn, Alert)
    IN
    /\ naoview_show_open_dialog' = (first /\ ~ closes)
    /\ naoview_alert' = IF second /\ ~ ok THEN alert ELSE "OK"
    /\ popup' = IF second THEN IF ok THEN "none" ELSE Alert
                ELSE IF first THEN drawn ELSE "none"

naoview_close_image ==
    /\ naoview_pixels' = NoPixels
    /\ blocks' = IF naoview_pixels = NoPixels THEN blocks ELSE blocks - 1

\* Mutant: the image that is shown is not given back.
naoview_load_image_Keeps(status) ==
    IF status = "OK" THEN naoview_pixels' = "image" /\ blocks' = blocks + 1
                     ELSE UNCHANGED <<naoview_pixels, blocks>>

naoview_load_image(status) ==
    IF status = "OK"
    THEN /\ naoview_pixels' = "image"
         /\ blocks' = IF naoview_pixels = NoPixels THEN blocks + 1 ELSE blocks
    ELSE naoview_close_image

-----------------------------------------------------------------------------
(* The shell: the window is drawn in the same frame when it is shown.      *)

Redrawn == IF naoview_show_open_dialog THEN OpenFile ELSE "none"

LaunchViewer ==
    /\ naoview_active' = TRUE /\ naoview_minimized' = FALSE
    /\ popup' = Redrawn /\ result' = "OK"
    /\ UNCHANGED <<naoview_show_open_dialog, naoview_alert, naoview_pixels, blocks>>

ViewerTaskButton ==
    /\ naoview_active
    /\ naoview_minimized' = ~ naoview_minimized
    /\ popup' = IF naoview_minimized THEN Redrawn ELSE "none"
    /\ result' = "OK"
    /\ UNCHANGED <<naoview_active, naoview_show_open_dialog, naoview_alert,
                   naoview_pixels, blocks>>

-----------------------------------------------------------------------------
(* render_naoview.                                                         *)

Drawn ==
    /\ naoview_active /\ ~ naoview_minimized
    /\ UNCHANGED <<naoview_active, naoview_minimized>>

\* The File menu, while there is no popup.
OpenPngItem ==
    /\ Drawn /\ popup = "none" /\ result' = "OK"
    /\ Dialogs(TRUE, FALSE, "OK", FALSE)
    /\ UNCHANGED <<naoview_pixels, blocks>>

CloseImageItem ==
    /\ Drawn /\ popup = "none" /\ result' = "OK"
    /\ naoview_close_image
    /\ Dialogs(naoview_show_open_dialog, FALSE, "OK", FALSE)

\* A load that does not succeed leaves the dialog open.
LoadButton ==
    /\ Drawn /\ popup = OpenFile
    /\ \E status \in {"OK", "ERR_NOT_FOUND", "ERR_BAD_FORMAT"} :
        /\ naoview_load_image(status)
        /\ result' = status
        /\ Dialogs(TRUE, status = "OK", status, FALSE)

CancelButton ==
    /\ Drawn /\ popup = OpenFile /\ result' = "OK"
    /\ Dialogs(TRUE, TRUE, naoview_alert, FALSE)
    /\ UNCHANGED <<naoview_pixels, blocks>>

\* A frame without a click, or with one on the OK of an alert that is there.
Idles ==
    /\ Drawn /\ result' = "OK"
    /\ \E ok \in {FALSE, popup = Alert} :
        Dialogs(naoview_show_open_dialog, FALSE, naoview_alert, ok)
    /\ UNCHANGED <<naoview_pixels, blocks>>

\* The close button of the window hides it.
CloseViewer ==
    /\ naoview_active /\ ~ naoview_minimized /\ popup = "none"
    /\ naoview_active' = FALSE /\ result' = "OK"
    /\ naoview_close_image
    /\ UNCHANGED <<naoview_minimized, naoview_show_open_dialog, naoview_alert, popup>>

ViewerNext ==
    \/ LaunchViewer \/ ViewerTaskButton
    \/ OpenPngItem \/ CloseImageItem \/ LoadButton \/ CancelButton \/ Idles
    \/ CloseViewer

ViewerSpec == ViewerInit /\ [][ViewerNext]_viewerVars

-----------------------------------------------------------------------------
(* The viewer holds one buffer of the heap while it has an image and none  *)
(* while it has not, which is so whenever it is closed; and the prompt it  *)
(* believes to be open is the popup on the screen.                         *)
ViewerOwns ==
    /\ blocks = IF naoview_pixels = NoPixels THEN 0 ELSE 1
    /\ ~ naoview_active => naoview_pixels = NoPixels
    /\ naoview_active /\ ~ naoview_minimized =>
            (naoview_show_open_dialog <=> popup = OpenFile)

(* "IMAGE VIEWER WITH STATUS ALERTS" (src/naoview.c:28), of which only OK  *)
(* is to "Dismiss error state" (src/naoview.c:248): an error of a load is  *)
(* there to be shown after the frame it was found in.                      *)
ErrorAlerted == naoview_alert = result \/ result = "OK"
=============================================================================
