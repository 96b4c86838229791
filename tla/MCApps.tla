------------------------------- MODULE MCApps -------------------------------
(***************************************************************************)
(* Three applications: the editor on its desktop, the file explorer and    *)
(* the image viewer.  They share nothing but the volume, of which the      *)
(* explorer's model has what the others save: each behaviour is one of a   *)
(* single application, chosen in the beginning, with the others not        *)
(* started.                                                                *)
(***************************************************************************)
EXTENDS Desktop, MCExplorer, NaoView

VARIABLE side

appsVars == <<side, vars, explorerVars, viewerVars>>

AppsInit ==
    /\ side \in {"editor", "explorer", "viewer"}
    /\ Init /\ ExplorerInit /\ ViewerInit
    /\ side # "explorer" => tree = CHOOSE t \in Trees : TRUE
    /\ side # "editor" => /\ files = [p \in Paths |-> Absent]
                         /\ filepath_buffer = CHOOSE p \in Paths : TRUE

AppsNext ==
    /\ UNCHANGED side
    /\ \/ side = "editor" /\ Next /\ UNCHANGED <<explorerVars, viewerVars>>
       \/ side = "explorer" /\ ExplorerNext /\ UNCHANGED <<vars, viewerVars>>
       \/ side = "viewer" /\ ViewerNext /\ UNCHANGED <<vars, explorerVars>>

AppsSpec == AppsInit /\ [][AppsNext]_appsVars

=============================================================================
