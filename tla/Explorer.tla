------------------------------ MODULE Explorer ------------------------------
(***************************************************************************)
(* The file explorer of src/explorer.c: its listing, its context menu and  *)
(* the three dialogs that rename, delete and create, on a FAT volume other *)
(* applications write to as well.  Nothing makes the dialogs modal: the    *)
(* window behind them takes clicks while they are open.                    *)
(*                                                                         *)
(* A path string is a sequence of tokens: "0:", "/" and names.  The volume *)
(* is a tree: a function from the names on the way to an object to what    *)
(* the object is.  One action is one frame with one input of the user; a   *)
(* frame that has a refresh to do does it before it looks at the input.    *)
(***************************************************************************)
EXTENDS Naturals, Sequences, FiniteSets

CONSTANTS
    Names,       \* names of files and directories
    Dotted,      \* those that start with a dot
    MaxItems,    \* MAX_FILES_PER_DIR: 32
    MaxObjects,  \* bound: the volume has no room for more objects
    Trees,       \* what the volume holds at boot
    Saves,       \* the files other applications write
    NoName       \* the empty string in target_item_name

\* As in SequencesExt, of which the proofs need no more.
Last(s) == s[Len(s)]
Front(s) == SubSeq(s, 1, Len(s) - 1)
IsPrefix(s, t) == Len(s) <= Len(t) /\ SubSeq(t, 1, Len(s)) = s

\* A volume: every object but those of the root is in a directory.
Sound(t) ==
    /\ DOMAIN t \subseteq Seq(Names) \ {<< >>}
    /\ \A c \in DOMAIN t : \A k \in 1 .. Len(c) - 1 :
           SubSeq(c, 1, k) \in DOMAIN t /\ t[SubSeq(c, 1, k)] = "dir"

ASSUME ExplorerAssumption ==
    /\ "0:" \notin Names /\ "/" \notin Names /\ NoName \notin Names
    /\ \A t \in Trees : Sound(t)
    /\ Saves \subseteq Seq(Names)

VARIABLES
    file_explorer_active, file_explorer_minimized,
    current_path, items, needs_refresh,
    context_menu,        \* "hidden", or on an "item" or the "blank" space
    target_item_name,
    show_rename_dialog, show_delete_dialog, show_mkdir_dialog,
    op_input_buffer,     \* << >> or the one name in it
    tree,
    asked                \* while its dialog is open: the object Delete was chosen on

window == <<file_explorer_active, file_explorer_minimized>>
prompts == <<show_rename_dialog, show_delete_dialog, show_mkdir_dialog>>
listing == <<current_path, items, needs_refresh>>
explorerVars == <<window, listing, context_menu, target_item_name, prompts, op_input_buffer,
          tree, asked>>

Inputs == {<< >>} \cup {<<n>> : n \in Names}

-----------------------------------------------------------------------------
(* The volume (FatFs, external).                                           *)

\* FatFs skips the drive and any number of separators before a name.
Resolve(path) ==
    LET names[k \in 0 .. Len(path)] ==
            IF k = 0 THEN << >>
            ELSE IF path[k] \in Names THEN Append(names[k - 1], path[k])
            ELSE names[k - 1]
    IN  names[Len(path)]

IsDir(d) == d = << >> \/ (d \in DOMAIN tree /\ tree[d] = "dir")

Children(d) == {c \in DOMAIN tree : Len(c) = Len(d) + 1 /\ IsPrefix(d, c)}
Below(d) == {c \in DOMAIN tree : IsPrefix(d, c)}
Without(gone) == [c \in DOMAIN tree \ gone |-> tree[c]]

\* The name is free and the directory it is to be in exists.
Free(p) == p # << >> /\ p \notin DOMAIN tree /\ IsDir(Front(p))

f_mkdir(p) ==
    \/ /\ Free(p) /\ Cardinality(DOMAIN tree) < MaxObjects
       /\ tree' = [c \in DOMAIN tree \cup {p} |-> IF c = p THEN "dir" ELSE tree[c]]
    \/ UNCHANGED tree

\* What was below old is below new.
f_rename(old, new) ==
    \/ /\ old \in DOMAIN tree /\ Free(new)
       /\ LET moved(c) == new \o SubSeq(c, Len(old) + 1, Len(c))
              kept == DOMAIN tree \ Below(old)
          IN  tree' = [c \in kept \cup {moved(b) : b \in Below(old)} |->
                        IF c \in kept THEN tree[c]
                        ELSE tree[old \o SubSeq(c, Len(new) + 1, Len(c))]]
    \/ UNCHANGED tree

-----------------------------------------------------------------------------

ExplorerInit ==
    /\ file_explorer_active = FALSE /\ file_explorer_minimized = FALSE
    /\ current_path = <<"0:">> /\ items = {} /\ needs_refresh = TRUE
    /\ context_menu = "hidden" /\ target_item_name = NoName
    /\ show_rename_dialog = FALSE /\ show_delete_dialog = FALSE
    /\ show_mkdir_dialog = FALSE /\ op_input_buffer = << >>
    /\ tree \in Trees /\ asked = << >>

\* "0:/" and a name give "0://name".
build_full_path(base, name) ==
    base \o (IF Last(base) = "0:" THEN << >> ELSE <<"/">>) \o name

Entry(c) == [name |-> Last(c), dir |-> tree[c] = "dir"]

\* Which entries come first in a directory is not known here.
populate_directory(path) ==
    LET d == Resolve(path)
        found == IF IsDir(d) THEN {Entry(c) : c \in Children(d)} ELSE {}
    IN  items' \in {s \in SUBSET found :
                        /\ Cardinality(s) <= MaxItems
                        /\ s = found \/ Cardinality(s) = MaxItems}

\* Mutant: cuts at the first separator instead of the last.
explorer_go_up_First(path) ==
    IF path = <<"0:">> THEN path ELSE SubSeq(path, 1, 2)

\* Cuts the last name off; the first separator stays, unless it is the last
\* character.
explorer_go_up(path) ==
    LET p == IF Last(path) = "/" THEN Front(path) ELSE path
        seps == {k \in DOMAIN p : p[k] = "/"}
        last == CHOOSE k \in seps : \A j \in seps : j <= k
    IN  IF path = <<"0:">> \/ seps = {} THEN p
        ELSE IF last = 2 THEN SubSeq(p, 1, 2)
        ELSE SubSeq(p, 1, last - 1)

\* The name of a directory that was clicked is appended.
Descend(path, n) == path \o (IF Last(path) = "/" THEN << >> ELSE <<"/">>) \o <<n>>

\* What the loop leaves alone: entries whose name starts with a dot.
Obstacles(d) ==
    {c \in Below(d) : \E k \in Len(d) + 1 .. Len(c) : c[k] \in Dotted}

\* Mutant: the entries found are looked for beside the directory.
empty_and_delete_dir_Beside(path) ==
    LET d == Resolve(path)
    IN  IF d \in DOMAIN tree /\ tree[d] = "dir"
        THEN tree' = Without(Children(Front(d)))
        ELSE UNCHANGED tree

\* f_opendir refuses a plain file.  An entry that is left alone makes f_unlink
\* refuse its directory as not empty, and that ends every loop further up:
\* what comes behind it in the directory survives.
empty_and_delete_dir(path) ==
    LET d == Resolve(path)
        removable == Below(d) \ ({d} \cup Obstacles(d))
        closed(gone) == \A c \in gone : Below(c) \subseteq gone
    IN  IF d \notin DOMAIN tree \/ tree[d] # "dir" THEN UNCHANGED tree
        ELSE IF Obstacles(d) = {} THEN tree' = Without(Below(d))
        ELSE IF closed(removable) THEN tree' = Without(removable)
        ELSE \E gone \in SUBSET removable :
                closed(gone) /\ tree' = Without(gone)

-----------------------------------------------------------------------------
(* The shell.                                                              *)

LaunchExplorer ==
    /\ file_explorer_active' = TRUE /\ file_explorer_minimized' = FALSE /\ needs_refresh' = TRUE
    /\ UNCHANGED <<current_path, items, context_menu, target_item_name, prompts,
                   op_input_buffer, tree, asked>>

ExplorerTaskButton ==
    /\ file_explorer_active /\ file_explorer_minimized' = ~file_explorer_minimized
    /\ UNCHANGED <<file_explorer_active, listing, context_menu, target_item_name, prompts,
                   op_input_buffer, tree, asked>>

\* Another application creates a file.
OtherSaves ==
    /\ \E p \in Saves :
        /\ Free(p) /\ Cardinality(DOMAIN tree) < MaxObjects
        /\ tree' = [c \in DOMAIN tree \cup {p} |-> IF c = p THEN "file" ELSE tree[c]]
    /\ UNCHANGED <<window, listing, context_menu, target_item_name, prompts,
                   op_input_buffer, asked>>

-----------------------------------------------------------------------------
(* render_file_explorer.                                                   *)

ExplorerRendered == file_explorer_active /\ ~file_explorer_minimized

Refresh ==
    /\ ExplorerRendered /\ needs_refresh
    /\ populate_directory(current_path)
    /\ needs_refresh' = FALSE
    /\ UNCHANGED <<window, current_path, context_menu, target_item_name, prompts,
                   op_input_buffer, tree, asked>>

\* The input is looked at in a frame whose listing is up to date.
Shown == ExplorerRendered /\ ~needs_refresh

\* A left click that is not on the context menu closes it, and then does what
\* it does.
LeftClick == Shown /\ context_menu' = "hidden"

UpButton ==
    /\ LeftClick
    /\ current_path' = explorer_go_up(current_path) /\ needs_refresh' = TRUE
    /\ UNCHANGED <<window, items, target_item_name, prompts, op_input_buffer, tree, asked>>

RefreshButton ==
    /\ LeftClick
    /\ needs_refresh' = TRUE
    /\ UNCHANGED <<window, current_path, items, target_item_name, prompts,
                   op_input_buffer, tree, asked>>

\* A click on a file, or beside everything, has no other effect.
ItemButton ==
    /\ LeftClick
    /\ \/ \E e \in items : /\ e.dir
                           /\ current_path' = Descend(current_path, e.name)
                           /\ needs_refresh' = TRUE
       \/ UNCHANGED <<current_path, needs_refresh>>
    /\ UNCHANGED <<window, items, target_item_name, prompts, op_input_buffer, tree, asked>>

RightClick ==
    /\ Shown
    /\ \/ \E e \in items : context_menu' = "item" /\ target_item_name' = e.name
       \/ context_menu' = "blank" /\ UNCHANGED target_item_name
    /\ UNCHANGED <<window, listing, prompts, op_input_buffer, tree, asked>>

\* The dialogs stay as they are, to be seen again after the next launch.
CloseExplorer ==
    /\ Shown
    /\ file_explorer_active' = FALSE /\ context_menu' = "hidden"
    /\ UNCHANGED <<file_explorer_minimized, listing, target_item_name, prompts, op_input_buffer,
                   tree, asked>>

\* Mutant: the listing is not read again.
Renamed_NoRefresh ==
    /\ f_rename(Resolve(build_full_path(current_path, <<target_item_name>>)),
                Resolve(build_full_path(current_path, op_input_buffer)))
    /\ show_rename_dialog' = FALSE
    /\ UNCHANGED needs_refresh

\* OK of the three dialogs.
Renamed ==
    /\ f_rename(Resolve(build_full_path(current_path, <<target_item_name>>)),
                Resolve(build_full_path(current_path, op_input_buffer)))
    /\ needs_refresh' = TRUE /\ show_rename_dialog' = FALSE

Deleted ==
    /\ empty_and_delete_dir(build_full_path(current_path, <<target_item_name>>))
    /\ needs_refresh' = TRUE /\ show_delete_dialog' = FALSE /\ asked' = << >>

Made ==
    /\ f_mkdir(Resolve(build_full_path(current_path, op_input_buffer)))
    /\ needs_refresh' = TRUE /\ show_mkdir_dialog' = FALSE

\* The context menu.  The dialog it opens is drawn in the same frame, on top,
\* and sees the same press: when its OK, Cancel or close button comes to lie
\* where the mouse is, the press counts there as well.  OK then renames to the
\* same name, or makes a directory without one: FatFs refuses both.
ContextRename ==
    /\ Shown /\ context_menu = "item" /\ context_menu' = "hidden"
    /\ op_input_buffer' = <<target_item_name>>
    /\ \/ show_rename_dialog' = TRUE /\ UNCHANGED needs_refresh
       \/ /\ ~show_rename_dialog /\ UNCHANGED show_rename_dialog
          /\ needs_refresh' \in BOOLEAN
    /\ UNCHANGED <<window, current_path, items, target_item_name, show_delete_dialog,
                   show_mkdir_dialog, tree, asked>>

ContextDelete ==
    /\ Shown /\ context_menu = "item" /\ context_menu' = "hidden"
    /\ \/ /\ show_delete_dialog' = TRUE /\ UNCHANGED <<needs_refresh, tree>>
          /\ asked' = Append(Resolve(current_path), target_item_name)
       \/ ~show_delete_dialog /\ Deleted
       \/ ~show_delete_dialog /\ UNCHANGED <<show_delete_dialog, needs_refresh, tree, asked>>
    /\ UNCHANGED <<window, current_path, items, target_item_name, show_rename_dialog,
                   show_mkdir_dialog, op_input_buffer>>

ContextNewFolder ==
    /\ Shown /\ context_menu = "blank" /\ context_menu' = "hidden"
    /\ op_input_buffer' = << >>
    /\ \/ show_mkdir_dialog' = TRUE /\ UNCHANGED needs_refresh
       \/ /\ ~show_mkdir_dialog /\ UNCHANGED show_mkdir_dialog
          /\ needs_refresh' \in BOOLEAN
    /\ UNCHANGED <<window, current_path, items, target_item_name, show_rename_dialog,
                   show_delete_dialog, tree, asked>>

\* Rename and New Folder have one text field between them.
TypeName ==
    /\ Shown
    /\ show_rename_dialog \/ show_mkdir_dialog
    /\ op_input_buffer' \in Inputs
    /\ UNCHANGED <<window, listing, context_menu, target_item_name, prompts, tree, asked>>

RenameOk ==
    /\ LeftClick /\ show_rename_dialog /\ Renamed
    /\ UNCHANGED <<window, current_path, items, target_item_name, show_delete_dialog,
                   show_mkdir_dialog, op_input_buffer, asked>>

DeleteOk ==
    /\ LeftClick /\ show_delete_dialog /\ Deleted
    /\ UNCHANGED <<window, current_path, items, target_item_name, show_rename_dialog,
                   show_mkdir_dialog, op_input_buffer>>

MkdirOk ==
    /\ LeftClick /\ show_mkdir_dialog /\ Made
    /\ UNCHANGED <<window, current_path, items, target_item_name, show_rename_dialog,
                   show_delete_dialog, op_input_buffer, asked>>

\* Cancel, or the close button, of one dialog.
Cancel ==
    /\ LeftClick
    /\ \/ /\ show_rename_dialog /\ show_rename_dialog' = FALSE
          /\ UNCHANGED <<show_delete_dialog, show_mkdir_dialog, asked>>
       \/ /\ show_delete_dialog /\ show_delete_dialog' = FALSE /\ asked' = << >>
          /\ UNCHANGED <<show_rename_dialog, show_mkdir_dialog>>
       \/ /\ show_mkdir_dialog /\ show_mkdir_dialog' = FALSE
          /\ UNCHANGED <<show_rename_dialog, show_delete_dialog, asked>>
    /\ UNCHANGED <<window, listing, target_item_name, op_input_buffer, tree>>

ExplorerFrame ==
    \/ Refresh \/ UpButton \/ RefreshButton \/ ItemButton \/ RightClick \/ CloseExplorer
    \/ ContextRename \/ ContextDelete \/ ContextNewFolder
    \/ TypeName \/ RenameOk \/ DeleteOk \/ MkdirOk \/ Cancel

ExplorerNext == LaunchExplorer \/ ExplorerTaskButton \/ OtherSaves \/ ExplorerFrame

ExplorerSpec == ExplorerInit /\ [][ExplorerNext]_explorerVars

-----------------------------------------------------------------------------

\* The directory the explorer is in exists, whatever the dialogs, which do not
\* keep the user from walking on, have renamed or deleted meanwhile; and what
\* can be clicked in an up-to-date window is in it, and is the file or the
\* directory it is listed as.
ShowsVolume ==
    /\ IsDir(Resolve(current_path))
    /\ ~needs_refresh =>
        \A e \in items :
            LET c == Append(Resolve(current_path), e.name)
            IN  c \in DOMAIN tree /\ e.dir = (tree[c] = "dir")

\* The path string goes one level up or down at a time, in every form the root
\* may have ("0:", "0:/"): explorer_go_up undoes what a click appended.
WalksTree ==
    [][ LET d == Resolve(current_path)
            e == Resolve(current_path')
        IN  current_path' # current_path =>
                \/ d = << >> /\ e = << >>
                \/ d # << >> /\ e = Front(d)
                \/ e \in Children(d) /\ tree[e] = "dir" ]_explorerVars

\* Objects disappear only by the OK of Rename or Delete, and nothing but what
\* is at or below the target's name in the directory of that moment.
NothingElseLost ==
    [][ \A c \in DOMAIN tree \ DOMAIN tree' :
            /\ IsPrefix(Append(Resolve(current_path), target_item_name), c)
            /\ needs_refresh' ]_explorerVars

\* "Are you sure you want to delete this?" (src/explorer.c:387): OK deletes
\* what Delete was chosen on.
DeletesPicked == [][ DeleteOk => asked \notin DOMAIN tree' ]_explorerVars

=============================================================================
