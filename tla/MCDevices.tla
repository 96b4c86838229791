------------------------------ MODULE MCDevices ------------------------------
(***************************************************************************)
(* The drivers of keyboard ring, PS/2 controller and disk.  They share no  *)
(* state, so each behaviour is one of a single driver, chosen in the       *)
(* beginning, with the other two at rest.                                  *)
(***************************************************************************)
EXTENDS MCKeyboard, MCPs2, MCAta

VARIABLE side

devicesVars == <<side, keyboardVars, ps2Vars, ataVars>>

DevicesInit ==
    /\ side \in {"keyboard", "ps2", "disk"}
    /\ KeyboardInit /\ Ps2Init /\ AtaInit
    /\ side # "disk" => ide_interrupt_fired = 0 /\ ~ intrq

DevicesNext ==
    /\ UNCHANGED side
    /\ \/ side = "keyboard" /\ UNCHANGED <<ps2Vars, ataVars>> /\ KeyboardNext
       \/ side = "ps2" /\ UNCHANGED <<keyboardVars, ataVars>> /\ Ps2Next
       \/ side = "disk" /\ UNCHANGED <<keyboardVars, ps2Vars>> /\ AtaNext

\* The fairness of each specification, on its own side.
DevicesSpec ==
    /\ DevicesInit /\ [][DevicesNext]_devicesVars
    /\ WF_keyboardVars(side = "keyboard" /\ MainLoop)
    /\ WF_ps2Vars(side = "ps2" /\ Transfer)
    /\ WF_ps2Vars(side = "ps2" /\ init_mouse)
    /\ WF_ps2Vars(side = "ps2" /\ Interrupt)
    /\ WF_ataVars(side = "disk" /\ Driver)
    /\ WF_ataVars(side = "disk" /\ Drive)
    /\ WF_ataVars(side = "disk" /\ Irq14)

=============================================================================
