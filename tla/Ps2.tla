-------------------------------- MODULE Ps2 --------------------------------
(***************************************************************************)
(* The PS/2 controller as src/idt.c drives it: init_mouse, which polls it  *)
(* with interrupts off, and then the IRQ 1 and IRQ 12 branches of          *)
(* isr_handler.  Keyboard and mouse share one output buffer (port 0x60).   *)
(* A byte takes a device about a millisecond, so none arrives while a      *)
(* handler runs: a handler is one step.                                    *)
(*                                                                         *)
(* Devices and controller are external.  They answer before mouse_wait     *)
(* gives up, the controller is always ready for a command, and the PIC     *)
(* keeps an edge until the CPU takes it.  A byte is the set of its bits.   *)
(***************************************************************************)
EXTENDS Integers, Sequences

CONSTANTS
    Config,         \* the command byte the firmware leaves
    Scancodes,      \* bytes the keyboard sends
    Packets,        \* packets the mouse sends: three bytes, bit 3 of the first set
    EarlyInput,     \* the keyboard and the mouse are touched during the start
    gfx_width, gfx_height,
    MaxKeys,        \* bound: scancodes in a behaviour
    MaxPackets      \* bound: packets in a behaviour

Byte == SUBSET (0..7)
ACK == {1, 3, 4, 5, 6, 7}
KbdIrq == 0
AuxIrq == 1
KbdOff == 4
AuxOff == 5

ASSUME Ps2Assumption ==
    /\ Config \in Byte /\ KbdIrq \in Config /\ KbdOff \notin Config
    /\ Scancodes \subseteq Byte
    /\ \A p \in Packets : p \in Seq(Byte) /\ Len(p) = 3 /\ 3 \in p[1]

VARIABLES
    boot,           \* where init_mouse is; "sti" then "run" after it
    status,         \* its variable
    config, obf,    \* the controller: command byte and output buffer
    reply, kbd, aux,   \* bytes yet to come from it, the keyboard, the mouse
    latched,        \* interrupts the PIC keeps for the CPU
    mouse_cycle, mouse_packet, mouse_x, mouse_y, buttons,
    typed, codes,   \* scancodes sent; those the handler has read
    sent, parsed    \* packets sent; those the handler has put together

bus == <<config, obf, reply, kbd, aux, latched>>
mouse == <<mouse_cycle, mouse_packet, mouse_x, mouse_y, buttons, parsed>>
ps2Vars == <<boot, status, bus, mouse, typed, codes, sent>>

\* The output buffer: who filled it (bit 5 of port 0x64), and whether it has
\* been read (bit 0).  A read of an empty one returns the last byte.
Filled(src, b) == [src |-> src, val |-> b, full |-> TRUE]
Taken == [obf EXCEPT !.full = FALSE]

Ps2Init ==
    /\ boot = "A8" /\ status = {}
    /\ config = Config /\ obf = [src |-> "kbd", val |-> {}, full |-> FALSE]
    /\ reply = <<>> /\ kbd = <<>> /\ aux = <<>> /\ latched = {}
    /\ mouse_cycle = 0 /\ mouse_packet = <<{}, {}, {}>>
    /\ mouse_x = 500 /\ mouse_y = 400 /\ buttons = {}
    /\ typed = <<>> /\ codes = <<>> /\ sent = <<>> /\ parsed = <<>>

-----------------------------------------------------------------------------
(* The devices and the controller.                                         *)

Touched == EarlyInput \/ boot = "run"

KeyEvent(b) ==
    /\ Touched /\ Len(typed) < MaxKeys
    /\ kbd' = Append(kbd, b) /\ typed' = Append(typed, b)
    /\ UNCHANGED <<boot, status, config, obf, reply, aux, latched, mouse, codes, sent>>

\* Once it streams.
MouseMoves(p) ==
    /\ Touched /\ boot \in {"ack2", "sti", "run"} /\ Len(sent) < MaxPackets
    /\ aux' = aux \o p /\ sent' = Append(sent, p)
    /\ UNCHANGED <<boot, status, config, obf, reply, kbd, latched, mouse, typed, codes>>

Fill(src, b, irq, line) ==
    /\ ~ obf.full
    /\ obf' = Filled(src, b)
    /\ latched' = IF irq \in config THEN latched \cup {line} ELSE latched
    /\ UNCHANGED <<boot, status, config, mouse, typed, codes, sent>>

Transfer ==
    \/ /\ reply # <<>>
       /\ Fill("kbd", Head(reply), KbdIrq, 1)
       /\ reply' = Tail(reply) /\ UNCHANGED <<kbd, aux>>
    \/ /\ reply = <<>> /\ kbd # <<>> /\ KbdOff \notin config
       /\ Fill("kbd", Head(kbd), KbdIrq, 1)
       /\ kbd' = Tail(kbd) /\ UNCHANGED <<reply, aux>>
    \/ /\ reply = <<>> /\ aux # <<>> /\ AuxOff \notin config
       /\ Fill("aux", Head(aux), AuxIrq, 12)
       /\ aux' = Tail(aux) /\ UNCHANGED <<reply, kbd>>

-----------------------------------------------------------------------------
(* init_mouse.                                                             *)

At(here, next) ==
    /\ boot = here /\ boot' = next
    /\ UNCHANGED <<mouse, typed, codes, sent>>

\* mouse_wait(0), inb(0x60)
Polled == obf.full /\ obf' = Taken

EnableAux ==
    /\ At("A8", "20")
    /\ config' = config \ {AuxOff}
    /\ UNCHANGED <<status, obf, reply, kbd, aux, latched>>

AskConfig ==
    /\ At("20", "status")
    /\ reply' = Append(reply, config)
    /\ UNCHANGED <<status, config, obf, kbd, aux, latched>>

\* Mutant: the interrupt of the mouse is not enabled.
ReadConfig_NoIrq ==
    /\ At("status", "60")
    /\ Polled
    /\ status' = obf.val
    /\ UNCHANGED <<config, reply, kbd, aux, latched>>

ReadConfig ==
    /\ At("status", "60")
    /\ Polled
    /\ status' = obf.val \cup {AuxIrq}
    /\ UNCHANGED <<config, reply, kbd, aux, latched>>

WriteConfig ==
    /\ At("60", "F6")
    /\ config' = status
    /\ UNCHANGED <<status, obf, reply, kbd, aux, latched>>

\* mouse_write: the mouse acknowledges the command.
mouse_write(here, next) ==
    /\ At(here, next)
    /\ aux' = Append(aux, ACK)
    /\ UNCHANGED <<status, config, obf, reply, kbd, latched>>

mouse_read(here, next) ==
    /\ At(here, next)
    /\ Polled
    /\ UNCHANGED <<status, config, reply, kbd, aux, latched>>

\* kernel_main's sti lets in what the PIC has kept; then the start goes on.
Started ==
    /\ latched = {}
    /\ At("sti", "run")
    /\ UNCHANGED <<status, bus>>

init_mouse ==
    \/ EnableAux \/ AskConfig \/ ReadConfig \/ WriteConfig
    \/ mouse_write("F6", "ack1") \/ mouse_read("ack1", "F4")
    \/ mouse_write("F4", "ack2") \/ mouse_read("ack2", "sti")
    \/ Started

-----------------------------------------------------------------------------
(* isr_handler.                                                            *)

IrqKeyboard ==
    /\ boot \in {"sti", "run"} /\ 1 \in latched
    /\ latched' = latched \ {1}
    /\ codes' = Append(codes, obf.val) /\ obf' = Taken
    /\ UNCHANGED <<boot, status, config, reply, kbd, aux, mouse, typed, sent>>

Unsigned(b) ==
    LET low[i \in 0 .. 8] == IF i = 0 THEN 0 ELSE low[i - 1] + (IF i - 1 \in b THEN 2^(i - 1) ELSE 0)
    IN  low[8]

\* mouse_packet is of int8_t; the sign bit of the first byte adds 0xFF00.
Rel(b, negative) == IF negative \/ 7 \in b THEN Unsigned(b) - 256 ELSE Unsigned(b)

Clamp(n, size) == IF n < 0 THEN 0 ELSE IF n > size - 10 THEN size - 10 ELSE n

\* Mutant: a packet is taken to have two bytes.
MousePacket_Early(packet, cycle) ==
    IF cycle = 2
    THEN mouse_cycle' = 0 /\ parsed' = Append(parsed, packet) /\ UNCHANGED <<mouse_x, mouse_y, buttons>>
    ELSE mouse_cycle' = cycle /\ UNCHANGED <<mouse_x, mouse_y, buttons, parsed>>

MousePacket(packet, cycle) ==
    IF cycle = 3
    THEN /\ mouse_cycle' = 0
         /\ parsed' = Append(parsed, packet)
         /\ buttons' = packet[1] \cap {0, 1}
         /\ mouse_x' = Clamp(mouse_x + Rel(packet[2], 4 \in packet[1]), gfx_width)
         /\ mouse_y' = Clamp(mouse_y - Rel(packet[3], 5 \in packet[1]), gfx_height)
    ELSE mouse_cycle' = cycle /\ UNCHANGED <<mouse_x, mouse_y, buttons, parsed>>

\* The PIC gives IRQ 1 precedence.
IrqMouse ==
    /\ boot \in {"sti", "run"} /\ 12 \in latched /\ 1 \notin latched
    /\ latched' = latched \ {12}
    /\ obf' = Taken
    /\ IF ~ obf.full \/ obf.src # "aux" \/ (mouse_cycle = 0 /\ 3 \notin obf.val)
       THEN UNCHANGED mouse
       ELSE \E packet \in {[mouse_packet EXCEPT ![mouse_cycle + 1] = obf.val]} :
                mouse_packet' = packet /\ MousePacket(packet, mouse_cycle + 1)
    /\ UNCHANGED <<boot, status, config, reply, kbd, aux, typed, codes, sent>>

\* The main loop, with no byte that waits to be read.
Waits ==
    /\ boot = "run" /\ ~ obf.full /\ latched = {}
    /\ UNCHANGED ps2Vars

-----------------------------------------------------------------------------
Ps2Next ==
    \/ \E b \in Scancodes : KeyEvent(b)
    \/ \E p \in Packets : MouseMoves(p)
    \/ Transfer \/ init_mouse \/ IrqKeyboard \/ IrqMouse \/ Waits

Interrupt == IrqKeyboard \/ IrqMouse

\* Devices send what they have, the CPU runs and takes interrupts.
Ps2Fairness ==
    WF_ps2Vars(Transfer) /\ WF_ps2Vars(init_mouse) /\ WF_ps2Vars(Interrupt)

Ps2Spec == Ps2Init /\ [][Ps2Next]_ps2Vars /\ Ps2Fairness

-----------------------------------------------------------------------------
Prefix(s, t) == Len(s) <= Len(t) /\ s = SubSeq(t, 1, Len(s))

(* Nothing gets lost, doubled or taken for something else on the shared    *)
(* port: the packets the mouse handler puts together are those the mouse   *)
(* sent; the keyboard handler reads, each once and in order, the bytes of  *)
(* the keyboard, after one that init_mouse has left there, which it        *)
(* ignores because of its bit 7.                                           *)
InputAsSent == Prefix(parsed, sent) /\ Prefix(codes, <<ACK>> \o typed) /\ 7 \in ACK

(* The start comes to its end, and no byte stays in the output buffer with *)
(* its interrupt gone, which would stop both devices: whenever the input   *)
(* pauses, all of it has been read.                                        *)
InputArrives ==
    boot # "A8" ~> boot = "run" /\ Len(parsed) = Len(sent) /\ Len(codes) = Len(typed) + 1

(* init_mouse's "Set bit 1 (Enable IRQ 12)" is all it does to the command  *)
(* byte.                                                                   *)
ConfigKept == boot = "run" => config = (Config \ {AuxOff}) \cup {AuxIrq}
=============================================================================
