-------------------------------- MODULE NicTx --------------------------------
(***************************************************************************)
(* The transmit path of src/network/port/netif_driver.c and src/rtl8139.c: *)
(* low_level_output and nic_transmit_packet fill the card's transmit       *)
(* descriptors in turn; the card sends them in turn, at its own pace.  The *)
(* driver never asks whether the card is done with a descriptor.           *)
(***************************************************************************)
EXTENDS Naturals, Sequences

CONSTANTS
    N,          \* transmit descriptors: 4
    Cap,        \* bytes low_level_output collects: 1518
    MaxTx,      \* longest length nic_transmit_packet takes: 1536
    Packets,    \* the pbuf chains lwIP sends
    Lengths,    \* and their total lengths
    MaxQueue    \* bound: frames handed over and not sent that are remembered

ASSUME NicTxAssumption ==
    /\ N \in Nat \ {0} /\ MaxQueue \in Nat
    /\ Cap \in Nat /\ MaxTx \in Nat /\ Lengths \subseteq Nat

VARIABLES
    tx_io_base, tx_counter, tx_buffers,
    tx_pc,          \* "idle" outside the driver, "start" before the registers
    frame,       \* what low_level_output has collected
    own,         \* card: descriptors it has been told to send
    cur,         \* card: the descriptor it sends next
    wire,        \* the last frame on the wire
    handed,      \* the frames handed to the card and not sent yet
    overrun      \* a descriptor was reused before the card had sent it

txVars == <<tx_io_base, tx_counter, tx_buffers, tx_pc, frame, own, cur, wire, handed, overrun>>

Slot == 0 .. N - 1
Frame == [data : Packets, len : Lengths \cup {Cap}]
NoFrame == << >>

\* The buffers start zeroed, the card may or may not have been found.
TxInit ==
    /\ tx_io_base \in {0, 1} /\ tx_counter = 0
    /\ tx_buffers = [d \in Slot |-> NoFrame]
    /\ tx_pc = "idle" /\ frame = NoFrame
    /\ own = [d \in Slot |-> FALSE] /\ cur = 0
    /\ wire = NoFrame /\ handed = << >> /\ overrun = FALSE

\* The conditions nic_transmit_packet returns on.
Accepted(n) == tx_io_base # 0 /\ n <= MaxTx /\ n # 0

\* Mutant: the copy always goes to the first buffer.
low_level_output_FirstBuffer ==
    /\ tx_pc = "idle"
    /\ \E p \in Packets, n \in Lengths :
        LET f == [data |-> p, len |-> IF n < Cap THEN n ELSE Cap]
        IN  /\ frame' = f
            /\ IF Accepted(f.len)
               THEN /\ Len(handed) < MaxQueue
                    /\ tx_buffers' = [tx_buffers EXCEPT ![0] = f]
                    /\ overrun' = (overrun \/ own[tx_counter])
                    /\ tx_pc' = "start"
               ELSE UNCHANGED <<tx_buffers, overrun, tx_pc>>
    /\ UNCHANGED <<tx_io_base, tx_counter, own, cur, wire, handed>>

\* low_level_output flattens the chain, cut off at Cap bytes, and calls
\* nic_transmit_packet, which copies it into the next descriptor's buffer.
low_level_output ==
    /\ tx_pc = "idle"
    /\ \E p \in Packets, n \in Lengths :
        LET f == [data |-> p, len |-> IF n < Cap THEN n ELSE Cap]
        IN  /\ frame' = f
            /\ IF Accepted(f.len)
               THEN /\ Len(handed) < MaxQueue
                    /\ tx_buffers' = [tx_buffers EXCEPT ![tx_counter] = f]
                    /\ overrun' = (overrun \/ own[tx_counter])
                    /\ tx_pc' = "start"
               ELSE UNCHANGED <<tx_buffers, overrun, tx_pc>>
    /\ UNCHANGED <<tx_io_base, tx_counter, own, cur, wire, handed>>

\* Mutant: the counter moves before the registers are written.
Start_CountsFirst ==
    /\ tx_pc = "start" /\ tx_pc' = "idle"
    /\ own' = [own EXCEPT ![(tx_counter + 1) % N] = TRUE]
    /\ handed' = Append(handed, frame)
    /\ tx_counter' = (tx_counter + 1) % N
    /\ UNCHANGED <<tx_io_base, tx_buffers, frame, cur, wire, overrun>>

\* The address and length registers, which hand the descriptor to the card.
Start ==
    /\ tx_pc = "start" /\ tx_pc' = "idle"
    /\ own' = [own EXCEPT ![tx_counter] = TRUE]
    /\ handed' = Append(handed, frame)
    /\ tx_counter' = (tx_counter + 1) % N
    /\ UNCHANGED <<tx_io_base, tx_buffers, frame, cur, wire, overrun>>

\* The card fetches its next descriptor's buffer and sends it.
CardSends ==
    /\ own[cur]
    /\ wire' = tx_buffers[cur]
    /\ own' = [own EXCEPT ![cur] = FALSE]
    /\ cur' = (cur + 1) % N
    /\ handed' = Tail(handed)
    /\ UNCHANGED <<tx_io_base, tx_counter, tx_buffers, tx_pc, frame, overrun>>

TxNext == low_level_output \/ Start \/ CardSends

TxSpec == TxInit /\ [][TxNext]_txVars /\ WF_txVars(Start) /\ WF_txVars(CardSends)

-----------------------------------------------------------------------------

\* The counters stay within the descriptors, and the buffers hold frames.
TxTypeOK ==
    /\ tx_io_base \in {0, 1}
    /\ tx_counter \in Slot /\ cur \in Slot
    /\ tx_buffers \in [Slot -> Frame \cup {NoFrame}]
    /\ tx_pc \in {"idle", "start"}
    /\ frame \in Frame \cup {NoFrame} /\ wire \in Frame \cup {NoFrame}
    /\ own \in [Slot -> BOOLEAN]
    /\ overrun \in BOOLEAN

\* As long as the card has kept ahead of the driver, it sends exactly the
\* frames low_level_output was given, each once, whole and in order.
WireInOrder ==
    [][ ~overrun /\ own # own' /\ Len(handed') < Len(handed) => wire' = Head(handed) ]_txVars

\* What has been handed over gets sent, as long as no descriptor was reused.
HandedIsSent == \A d \in Slot : []<>(~own[d] \/ overrun)

=============================================================================
