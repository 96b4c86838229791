-------------------------------- MODULE NicRx --------------------------------
(***************************************************************************)
(* The receive path of src/rtl8139.c and src/network/port/netif_driver.c:  *)
(* init_rtl8139, nic_poll_received_packet and netif_driver_poll, against   *)
(* the card, which stores frames in rx_buffer by DMA at any moment.  The   *)
(* card runs with the WRAP bit set (RCR bit 7): a frame that starts near   *)
(* the end of the ring goes on into the margin behind it.                  *)
(*                                                                         *)
(* rx_buffer is modelled by double words: a header or the k-th word of a   *)
(* frame.  Offsets and lengths stay in bytes; a length includes the CRC.   *)
(***************************************************************************)
EXTENDS Integers, Sequences

CONSTANTS
    Ring,        \* bytes of the ring: 8192
    Margin,      \* bytes of rx_buffer behind it: 16 + 1518
    CaprWrap,    \* REG_CAPR is modulo this: 2^16
    Lead,        \* REG_CAPR stays this much behind the read offset: 0x10
    MaxLength,   \* a damaged header is believed up to this length: 1536
    Fallback,    \* and else taken for this length: 64
    Frames       \* the frames on the wire: [id, len, ok]

ASSUME NicRxAssumption ==
    /\ {Ring, Margin, CaprWrap, Lead, MaxLength, Fallback} \subseteq Nat \ {0}
    /\ Ring % 4 = 0 /\ CaprWrap % Ring = 0 /\ Lead < CaprWrap
    /\ \A f \in Frames : f.len \in 5 .. MaxLength /\ f.ok \in BOOLEAN
    /\ \A f \in Frames : f.len <= Margin /\ f.len + 8 < Ring

VARIABLES
    io_base,     \* 0, or the card was found
    rx_offset,
    rx_buffer,   \* its double words
    rx_pc,          \* where the main loop is
    buffer,      \* rx_temp_buffer: the words of the last frame copied
    length,      \* from the header being handled
    enabled,     \* card: the receiver is on
    CAPR,        \* card: as the driver wrote it
    cbr,         \* card: where the next frame will be stored
    storing,     \* card: the frame being stored, or << >>
    queue,       \* the frames stored and not yet passed over by the driver
    taken        \* the frame the driver has just copied, or << >>

driver == <<io_base, rx_offset, rx_pc, buffer, length, CAPR, taken>>
card == <<enabled, cbr, storing>>
rxVars == <<io_base, rx_offset, rx_buffer, rx_pc, buffer, length, enabled, CAPR, cbr,
          storing, queue, taken>>

Slots == 0 .. (Ring + Margin) \div 4

\* The double words a frame of n bytes (without the header) takes.
Words(n) == (n + 3) \div 4
Word(f, k) == <<"word", f.id, k>>
Header(f) == <<"header", f.ok, f.len>>
Garbage == <<"garbage">>

\* The bytes memcpy takes out of a frame of n bytes.
Payload(f) == [k \in 0 .. Words(f.len - 4) - 1 |-> Word(f, k)]

\* (x + 3) & ~3
Align4(x) == ((x + 3) \div 4) * 4

RxInit ==
    /\ io_base = 0 /\ rx_offset = 0 /\ rx_pc = "boot"
    /\ rx_buffer = [s \in Slots |-> Garbage]
    /\ buffer = << >> /\ length = 0
    /\ enabled = FALSE /\ CAPR = CaprWrap - Lead /\ cbr = 0 /\ storing = << >>
    /\ queue = << >> /\ taken = << >>

-----------------------------------------------------------------------------
\* The card (external).

\* Where the card believes the driver is.
ReadPtr == (CAPR + Lead) % Ring

\* BUFE, bit 0 of the command register.
BufferEmpty == cbr = ReadPtr

\* A frame is dropped when it would fill what is left of the ring.
Room(f) ==
    LET avail == (Ring + ReadPtr - cbr) % Ring
    IN  avail = 0 \/ Align4(f.len + 4) < avail

\* The card starts writing a frame into the host's memory ...
RxBegin ==
    /\ enabled /\ storing = << >>
    /\ \E f \in Frames :
        /\ Room(f)
        /\ storing' = <<f>>
        /\ rx_buffer' = [s \in Slots |->
              IF s = cbr \div 4 THEN Header(f)
              ELSE IF s - cbr \div 4 \in 1 .. Words(f.len)
                   THEN Word(f, s - cbr \div 4 - 1) ELSE rx_buffer[s]]
    /\ UNCHANGED <<driver, enabled, cbr, queue>>

\* ... and is done with it.
RxPublish ==
    /\ storing # << >>
    /\ cbr' = Align4(cbr + storing[1].len + 4) % Ring
    /\ queue' = queue \o storing
    /\ storing' = << >>
    /\ UNCHANGED <<driver, rx_buffer, enabled>>

-----------------------------------------------------------------------------
\* The driver.

\* init_rtl8139: no card or no usable BAR; a card that never leaves its reset,
\* with io_base already set; or a card told where the ring is and switched on.
init_rtl8139 ==
    /\ rx_pc = "boot" /\ rx_pc' = "idle"
    /\ \/ io_base' = 0 /\ UNCHANGED enabled
       \/ io_base' = 1 /\ UNCHANGED enabled
       \/ io_base' = 1 /\ enabled' = TRUE
    /\ UNCHANGED <<rx_offset, rx_buffer, buffer, length, CAPR, cbr, storing, queue, taken>>

\* A frame of the main loop comes to netif_driver_poll.
netif_driver_poll ==
    /\ rx_pc = "idle" /\ rx_pc' = "check"
    /\ UNCHANGED <<io_base, rx_offset, rx_buffer, buffer, length, CAPR, card, queue, taken>>

\* nic_poll_received_packet: no card, or nothing there, and the poll is over.
Check ==
    /\ rx_pc = "check"
    /\ rx_pc' = IF io_base = 0 \/ BufferEmpty THEN "idle" ELSE "copy"
    /\ UNCHANGED <<io_base, rx_offset, rx_buffer, buffer, length, CAPR, card, queue, taken>>

\* What the driver may read as a header: anything, where there is none.
HeadersAt(s) ==
    IF rx_buffer[s][1] = "header"
    THEN {[ok |-> rx_buffer[s][2], len |-> rx_buffer[s][3]]}
    ELSE {[ok |-> b, len |-> n] : b \in BOOLEAN, n \in {5, MaxLength + 1}}

\* The header, and for a good frame the memcpy out of the ring.
Copy ==
    /\ rx_pc = "copy"
    /\ \E h \in HeadersAt(rx_offset \div 4) :
        IF h.ok
        THEN /\ length' = h.len
             /\ buffer' = [k \in 0 .. Words(h.len - 4) - 1 |->
                             rx_buffer[rx_offset \div 4 + 1 + k]]
             /\ rx_pc' = "advance"
        ELSE /\ length' = IF h.len = 0 \/ h.len > MaxLength THEN Fallback ELSE h.len
             /\ rx_pc' = "skip"
             /\ UNCHANGED buffer
    /\ taken' = IF queue = << >> THEN << >> ELSE <<Head(queue)>>
    /\ queue' = IF queue = << >> THEN << >> ELSE Tail(queue)
    /\ UNCHANGED <<io_base, rx_offset, rx_buffer, CAPR, card>>

\* Mutant: the 4 bytes of the header are forgotten.
NextOffset_NoHeader ==
    LET o == Align4(rx_offset + length) IN IF o >= Ring THEN o - Ring ELSE o

NextOffset ==
    LET o == Align4(rx_offset + length + 4) IN IF o >= Ring THEN o - Ring ELSE o

\* Mutant: the register gets the offset itself.
AdvanceTo_NoLead(next) ==
    /\ rx_offset' = NextOffset
    /\ CAPR' = NextOffset % CaprWrap
    /\ rx_pc' = next
    /\ UNCHANGED <<io_base, rx_buffer, buffer, length, card, queue, taken>>

\* Mutant: the card is not told.
AdvanceTo_NoCapr(next) ==
    /\ rx_offset' = NextOffset
    /\ rx_pc' = next
    /\ UNCHANGED <<io_base, rx_buffer, buffer, length, CAPR, card, queue, taken>>

AdvanceTo(next) ==
    /\ rx_offset' = NextOffset
    /\ CAPR' = (NextOffset - Lead) % CaprWrap
    /\ rx_pc' = next
    /\ UNCHANGED <<io_base, rx_buffer, buffer, length, card, queue, taken>>

\* A good frame goes to netif_driver_poll; after a damaged one the poll gets
\* 0 and ends, whatever else is waiting.
Advance == rx_pc = "advance" /\ AdvanceTo("input")
Skip == rx_pc = "skip" /\ AdvanceTo("idle")

\* pbuf_alloc, pbuf_take and netif->input, or no pbuf: on to the next frame.
Input ==
    /\ rx_pc = "input" /\ rx_pc' = "check"
    /\ UNCHANGED <<io_base, rx_offset, rx_buffer, buffer, length, CAPR, card, queue, taken>>

Driver == netif_driver_poll \/ Check \/ Copy \/ Advance \/ Skip \/ Input

RxNext == init_rtl8139 \/ RxBegin \/ RxPublish \/ Driver

\* The main loop runs, and the card finishes what it has begun.
RxSpec == RxInit /\ [][RxNext]_rxVars /\ WF_rxVars(Driver) /\ WF_rxVars(RxPublish)

-----------------------------------------------------------------------------

\* What netif_driver_poll passes to lwIP is, word for word, the oldest frame
\* the card had stored; damaged frames are never passed on.
InputIsOldest ==
    rx_pc = "input" => /\ taken # << >> /\ taken[1].ok
                    /\ buffer = Payload(taken[1])

\* The card never writes where the driver still has to read, and neither
\* leaves rx_buffer: every stored frame stays as it was stored, from the read
\* offset on.
NothingOverwritten ==
    rx_pc \in {"check", "copy"} /\ queue # << >> =>
        /\ rx_buffer[rx_offset \div 4] = Header(Head(queue))
        /\ rx_offset + 4 + Head(queue).len <= Ring + Margin
        /\ \A k \in 0 .. Words(Head(queue).len) - 1 :
              rx_buffer[rx_offset \div 4 + 1 + k] = Word(Head(queue), k)

\* The ring never stays full: time and again the card has room for any frame.
RingRecovers == []<>(\A f \in Frames : Room(f))

=============================================================================
