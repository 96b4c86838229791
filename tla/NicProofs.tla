----------------------------- MODULE NicProofs ------------------------------
(***************************************************************************)
(* Proofs about the RTL8139 driver: frames leave and enter whole and in    *)
(* order.                                                                  *)
(***************************************************************************)
EXTENDS NicTx, NicRx, SequenceTheorems, TLAPS

-----------------------------------------------------------------------------
(* The transmit side, for every number of transmit descriptors, as long as *)
(* none is reused before it was sent.                                      *)

\* The descriptor j turns after descriptor c.
Turn(c, j) == IF c + j < N THEN c + j ELSE c + j - N

\* The turn both the driver and the card take: one further, around the ring.
LEMMA NextTurn ==
    ASSUME NEW c \in Slot
    PROVE  (c + 1) % N \in Slot /\ (c + 1) % N = Turn(c, 1)
<1> USE NicTxAssumption DEF Slot, Turn
<1>1. CASE c + 1 < N
    BY <1>1
<1>2. CASE c + 1 = N
    <2>1. N % N = 0
        OBVIOUS
    <2> QED BY <1>2, <2>1
<1> QED BY <1>1, <1>2

\* Turns stay within the ring, and fewer than N of them never meet.
LEMMA TurnFacts ==
    ASSUME NEW c \in Slot
    PROVE  /\ \A j \in 0 .. N : Turn(c, j) \in Slot
           /\ \A j \in 0 .. N - 1, k \in 0 .. N - 1 :
                Turn(c, j) = Turn(c, k) => j = k
           /\ \A j \in 0 .. N - 1 : Turn(Turn(c, 1), j) = Turn(c, j + 1)
           /\ Turn(c, 0) = c /\ Turn(c, N) = c
BY NicTxAssumption DEF Slot, Turn

\* The types, and a frame to hand over whenever the registers are written.
TxDriver == TxTypeOK /\ (tx_pc = "start" => frame \in Frame)

\* TxDriver and card agree: the frames on their way sit in the descriptors the
\* card owns, in the order it visits them, and the driver's next descriptor
\* comes after them.
TxAgree ==
    /\ handed \in Seq(Frame) /\ Len(handed) <= N
    /\ tx_counter = Turn(cur, Len(handed))
    /\ \A j \in 0 .. N - 1 : own[Turn(cur, j)] <=> j < Len(handed)
    /\ \A j \in 0 .. Len(handed) - 1 : tx_buffers[Turn(cur, j)] = handed[j + 1]
    /\ tx_pc = "start" => Len(handed) < N /\ tx_buffers[tx_counter] = frame

TxInv == TxDriver /\ (~overrun => TxAgree)

\* The buffers start empty and the card owns none.
LEMMA TxInitInv == TxInit => TxInv
<1> SUFFICES ASSUME TxInit PROVE TxInv
    OBVIOUS
<1> USE NicTxAssumption DEF TxInit
<1>1. 0 \in Slot
    BY DEF Slot
<1>2. TxDriver
    BY <1>1 DEF TxDriver, TxTypeOK
<1>3. TxAgree
    BY <1>1, TurnFacts DEF TxAgree
<1> QED BY <1>2, <1>3 DEF TxInv

\* What low_level_output collects is a frame.
LEMMA Collected ==
    ASSUME NEW p \in Packets, NEW n \in Lengths
    PROVE  [data |-> p, len |-> IF n < Cap THEN n ELSE Cap] \in Frame
BY DEF Frame

\* Filling the next buffer leaves the frames on their way alone, unless it
\* is the reuse that overrun marks.
LEMMA TxOutputInv == TxInv /\ low_level_output => TxInv'
<1> SUFFICES ASSUME TxInv, low_level_output PROVE TxInv'
    OBVIOUS
<1> USE NicTxAssumption
<1>1. PICK p \in Packets, n \in Lengths :
        LET f == [data |-> p, len |-> IF n < Cap THEN n ELSE Cap]
        IN  /\ frame' = f
            /\ IF Accepted(f.len)
               THEN /\ tx_buffers' = [tx_buffers EXCEPT ![tx_counter] = f]
                    /\ overrun' = (overrun \/ own[tx_counter])
                    /\ tx_pc' = "start"
               ELSE UNCHANGED <<tx_buffers, overrun, tx_pc>>
    BY DEF low_level_output
<1> DEFINE f == [data |-> p, len |-> IF n < Cap THEN n ELSE Cap]
<1>2. f \in Frame /\ frame' = f
    BY <1>1, Collected
<1>3. tx_pc = "idle" /\ UNCHANGED <<tx_io_base, tx_counter, own, cur, wire, handed>>
    BY DEF low_level_output
<1>4. CASE ~Accepted(f.len)
    <2>1. UNCHANGED <<tx_buffers, overrun, tx_pc>>
        BY <1>1, <1>4
    <2> HIDE DEF f
    <2> QED BY <1>2, <1>3, <2>1 DEF TxInv, TxDriver, TxTypeOK, TxAgree
<1>5. CASE Accepted(f.len)
    <2>1. /\ tx_buffers' = [tx_buffers EXCEPT ![tx_counter] = f]
          /\ overrun' = (overrun \/ own[tx_counter])
          /\ tx_pc' = "start"
        BY <1>1, <1>5
    <2> HIDE DEF f
    <2>2. TxDriver'
        BY <1>2, <1>3, <2>1 DEF TxInv, TxDriver, TxTypeOK
    <2>3. ASSUME ~overrun' PROVE TxAgree'
        <3>1. ~overrun /\ ~own[tx_counter] /\ TxDriver /\ TxAgree
            BY <2>1, <2>3 DEF TxInv, TxDriver, TxTypeOK
        <3> DEFINE m == Len(handed)
        <3>2. cur \in Slot /\ tx_counter \in Slot /\ m \in 0 .. N
              /\ tx_counter = Turn(cur, m)
            BY <3>1 DEF TxDriver, TxTypeOK, TxAgree
        <3>3. m < N
            <4>1. ASSUME m = N PROVE FALSE
                <5>1. 0 \in 0 .. N - 1 /\ 0 < Len(handed)
                    BY <4>1
                <5>2. own[Turn(cur, 0)]
                    BY <3>1, <5>1 DEF TxAgree
                <5> QED BY <3>1, <3>2, <4>1, <5>2, TurnFacts
            <4> QED BY <3>2, <4>1
        <3>4. tx_buffers'[tx_counter] = f
            BY <2>1, <3>1, <3>2 DEF TxDriver, TxTypeOK
        <3>5. ASSUME NEW j \in 0 .. m - 1
              PROVE  tx_buffers'[Turn(cur, j)] = handed[j + 1]
            <4>1. j \in 0 .. N - 1 /\ m \in 0 .. N - 1 /\ j # m
                BY <3>2, <3>3, <3>5
            <4>2. Turn(cur, j) # tx_counter /\ Turn(cur, j) \in Slot
                BY <3>2, <4>1, TurnFacts
            <4> QED BY <2>1, <3>1, <4>2 DEF TxAgree, TxDriver, TxTypeOK
        <3> QED BY <1>2, <1>3, <2>1, <3>1, <3>3, <3>4, <3>5 DEF TxAgree
    <2> QED BY <2>2, <2>3 DEF TxInv
<1> QED BY <1>4, <1>5

\* Writing the registers hands over the one frame that was just copied.
LEMMA TxStartInv == TxInv /\ Start => TxInv'
<1> SUFFICES ASSUME TxInv, Start PROVE TxInv'
    OBVIOUS
<1> USE NicTxAssumption
<1>1. TxDriver'
    BY NextTurn DEF TxInv, TxDriver, TxTypeOK, Start
<1>2. ASSUME ~overrun' PROVE TxAgree'
    <2>1. TxDriver /\ TxAgree /\ tx_pc = "start"
        BY <1>2 DEF TxInv, Start
    <2> DEFINE m == Len(handed)
    <2>2. /\ own' = [own EXCEPT ![tx_counter] = TRUE]
          /\ handed' = Append(handed, frame)
          /\ tx_counter' = (tx_counter + 1) % N
          /\ tx_pc' = "idle" /\ UNCHANGED <<tx_buffers, cur, frame>>
        BY DEF Start
    <2>3. /\ cur \in Slot /\ tx_counter \in Slot /\ own \in [Slot -> BOOLEAN]
          /\ handed \in Seq(Frame) /\ frame \in Frame
          /\ m \in 0 .. N - 1 /\ tx_counter = Turn(cur, m)
          /\ tx_buffers[tx_counter] = frame
        BY <2>1 DEF TxDriver, TxTypeOK, TxAgree
    <2>4. /\ handed' \in Seq(Frame) /\ Len(handed') = m + 1
          /\ handed'[m + 1] = frame
          /\ \A j \in 0 .. m - 1 : handed'[j + 1] = handed[j + 1]
        BY <2>2, <2>3
    <2>5. tx_counter' = Turn(cur, m + 1)
        <3>1. tx_counter' = Turn(tx_counter, 1)
            BY <2>2, <2>3, NextTurn
        <3> QED BY <2>3, <3>1 DEF Turn, Slot
    <2>6. ASSUME NEW j \in 0 .. N - 1
          PROVE  own'[Turn(cur, j)] <=> j < m + 1
        <3>1. Turn(cur, j) \in Slot /\ (Turn(cur, j) = tx_counter => j = m)
            BY <2>3, <2>6, TurnFacts
        <3>2. own[Turn(cur, j)] <=> j < m
            BY <2>1, <2>6 DEF TxAgree
        <3>3. CASE j = m
            BY <2>2, <2>3, <3>1, <3>3
        <3>4. CASE j # m
            <4>1. own'[Turn(cur, j)] = own[Turn(cur, j)]
                BY <2>2, <2>3, <3>1, <3>4
            <4>2. j < m <=> j < m + 1
                BY <2>3, <3>4
            <4> QED BY <3>2, <4>1, <4>2
        <3> QED BY <3>3, <3>4
    <2>7. ASSUME NEW j \in 0 .. m
          PROVE  tx_buffers[Turn(cur, j)] = handed'[j + 1]
        <3>1. CASE j = m
            BY <2>3, <2>4, <3>1
        <3>2. CASE j # m
            <4>1. j \in 0 .. m - 1
                BY <2>3, <2>7, <3>2
            <4> QED BY <2>1, <2>4, <4>1 DEF TxAgree
        <3> QED BY <3>1, <3>2
    <2> QED BY <2>2, <2>3, <2>4, <2>5, <2>6, <2>7 DEF TxAgree
<1> QED BY <1>1, <1>2 DEF TxInv

\* The card takes the oldest frame, and the others move up one turn.
LEMMA TxCardInv == TxInv /\ CardSends => TxInv' /\ (~overrun => wire' = Head(handed))
<1> SUFFICES ASSUME TxInv, CardSends
             PROVE  TxInv' /\ (~overrun => wire' = Head(handed))
    OBVIOUS
<1> USE NicTxAssumption
<1>1. TxDriver'
    BY NextTurn DEF TxInv, TxDriver, TxTypeOK, CardSends
<1>2. ASSUME ~overrun PROVE TxAgree' /\ wire' = Head(handed)
    <2>1. TxDriver /\ TxAgree
        BY <1>2 DEF TxInv
    <2> DEFINE m == Len(handed)
    <2>2. /\ own[cur] /\ own' = [own EXCEPT ![cur] = FALSE]
          /\ wire' = tx_buffers[cur] /\ handed' = Tail(handed)
          /\ cur' = (cur + 1) % N
          /\ UNCHANGED <<tx_counter, tx_buffers, tx_pc, frame>>
        BY DEF CardSends
    <2>3. /\ cur \in Slot /\ own \in [Slot -> BOOLEAN]
          /\ handed \in Seq(Frame) /\ m \in 0 .. N
        BY <2>1 DEF TxDriver, TxTypeOK, TxAgree
    <2>4. m > 0 /\ tx_buffers[cur] = handed[1]
        <3>1. Turn(cur, 0) = cur /\ 0 \in 0 .. N - 1
            BY <2>3, TurnFacts
        <3>2. 0 < m
            BY <2>1, <2>2, <3>1 DEF TxAgree
        <3>3. 0 \in 0 .. m - 1
            BY <2>3, <3>2
        <3>4. tx_buffers[Turn(cur, 0)] = handed[0 + 1]
            BY <2>1, <3>3 DEF TxAgree
        <3> QED BY <3>1, <3>2, <3>4
    <2>5. /\ handed' \in Seq(Frame) /\ Len(handed') = m - 1
          /\ \A j \in 0 .. m - 2 : handed'[j + 1] = handed[j + 2]
        BY <2>2, <2>3, <2>4
    <2>6. cur' = Turn(cur, 1)
        BY <2>2, <2>3, NextTurn
    <2>7. \A j \in 0 .. N - 1 : Turn(cur', j) = Turn(cur, j + 1)
        BY <2>3, <2>6, TurnFacts
    <2>8. tx_counter' = Turn(cur', m - 1)
        <3>1. m - 1 \in 0 .. N - 1
            BY <2>3, <2>4
        <3>2. Turn(cur', m - 1) = Turn(cur, m)
            BY <2>7, <3>1, <2>3
        <3> QED BY <2>1, <2>2, <3>2 DEF TxAgree
    <2>9. ASSUME NEW j \in 0 .. N - 1
          PROVE  own'[Turn(cur', j)] <=> j < m - 1
        <3>1. CASE j = N - 1
            <4>1. Turn(cur', j) = cur
                BY <2>3, <2>7, <3>1, TurnFacts
            <4>2. ~(j < m - 1)
                BY <2>3, <3>1
            <4> QED BY <2>2, <2>3, <4>1, <4>2
        <3>2. CASE j # N - 1
            <4>1. j + 1 \in 0 .. N - 1 /\ 0 \in 0 .. N - 1 /\ j + 1 # 0
                BY <2>9, <3>2
            <4>2. Turn(cur, j + 1) # cur /\ Turn(cur, j + 1) \in Slot
                BY <2>3, <4>1, TurnFacts
            <4>3. own'[Turn(cur', j)] = own[Turn(cur, j + 1)]
                BY <2>2, <2>3, <2>7, <2>9, <4>2
            <4>4. own[Turn(cur, j + 1)] <=> j + 1 < m
                BY <2>1, <4>1 DEF TxAgree
            <4>5. j + 1 < m <=> j < m - 1
                BY <2>3
            <4> QED BY <4>3, <4>4, <4>5
        <3> QED BY <3>1, <3>2
    <2>10. ASSUME NEW j \in 0 .. m - 2
           PROVE  tx_buffers[Turn(cur', j)] = handed'[j + 1]
        <3>1. j \in 0 .. N - 1 /\ j + 1 \in 0 .. m - 1 /\ (j + 1) + 1 = j + 2
            BY <2>3, <2>10
        <3>2. tx_buffers[Turn(cur, j + 1)] = handed[j + 2]
            BY <2>1, <3>1 DEF TxAgree
        <3> QED BY <2>5, <2>7, <2>10, <3>1, <3>2
    <2>11. TxAgree'
        <3>1. m - 1 <= N /\ 0 .. (m - 1) - 1 = 0 .. m - 2
              /\ (tx_pc' = "start" => m - 1 < N /\ tx_buffers'[tx_counter'] = frame')
            BY <2>1, <2>2, <2>3 DEF TxAgree
        <3> QED BY <2>2, <2>5, <2>8, <2>9, <2>10, <3>1 DEF TxAgree
    <2> QED BY <2>2, <2>3, <2>4, <2>11
<1>3. overrun' = overrun
    BY DEF CardSends
<1> QED BY <1>1, <1>2, <1>3 DEF TxInv

\* Every step keeps driver and card in agreement until a reuse.
LEMMA TxNextInv == TxInv /\ [TxNext]_txVars => TxInv'
<1> SUFFICES ASSUME TxInv, [TxNext]_txVars PROVE TxInv'
    OBVIOUS
<1>1. CASE UNCHANGED txVars
    BY <1>1 DEF txVars, TxInv, TxDriver, TxTypeOK, TxAgree
<1> QED BY <1>1, TxOutputInv, TxStartInv, TxCardInv DEF TxNext

\* Until the driver reuses a descriptor the card has not sent, driver and
\* card agree on whose turn it is (tx_counter against the card's own count).
THEOREM AgreeAlways == TxSpec => []TxInv
<1> QED BY TxInitInv, TxNextInv, PTL DEF TxSpec

\* The counters index the descriptors and the buffers hold frames, whatever
\* nic_transmit_packet and the card do.
THEOREM TypeOKAlways == TxSpec => []TxTypeOK
<1>1. TxInv => TxTypeOK
    BY DEF TxInv, TxDriver
<1> QED BY <1>1, AgreeAlways, PTL

\* For every number of descriptors and every pace of the card, what goes out
\* is the oldest frame nic_transmit_packet handed over and not yet sent.
THEOREM WireInOrderAlways == TxSpec => WireInOrder
<1>1. ASSUME TxInv, [TxNext]_txVars
      PROVE  [ ~overrun /\ own # own' /\ Len(handed') < Len(handed)
                 => wire' = Head(handed) ]_txVars
    <2>1. CASE UNCHANGED txVars
        BY <2>1
    <2>2. CASE low_level_output
        BY <2>2 DEF low_level_output
    <2>3. CASE Start
        <3>1. ASSUME ~overrun PROVE ~(Len(handed') < Len(handed))
            <4>1. handed \in Seq(Frame) /\ frame \in Frame
                BY <1>1, <2>3, <3>1 DEF TxInv, TxAgree, TxDriver, TxTypeOK, Start
            <4>2. Len(handed') = Len(handed) + 1 /\ Len(handed) \in Nat
                BY <4>1, <2>3 DEF Start
            <4> QED BY <4>2
        <3> QED BY <3>1
    <2>4. CASE CardSends
        BY <1>1, <2>4, TxCardInv
    <2> QED BY <1>1, <2>1, <2>2, <2>3, <2>4 DEF TxNext
<1> QED BY <1>1, AgreeAlways, PTL DEF TxSpec, WireInOrder

-----------------------------------------------------------------------------
(* The receive ring, for every size of it and every frame that fits.       *)

\* The bytes a frame of n bytes takes in the ring, header included.
Size(n) == Align4(n + 4)

\* The offset d bytes after offset o, around the ring.
At(o, d) == IF o + d < Ring THEN o + d ELSE o + d - Ring

\* The bytes between the driver's offset and the first frame of the queue: the
\* frame that was copied but not yet passed over.
Base == IF rx_pc \in {"advance", "skip"} THEN Size(length) ELSE 0

\* Frame f is in the ring at offset o.
Stored(o, f) ==
    /\ rx_buffer[o \div 4] = Header(f)
    /\ \A k \in 0 .. Words(f.len) - 1 : rx_buffer[o \div 4 + 1 + k] = Word(f, k)

\* The frames of the queue lie one after the other in the ring, frame i + 1
\* off[i] bytes behind the driver's offset, and the card goes on behind them.
Layout(off) ==
    /\ off \in [0 .. Len(queue) -> Nat]
    /\ off[0] = Base
    /\ \A i \in 0 .. Len(queue) - 1 : off[i + 1] = off[i] + Size(queue[i + 1].len)
    /\ \A i \in 0 .. Len(queue) : off[i] % 4 = 0 /\ off[i] <= off[Len(queue)]
    /\ \A i \in 0 .. Len(queue), j \in 0 .. Len(queue) : i <= j => off[i] <= off[j]
    /\ off[Len(queue)] < Ring
    /\ cbr = At(rx_offset, off[Len(queue)])
    /\ \A i \in 0 .. Len(queue) - 1 : Stored(At(rx_offset, off[i]), queue[i + 1])
    /\ storing # << >> => /\ off[Len(queue)] + Size(storing[1].len) < Ring
                          /\ Stored(cbr, storing[1])

Scalars ==
    /\ rx_offset \in 0 .. Ring - 1 /\ rx_offset % 4 = 0
    /\ length \in Nat
    /\ queue \in Seq(Frames)
    /\ storing # << >> => storing[1] \in Frames /\ storing = <<storing[1]>>
    /\ ReadPtr = rx_offset

\* What the driver knows at each point of the poll.
Progress ==
    /\ rx_pc = "copy" => queue # << >>
    /\ rx_pc \in {"advance", "input"} =>
            taken # << >> /\ taken[1].ok /\ buffer = Payload(taken[1])

RxInv == Scalars /\ Progress /\ \E off : Layout(off)

-----------------------------------------------------------------------------
\* The constants, one by one.
LEMMA Constants ==
    /\ Ring \in Nat /\ Ring >= 1 /\ Ring % 4 = 0
    /\ Margin \in Nat /\ CaprWrap \in Nat /\ CaprWrap >= 1
    /\ CaprWrap % Ring = 0
    /\ Lead \in Nat /\ Lead < CaprWrap
    /\ \A f \in Frames : /\ f.len \in Nat /\ f.len >= 5 /\ f.len <= MaxLength
                         /\ f.ok \in BOOLEAN
                         /\ f.len <= Margin /\ f.len + 8 < Ring
    /\ MaxLength \in Nat
BY NicRxAssumption

\* The ring has a size.
LEMMA RingNat == Ring \in Nat /\ Ring >= 1
BY Constants

\* The room a frame takes, in bytes and in double words.
LEMMA SizeFacts ==
    ASSUME NEW n \in Nat
    PROVE  /\ Size(n) \in Nat /\ Size(n) % 4 = 0
           /\ Size(n) >= n + 4 /\ Size(n) <= n + 7
           /\ Words(n) \in Nat /\ Size(n) = 4 * (1 + Words(n))
BY DEF Size, Align4, Words

\* Offsets stay in the ring and on double words.
LEMMA AtFacts ==
    ASSUME NEW o \in 0 .. Ring - 1, o % 4 = 0,
           NEW d \in Nat, d % 4 = 0, d < Ring
    PROVE  /\ At(o, d) \in 0 .. Ring - 1 /\ At(o, d) % 4 = 0
           /\ At(o, 0) = o
           /\ At(o, d) = o => d = 0
BY Constants DEF At

\* Going d and then e bytes is going d + e.
LEMMA AtSum ==
    ASSUME NEW o \in 0 .. Ring - 1, NEW d \in Nat, NEW e \in Nat, d + e < Ring
    PROVE  At(At(o, d), e) = At(o, d + e)
BY Constants DEF At

\* Stretches that follow one another within one turn share no double word,
\* although the earlier one may run on into the margin.
LEMMA Apart ==
    ASSUME NEW o \in 0 .. Ring - 1, o % 4 = 0,
           NEW a \in Nat, a % 4 = 0, NEW s \in Nat, NEW u \in Nat, u % 4 = 0,
           NEW z \in Nat,
           a + 4 * s <= u, u + 4 * z < Ring,
           NEW i \in 0 .. s - 1, NEW j \in 0 .. z - 1
    PROVE  At(o, a) \div 4 + i # At(o, u) \div 4 + j
BY Constants DEF At

\* rx_buffer has room for a frame at every offset.
LEMMA InSlots ==
    ASSUME NEW o \in 0 .. Ring - 1, o % 4 = 0, NEW f \in Frames
    PROVE  /\ o \div 4 \in Slots
           /\ \A k \in 0 .. Words(f.len) - 1 : o \div 4 + 1 + k \in Slots
           /\ o + 4 + f.len <= Ring + Margin
BY Constants DEF Slots, Words

\* What is left over by a whole number of turns.
LEMMA Remainder ==
    ASSUME NEW q \in Nat, NEW o \in 0 .. Ring - 1
    PROVE  (Ring * q + o) % Ring = o
BY Constants

\* The register holds a whole number of turns.
LEMMA Turns == CaprWrap \div Ring \in Nat /\ CaprWrap = Ring * (CaprWrap \div Ring)
<1>1. /\ CaprWrap \div Ring \in Nat
      /\ CaprWrap = Ring * (CaprWrap \div Ring) + (CaprWrap % Ring)
    BY Constants
<1> DEFINE q == CaprWrap \div Ring
<1>2. Ring * q \in Nat
    BY <1>1, Constants
<1> HIDE DEF q
<1> QED BY <1>1, <1>2, Constants DEF q

\* The register and its lead cancel out: the card reads the driver's offset.
LEMMA CaprLead ==
    ASSUME NEW o \in 0 .. Ring - 1
    PROVE  (((o - Lead) % CaprWrap) + Lead) % Ring = o
<1> USE Constants
<1>1. PICK q \in Nat : CaprWrap = Ring * q
    BY Turns
<1>2. Ring * 0 = 0 /\ CaprWrap >= Ring
    <2>1. q >= 1 => Ring * q >= Ring
        OBVIOUS
    <2>2. q # 0
        BY <1>1
    <2> QED BY <1>1, <2>1, <2>2
<1>3. CASE o >= Lead
    <2>1. ((o - Lead) % CaprWrap) + Lead = Ring * 0 + o
        BY <1>2, <1>3
    <2> QED BY <2>1, Remainder
<1>4. CASE o < Lead
    <2>1. (o - Lead) % CaprWrap = o - Lead + CaprWrap
        BY <1>4
    <2>2. ((o - Lead) % CaprWrap) + Lead = Ring * q + o
        BY <1>1, <2>1
    <2> QED BY <2>2, Remainder
<1> QED BY <1>3, <1>4

\* The card stores a frame only where it ends before the driver's offset.
LEMMA RoomFacts ==
    ASSUME Scalars, NEW used \in Nat, used % 4 = 0, used < Ring,
           cbr = At(rx_offset, used), NEW f \in Frames, Room(f)
    PROVE  used + Size(f.len) < Ring
<1> DEFINE avail == (Ring + ReadPtr - cbr) % Ring
<1> USE Constants
<1>1. Room(f) <=> avail = 0 \/ Size(f.len) < avail
    BY DEF Room, Size
<1>2. ReadPtr = rx_offset /\ rx_offset \in 0 .. Ring - 1 /\ f.len \in Nat
    BY DEF Scalars
<1>3. Size(f.len) \in Nat /\ Size(f.len) <= f.len + 7
    BY <1>2, SizeFacts
<1>4. CASE used = 0
    BY <1>3, <1>4
<1>5. CASE used # 0
    <2>1. Ring - used \in 1 .. Ring - 1
        BY <1>5
    <2>2. CASE rx_offset + used < Ring
        <3>1. Ring + ReadPtr - cbr = Ring * 0 + (Ring - used)
            BY <1>2, <2>2 DEF At
        <3> QED BY <1>1, <1>3, <2>1, <3>1, Remainder
    <2>3. CASE ~(rx_offset + used < Ring)
        <3>1. Ring + ReadPtr - cbr = Ring * 1 + (Ring - used)
            BY <1>2, <2>3 DEF At
        <3> QED BY <1>1, <1>3, <2>1, <3>1, Remainder
    <2> QED BY <2>2, <2>3
<1> QED BY <1>4, <1>5

\* Nothing is stored at boot.
LEMMA InitInv == RxInit => RxInv
<1> SUFFICES ASSUME RxInit PROVE RxInv
    OBVIOUS
<1> USE Constants DEF RxInit
<1>1. 0 \in 0 .. Ring - 1 /\ 0 % 4 = 0
    OBVIOUS
<1>2. CaprWrap - Lead + Lead = Ring * (CaprWrap \div Ring) + 0
    BY Turns
<1>3. ReadPtr = 0
    BY <1>1, <1>2, Turns, Remainder DEF ReadPtr
<1>4. Scalars
    BY <1>1, <1>3 DEF Scalars
<1>5. Progress
    BY DEF Progress
<1>6. Layout([i \in 0 .. 0 |-> 0])
    BY DEF Layout, Base, At
<1> QED BY <1>4, <1>5, <1>6 DEF RxInv

\* A step that leaves ring, queue and offsets alone keeps the layout.
LEMMA SameLayout ==
    ASSUME NEW off, Layout(off), Base' = Base,
           UNCHANGED <<rx_offset, rx_buffer, cbr, storing, queue>>
    PROVE  Layout(off)'
BY DEF Layout, Stored

\* And so do most steps of the poll.
LEMMA PollInv ==
    ASSUME RxInv, Progress',
           UNCHANGED <<rx_offset, rx_buffer, length, CAPR, cbr, storing, queue>>,
           rx_pc \notin {"advance", "skip"}, rx_pc' \notin {"advance", "skip"}
    PROVE  RxInv'
<1>1. Base' = Base
    BY DEF Base
<1>2. Scalars'
    BY DEF RxInv, Scalars, ReadPtr
<1> QED BY <1>1, <1>2, SameLayout DEF RxInv

\* The card writes behind the frames of the queue, so it spoils none.
LEMMA BeginInv == RxInv /\ RxBegin => RxInv'
<1> SUFFICES ASSUME RxInv, RxBegin PROVE RxInv'
    OBVIOUS
<1>1. PICK f \in Frames :
        /\ Room(f) /\ storing = << >> /\ storing' = <<f>>
        /\ rx_buffer' = [s \in Slots |->
              IF s = cbr \div 4 THEN Header(f)
              ELSE IF s - cbr \div 4 \in 1 .. Words(f.len)
                   THEN Word(f, s - cbr \div 4 - 1) ELSE rx_buffer[s]]
    BY DEF RxBegin
<1>2. UNCHANGED <<rx_offset, rx_pc, length, CAPR, cbr, queue, taken, buffer>>
    BY DEF RxBegin, driver
<1>3. PICK off : Layout(off)
    BY DEF RxInv
<1> DEFINE n == Len(queue)
           used == off[n]
<1>4. n \in Nat /\ used \in Nat /\ used % 4 = 0 /\ used < Ring /\ cbr = At(rx_offset, used)
    BY <1>3 DEF RxInv, Scalars, Layout
<1>5. rx_offset \in 0 .. Ring - 1 /\ rx_offset % 4 = 0
    BY DEF RxInv, Scalars
<1>6. used + Size(f.len) < Ring
    BY <1>1, <1>4, RoomFacts DEF RxInv
<1>7. cbr \in 0 .. Ring - 1 /\ cbr % 4 = 0
    BY <1>4, <1>5, AtFacts
<1>8. Stored(cbr, f)'
    <2>0. f.len \in Nat
        BY Constants
    <2>1. cbr \div 4 \in Nat /\ Words(f.len) \in Nat
        <3>1. cbr \div 4 \in Nat
            BY <1>7, RingNat
        <3> QED BY <2>0, <3>1, SizeFacts
    <2>2. rx_buffer'[cbr \div 4] = Header(f)
        BY <1>1, <1>7, InSlots
    <2>3. ASSUME NEW k \in 0 .. Words(f.len) - 1
          PROVE  rx_buffer'[cbr \div 4 + 1 + k] = Word(f, k)
        <3> DEFINE s == cbr \div 4 + 1 + k
        <3>1. s \in Slots
            BY <1>7, InSlots
        <3>2. s # cbr \div 4 /\ s - cbr \div 4 \in 1 .. Words(f.len) /\ s - cbr \div 4 - 1 = k
            BY <2>1
        <3> QED BY <1>1, <3>1, <3>2
    <2> QED BY <1>2, <2>2, <2>3 DEF Stored
<1>9. ASSUME NEW i \in 0 .. n - 1
      PROVE  Stored(At(rx_offset, off[i]), queue[i + 1])'
    <2> DEFINE o == At(rx_offset, off[i])
               g == queue[i + 1]
    <2>1. g \in Frames
        BY DEF RxInv, Scalars
    <2>2. g.len \in Nat /\ f.len \in Nat /\ Words(g.len) \in Nat /\ Words(f.len) \in Nat
        BY <2>1, Constants, SizeFacts
    <2>3. /\ off[i] \in Nat /\ off[i] % 4 = 0
          /\ off[i] + Size(g.len) <= used
        <3>1. i \in 0 .. n /\ i + 1 \in 0 .. n
            BY <1>4
        <3>2. off[i] \in Nat /\ off[i] % 4 = 0 /\ off[i + 1] <= used
            BY <1>3, <3>1 DEF Layout
        <3>3. off[i + 1] = off[i] + Size(g.len)
            BY <1>3 DEF Layout
        <3> QED BY <3>2, <3>3
    <2>4. off[i] + 4 * (1 + Words(g.len)) <= used /\ used + 4 * (1 + Words(f.len)) < Ring
        BY <1>6, <2>2, <2>3, SizeFacts
    <2>5. off[i] < Ring
        <3> HIDE DEF used, g
        <3>1. Size(g.len) \in Nat
            BY <2>2, SizeFacts
        <3> QED BY <1>4, <2>3, <3>1, RingNat
    <2>6. o \in 0 .. Ring - 1 /\ o % 4 = 0
        BY <1>5, <2>3, <2>5, AtFacts
    <2>7. \A x \in 0 .. Words(g.len), y \in 0 .. Words(f.len) :
            o \div 4 + x # cbr \div 4 + y
        <3> TAKE x \in 0 .. Words(g.len), y \in 0 .. Words(f.len)
        <3> DEFINE s == 1 + Words(g.len)
                   z == 1 + Words(f.len)
        <3>1. s \in Nat /\ z \in Nat /\ x \in 0 .. s - 1 /\ y \in 0 .. z - 1
            BY <2>2
        <3>2. off[i] + 4 * s <= used /\ used + 4 * z < Ring
            BY <2>4
        <3> HIDE DEF s, z
        <3>3. At(rx_offset, off[i]) \div 4 + x # At(rx_offset, used) \div 4 + y
            <4> HIDE DEF used, o, g
            <4> QED BY <1>4, <1>5, <2>3, <3>1, <3>2, Apart
        <3> QED BY <1>4, <3>3
    <2>8. ASSUME NEW x \in 0 .. Words(g.len), o \div 4 + x \in Slots
          PROVE  rx_buffer'[o \div 4 + x] = rx_buffer[o \div 4 + x]
        <3> DEFINE s == o \div 4 + x
        <3>1. o \div 4 \in Nat /\ cbr \div 4 \in Nat
            BY <1>7, <2>6
        <3>2. s # cbr \div 4
            BY <2>2, <2>7, <3>1
        <3>3. s - cbr \div 4 \notin 1 .. Words(f.len)
            BY <2>2, <2>7, <3>1
        <3> QED BY <1>1, <2>8, <3>2, <3>3
    <2>9. Stored(o, g)
        BY <1>3 DEF Layout
    <2>10. rx_buffer'[o \div 4] = Header(g)
        <3>1. o \div 4 + 0 \in Slots /\ o \div 4 + 0 = o \div 4 /\ 0 \in 0 .. Words(g.len)
            <4>1. o \div 4 \in Slots
                BY <2>1, <2>6, InSlots
            <4>2. o \div 4 \in Nat
                BY <2>6, RingNat
            <4> DEFINE d == o \div 4
                       m == Words(g.len)
            <4>3. d \in Nat /\ m \in Nat /\ d \in Slots
                BY <2>2, <4>1, <4>2
            <4> HIDE DEF d, m
            <4>4. d + 0 = d /\ 0 \in 0 .. m
                BY <4>3
            <4> QED BY <4>3, <4>4 DEF d, m
        <3> QED BY <2>8, <2>9, <3>1 DEF Stored
    <2>11. ASSUME NEW k \in 0 .. Words(g.len) - 1
           PROVE  rx_buffer'[o \div 4 + 1 + k] = Word(g, k)
        <3>1. /\ o \div 4 + (1 + k) \in Slots /\ o \div 4 + (1 + k) = o \div 4 + 1 + k
              /\ 1 + k \in 0 .. Words(g.len)
            <4>1. o \div 4 \in Nat
                BY <2>6, RingNat
            <4>2. o \div 4 + 1 + k \in Slots
                BY <2>1, <2>6, InSlots
            <4> DEFINE d == o \div 4
                       m == Words(g.len)
            <4>3. d \in Nat /\ m \in Nat /\ k \in 0 .. m - 1 /\ d + 1 + k \in Slots
                BY <2>2, <4>1, <4>2
            <4> HIDE DEF d, m
            <4>4. d + (1 + k) = d + 1 + k /\ 1 + k \in 0 .. m
                BY <4>3
            <4> QED BY <4>3, <4>4 DEF d, m
        <3> QED BY <2>8, <2>9, <3>1 DEF Stored
    <2> HIDE DEF o, g
    <2>12. o' = o /\ g' = g
        BY <1>2 DEF o, g
    <2>13. Stored(o, g)'
        BY <2>10, <2>11, <2>12 DEF Stored
    <2> QED BY <2>13 DEF o, g
<1>10. Base' = Base
    BY <1>2 DEF Base
<1>11. Layout(off)'
    BY <1>1, <1>2, <1>3, <1>6, <1>8, <1>9, <1>10 DEF Layout
<1>12. Scalars'
    BY <1>1, <1>2 DEF RxInv, Scalars, ReadPtr
<1>13. Progress'
    BY <1>2 DEF RxInv, Progress
<1> QED BY <1>11, <1>12, <1>13 DEF RxInv

\* Rounding up from a double word is going on by the size of the frame.
LEMMA Rounding ==
    ASSUME NEW o \in Nat, o % 4 = 0, NEW m \in Nat
    PROVE  Align4(o + m + 4) = o + Size(m)
BY DEF Align4, Size

\* The card's way around the ring is the driver's.
LEMMA Around ==
    ASSUME NEW o \in 0 .. Ring - 1, NEW d \in Nat, d < Ring
    PROVE  (o + d) % Ring = At(o, d)
<1>1. CASE o + d < Ring
    <2>1. o + d = Ring * 0 + (o + d) /\ o + d \in 0 .. Ring - 1
        BY <1>1, RingNat
    <2> QED BY <1>1, <2>1, Remainder DEF At
<1>2. CASE ~(o + d < Ring)
    <2>1. o + d = Ring * 1 + (o + d - Ring) /\ o + d - Ring \in 0 .. Ring - 1
        BY <1>2, RingNat
    <2> QED BY <1>2, <2>1, Remainder DEF At
<1> QED BY <1>1, <1>2

\* A frame the card is done with becomes the last of the queue.
LEMMA PublishInv == RxInv /\ RxPublish => RxInv'
<1> SUFFICES ASSUME RxInv, RxPublish PROVE RxInv'
    OBVIOUS
<1>1. PICK f \in Frames : storing = <<f>>
    BY DEF RxInv, Scalars, RxPublish
<1>2. /\ storing' = << >> /\ queue' = Append(queue, f)
      /\ cbr' = Align4(cbr + f.len + 4) % Ring
    BY <1>1 DEF RxPublish, RxInv, Scalars
<1>3. UNCHANGED <<rx_offset, rx_buffer, rx_pc, length, CAPR, taken, buffer>>
    BY DEF RxPublish, driver
<1>4. PICK off : Layout(off)
    BY DEF RxInv
<1>5. PICK n \in Nat : n = Len(queue)
    BY DEF RxInv, Scalars
<1>6. PICK used : used = off[n]
    OBVIOUS
<1>7. PICK sz : sz = Size(f.len)
    OBVIOUS
<1>8. sz \in Nat /\ sz % 4 = 0 /\ f.len \in Nat
    BY <1>7, SizeFacts, Constants
<1>9. /\ used \in Nat /\ used % 4 = 0 /\ used < Ring /\ cbr = At(rx_offset, used)
      /\ used + sz < Ring /\ Stored(cbr, f)
    BY <1>1, <1>4, <1>5, <1>6, <1>7 DEF Layout
<1>10. rx_offset \in 0 .. Ring - 1 /\ rx_offset % 4 = 0
    BY DEF RxInv, Scalars
<1>11. cbr \in 0 .. Ring - 1 /\ cbr % 4 = 0 /\ cbr \in Nat
    <2>1. cbr \in 0 .. Ring - 1 /\ cbr % 4 = 0
        BY <1>9, <1>10, AtFacts
    <2> QED BY <2>1, RingNat
<1>12. cbr' = At(rx_offset, used + sz)
    <2>1. cbr' = (cbr + sz) % Ring
        BY <1>2, <1>7, <1>8, <1>11, Rounding
    <2>2. sz < Ring
        BY <1>8, <1>9, RingNat
    <2>3. cbr' = At(cbr, sz)
        BY <1>8, <1>11, <2>1, <2>2, Around
    <2> QED BY <1>8, <1>9, <1>10, <2>3, AtSum
<1>13. PICK new : new = [i \in 0 .. n + 1 |-> IF i = n + 1 THEN used + sz ELSE off[i]]
    OBVIOUS
<1>14. queue' \in Seq(Frames) /\ Len(queue') = n + 1 /\ queue'[n + 1] = f
    BY <1>2, <1>5 DEF RxInv, Scalars
<1>15. \A i \in 0 .. n - 1 : queue'[i + 1] = queue[i + 1]
    BY <1>2, <1>5 DEF RxInv, Scalars
<1>16. Base' = Base
    BY <1>3 DEF Base
<1>17. \A i \in 0 .. n : new[i] = off[i] /\ off[i] \in Nat
    BY <1>4, <1>5, <1>13 DEF Layout
<1>18. new[n + 1] = used + sz /\ new \in [0 .. n + 1 -> Nat]
    <2>1. \A i \in 0 .. n + 1 : i # n + 1 => i \in 0 .. n
        OBVIOUS
    <2>2. new[n + 1] = used + sz /\ used + sz \in Nat
        BY <1>8, <1>9, <1>13
    <2>3. \A i \in 0 .. n + 1 : new[i] \in Nat
        BY <1>17, <2>1, <2>2
    <2> QED BY <1>13, <2>2, <2>3
<1>19. \A i \in 0 .. n : new[i + 1] = new[i] + Size(queue'[i + 1].len)
    <2> TAKE i \in 0 .. n
    <2>1. CASE i = n
        BY <1>6, <1>7, <1>14, <1>17, <1>18, <2>1
    <2>2. CASE i # n
        <3>1. i \in 0 .. n - 1 /\ i + 1 \in 0 .. n
            BY <2>2
        <3> QED BY <1>4, <1>5, <1>15, <1>17, <3>1 DEF Layout
    <2> QED BY <2>1, <2>2
<1>20. \A i \in 0 .. n + 1 : new[i] % 4 = 0 /\ new[i] <= new[n + 1]
    <2> TAKE i \in 0 .. n + 1
    <2>1. CASE i = n + 1
        <3>1. used + sz \in Nat /\ (used + sz) % 4 = 0
            BY <1>8, <1>9
        <3>2. new[i] = used + sz /\ new[n + 1] = used + sz
            BY <1>18, <2>1
        <3> QED BY <3>1, <3>2
    <2>2. CASE i # n + 1
        <3>1. i \in 0 .. n
            BY <2>2
        <3>2. off[i] % 4 = 0 /\ off[i] <= used
            BY <1>4, <1>5, <1>6, <3>1 DEF Layout
        <3> QED BY <1>8, <1>9, <1>17, <1>18, <3>1, <3>2
    <2> QED BY <2>1, <2>2
<1>19a. \A i \in 0 .. n + 1, j \in 0 .. n + 1 : i <= j => new[i] <= new[j]
    <2> SUFFICES ASSUME NEW i \in 0 .. n + 1, NEW j \in 0 .. n + 1, i <= j
                 PROVE  new[i] <= new[j]
        OBVIOUS
    <2>1. CASE j = n + 1
        BY <1>20, <2>1
    <2>2. CASE j # n + 1
        <3>1. i \in 0 .. n /\ j \in 0 .. n
            BY <2>2
        <3> QED BY <1>4, <1>5, <1>17, <3>1 DEF Layout
    <2> QED BY <2>1, <2>2
<1>21. ASSUME NEW i \in 0 .. n
       PROVE  Stored(At(rx_offset, new[i]), queue'[i + 1])
    <2>1. CASE i = n
        BY <1>6, <1>9, <1>14, <1>17, <2>1
    <2>2. CASE i # n
        <3>1. i \in 0 .. n - 1
            BY <2>2
        <3> QED BY <1>4, <1>5, <1>15, <1>17, <3>1 DEF Layout
    <2> QED BY <2>1, <2>2
<1>22. \A i \in 0 .. n : Stored(At(rx_offset, new[i]), queue[i + 1])'
    BY <1>3, <1>21 DEF Stored
<1>23. Layout(new)'
    <2>1. new[0] = Base'
        BY <1>4, <1>5, <1>16, <1>17 DEF Layout
    <2>2. Len(queue') - 1 = n
        BY <1>14
    <2> QED BY <1>2, <1>3, <1>9, <1>12, <1>14, <1>18, <1>19, <1>20, <1>19a, <1>22, <2>1, <2>2
        DEF Layout
<1>24. Scalars'
    BY <1>2, <1>3, <1>14 DEF RxInv, Scalars, ReadPtr
<1>25. Progress'
    <2>1. queue' # << >>
        BY <1>14
    <2> QED BY <1>3, <2>1 DEF RxInv, Progress
<1> QED BY <1>23, <1>24, <1>25 DEF RxInv

\* The driver reads the header of the oldest frame, copies that frame and no
\* other, and believes no length but its.
LEMMA CopyInv == RxInv /\ Copy => RxInv'
<1> SUFFICES ASSUME RxInv, Copy PROVE RxInv'
    OBVIOUS
<1>1. rx_pc = "copy" /\ queue \in Seq(Frames) /\ queue # << >>
    BY DEF RxInv, Scalars, Progress, Copy
<1>2. PICK off : Layout(off)
    BY DEF RxInv
<1>3. PICK n \in Nat : n = Len(queue) /\ n >= 1
    BY <1>1
<1>4. PICK f \in Frames : f = queue[1] /\ f = Head(queue)
    BY <1>1
<1>5. f.len \in Nat /\ f.len >= 5 /\ f.len <= MaxLength /\ f.ok \in BOOLEAN /\ MaxLength \in Nat
    BY Constants
<1>6. rx_offset \in 0 .. Ring - 1 /\ rx_offset % 4 = 0
    BY DEF RxInv, Scalars
<1>7. Stored(rx_offset, f)
    <2>1. off[0] = 0 /\ 0 \in 0 .. n - 1
        BY <1>1, <1>2, <1>3 DEF Layout, Base
    <2>2. At(rx_offset, 0) = rx_offset
        BY <1>6, RingNat DEF At
    <2> QED BY <1>2, <1>3, <1>4, <2>1, <2>2 DEF Layout
<1>8. HeadersAt(rx_offset \div 4) = {[ok |-> f.ok, len |-> f.len]}
    BY <1>7 DEF HeadersAt, Stored, Header
<1>9. /\ length' = f.len /\ rx_pc' \in {"advance", "skip"}
      /\ rx_pc' = "advance" => f.ok
      /\ rx_pc' = "advance" => buffer' = [k \in 0 .. Words(f.len - 4) - 1 |->
                                  rx_buffer[rx_offset \div 4 + 1 + k]]
    BY <1>5, <1>8 DEF Copy
<1>10. taken' = <<f>> /\ queue' = Tail(queue)
    BY <1>1, <1>4 DEF Copy
<1>11. UNCHANGED <<rx_offset, rx_buffer, CAPR, cbr, storing>>
    BY DEF Copy, card
<1>12. rx_pc' = "advance" => buffer' = Payload(f)
    <2>1. \A k \in 0 .. Words(f.len - 4) - 1 : k \in 0 .. Words(f.len) - 1
        BY <1>5 DEF Words
    <2>2. \A k \in 0 .. Words(f.len - 4) - 1 : rx_buffer[rx_offset \div 4 + 1 + k] = Word(f, k)
        BY <1>7, <2>1 DEF Stored
    <2> QED BY <1>9, <2>2 DEF Payload
<1>13. /\ queue' \in Seq(Frames) /\ Len(queue') = n - 1
       /\ \A i \in 0 .. n - 2 : queue'[i + 1] = queue[i + 2]
    BY <1>1, <1>3, <1>10
<1>14. PICK new : new = [i \in 0 .. n - 1 |-> off[i + 1]]
    OBVIOUS
<1>15. /\ new \in [0 .. n - 1 -> Nat]
       /\ \A i \in 0 .. n - 1 : new[i] = off[i + 1]
    BY <1>2, <1>3, <1>14 DEF Layout
<1>16. new[0] = Base'
    <2>1. off[0] = 0 /\ off[0 + 1] = off[0] + Size(queue[0 + 1].len)
        BY <1>1, <1>2, <1>3 DEF Layout, Base
    <2>2. Base' = Size(f.len)
        BY <1>9 DEF Base
    <2>3. 0 + 1 = 1 /\ 0 \in 0 .. n - 1
        BY <1>3
    <2>4. off[1] = 0 + Size(f.len)
        BY <1>4, <2>1, <2>3
    <2>5. new[0] = off[1]
        BY <1>15, <2>3
    <2>6. Size(f.len) \in Nat
        BY <1>5, SizeFacts
    <2> QED BY <2>2, <2>4, <2>5, <2>6
<1>17. \A i \in 0 .. n - 2 : new[i + 1] = new[i] + Size(queue'[i + 1].len)
    <2> TAKE i \in 0 .. n - 2
    <2>1. i + 1 \in 0 .. n - 1 /\ i \in 0 .. n - 1
        BY <1>3
    <2>2. off[i + 1 + 1] = off[i + 1] + Size(queue[i + 1 + 1].len)
        BY <1>2, <1>3, <2>1 DEF Layout
    <2>3. i + 1 + 1 = i + 2
        OBVIOUS
    <2>4. queue'[i + 1] = queue[i + 1 + 1]
        BY <1>13, <2>3
    <2>5. new[i] = off[i + 1] /\ new[i + 1] = off[i + 1 + 1]
        BY <1>15, <2>1
    <2> QED BY <2>2, <2>4, <2>5
<1>18. /\ \A i \in 0 .. n - 1 : new[i] % 4 = 0 /\ new[i] <= new[n - 1]
       /\ \A i \in 0 .. n - 1, j \in 0 .. n - 1 : i <= j => new[i] <= new[j]
       /\ new[n - 1] = off[n]
    BY <1>2, <1>3, <1>15 DEF Layout
<1>19. \A i \in 0 .. n - 2 : Stored(At(rx_offset, new[i]), queue'[i + 1])
    <2> TAKE i \in 0 .. n - 2
    <2>1. i + 1 \in 0 .. n - 1 /\ i \in 0 .. n - 1
        BY <1>3
    <2>2. Stored(At(rx_offset, off[i + 1]), queue[i + 1 + 1])
        BY <1>2, <1>3, <2>1 DEF Layout
    <2>3. i + 1 + 1 = i + 2
        OBVIOUS
    <2>4. queue'[i + 1] = queue[i + 1 + 1]
        BY <1>13, <2>3
    <2>5. new[i] = off[i + 1] /\ new[i + 1] = off[i + 1 + 1]
        BY <1>15, <2>1
    <2> QED BY <2>2, <2>4, <2>5
<1>20. \A i \in 0 .. n - 2 : Stored(At(rx_offset, new[i]), queue[i + 1])'
    BY <1>11, <1>19 DEF Stored
<1>21. storing' # << >> => Stored(cbr, storing[1])'
    BY <1>2, <1>11 DEF Layout, Stored
<1>22. Layout(new)'
    <2>1. Len(queue') = n - 1 /\ Len(queue') - 1 = n - 2
        BY <1>3, <1>13
    <2>2. /\ off[n] < Ring /\ cbr = At(rx_offset, off[n])
          /\ storing # << >> => off[n] + Size(storing[1].len) < Ring
        BY <1>2, <1>3 DEF Layout
    <2> QED BY <1>11, <1>15, <1>16, <1>17, <1>18, <1>20, <1>21, <2>1, <2>2 DEF Layout
<1>23. Scalars'
    BY <1>5, <1>9, <1>11, <1>13 DEF RxInv, Scalars, ReadPtr
<1>24. Progress'
    BY <1>9, <1>10, <1>12 DEF Progress
<1> QED BY <1>22, <1>23, <1>24 DEF RxInv

\* The driver passes over the frame it has copied and tells the card so.
LEMMA AdvanceInv ==
    ASSUME RxInv, rx_pc \in {"advance", "skip"},
           NEW next \in {"input", "idle"}, next = "input" => rx_pc = "advance",
           AdvanceTo(next)
    PROVE  RxInv'
<1>1. PICK off : Layout(off)
    BY DEF RxInv
<1>2. PICK n \in Nat : n = Len(queue)
    BY DEF RxInv, Scalars
<1>3. PICK b : b = Size(length)
    OBVIOUS
<1>4. length \in Nat /\ rx_offset \in 0 .. Ring - 1 /\ rx_offset % 4 = 0
    BY DEF RxInv, Scalars
<1>5. b \in Nat /\ b % 4 = 0
    BY <1>3, <1>4, SizeFacts
<1>6. \A i \in 0 .. n : off[i] \in Nat /\ off[i] % 4 = 0 /\ b <= off[i]
    <2>1. off[0] = b /\ 0 \in 0 .. n
        BY <1>1, <1>3 DEF Layout, Base
    <2> QED BY <1>1, <1>2, <2>1 DEF Layout
<1>7. \A i \in 0 .. n : off[i] <= off[n] /\ off[i] < Ring /\ n \in 0 .. n
    <2>1. off[n] < Ring /\ n \in 0 .. n
        BY <1>1, <1>2 DEF Layout
    <2>2. \A i \in 0 .. n : off[i] <= off[n]
        BY <1>1, <1>2 DEF Layout
    <2> QED BY <1>6, <2>1, <2>2, RingNat
<1>8. b < Ring
    BY <1>5, <1>6, <1>7, RingNat
<1>9. rx_offset' = At(rx_offset, b)
    <2>1. rx_offset \in Nat
        BY <1>4, RingNat
    <2>2. Align4(rx_offset + length + 4) = rx_offset + b
        BY <1>3, <1>4, <2>1, Rounding
    <2> QED BY <1>5, <2>1, <2>2, RingNat DEF AdvanceTo, NextOffset, At
<1>10. rx_offset' \in 0 .. Ring - 1 /\ rx_offset' % 4 = 0
    BY <1>4, <1>5, <1>8, <1>9, AtFacts
<1>11. ReadPtr' = rx_offset'
    <2>1. CAPR' = (rx_offset' - Lead) % CaprWrap
        BY DEF AdvanceTo
    <2> QED BY <1>10, <2>1, CaprLead DEF ReadPtr
<1>12. UNCHANGED <<rx_buffer, buffer, length, cbr, storing, queue, taken>> /\ rx_pc' = next
    BY DEF AdvanceTo, card
<1>13. PICK new : new = [i \in 0 .. n |-> off[i] - b]
    OBVIOUS
<1>14. \A i \in 0 .. n : new[i] = off[i] - b /\ new[i] \in Nat /\ new[i] % 4 = 0
    <2> TAKE i \in 0 .. n
    <2>1. new[i] = off[i] - b
        BY <1>13
    <2> QED BY <1>5, <1>6, <2>1
<1>15. new \in [0 .. n -> Nat]
    BY <1>13, <1>14
<1>16. \A i \in 0 .. n : At(rx_offset', new[i]) = At(rx_offset, off[i])
    <2> TAKE i \in 0 .. n
    <2>1. PICK d \in Nat : d = new[i]
        BY <1>14
    <2>2. b + d = off[i]
        BY <1>5, <1>6, <1>14, <2>1
    <2>3. b + d < Ring
        BY <1>7, <2>2
    <2>4. At(At(rx_offset, b), d) = At(rx_offset, b + d)
        BY <1>4, <1>5, <2>3, AtSum
    <2> QED BY <1>9, <2>1, <2>2, <2>4
<1>17. new[0] = Base'
    <2>1. off[0] = b /\ 0 \in 0 .. n
        BY <1>1, <1>3 DEF Layout, Base
    <2>2. Base' = 0
        BY <1>12 DEF Base
    <2> QED BY <1>5, <1>14, <2>1, <2>2
<1>18. \A i \in 0 .. n - 1 : new[i + 1] = new[i] + Size(queue[i + 1].len)
    <2> TAKE i \in 0 .. n - 1
    <2>1. i \in 0 .. n /\ i + 1 \in 0 .. n
        OBVIOUS
    <2>2. off[i + 1] = off[i] + Size(queue[i + 1].len)
        BY <1>1, <1>2 DEF Layout
    <2>3. queue[i + 1] \in Frames
        BY <1>2 DEF RxInv, Scalars
    <2>4. Size(queue[i + 1].len) \in Nat
        BY <2>3, Constants, SizeFacts
    <2> QED BY <1>5, <1>6, <1>14, <2>1, <2>2, <2>4
<1>19. /\ \A i \in 0 .. n : new[i] <= new[n]
       /\ \A i \in 0 .. n, j \in 0 .. n : i <= j => new[i] <= new[j]
    <2>1. \A i \in 0 .. n, j \in 0 .. n : i <= j => off[i] <= off[j]
        BY <1>1, <1>2 DEF Layout
    <2>2. \A i \in 0 .. n, j \in 0 .. n : i <= j => new[i] <= new[j]
        BY <1>5, <1>6, <1>14, <2>1
    <2> QED BY <2>2
<1>20. new[n] < Ring
    BY <1>5, <1>6, <1>7, <1>14, RingNat
<1>21. cbr' = At(rx_offset', new[n])
    BY <1>1, <1>2, <1>7, <1>12, <1>16 DEF Layout
<1>22. \A i \in 0 .. n - 1 : Stored(At(rx_offset, new[i]), queue[i + 1])'
    <2>1. \A i \in 0 .. n - 1 : Stored(At(rx_offset, off[i]), queue[i + 1])
        BY <1>1, <1>2 DEF Layout
    <2>2. \A i \in 0 .. n - 1 : At(rx_offset', new[i]) = At(rx_offset, off[i])
        BY <1>16
    <2> QED BY <1>12, <2>1, <2>2 DEF Stored
<1>23. storing' # << >> => /\ new[n] + Size(storing'[1].len) < Ring
                           /\ Stored(cbr, storing[1])'
    <2> SUFFICES ASSUME storing # << >>
                 PROVE  new[n] + Size(storing[1].len) < Ring /\ Stored(cbr, storing[1])'
        BY <1>12
    <2>1. off[n] + Size(storing[1].len) < Ring /\ Stored(cbr, storing[1])
        BY <1>1, <1>2 DEF Layout
    <2>2. storing[1] \in Frames
        BY DEF RxInv, Scalars
    <2>3. Size(storing[1].len) \in Nat
        BY <2>2, Constants, SizeFacts
    <2>4. new[n] + Size(storing[1].len) < Ring
        BY <1>5, <1>6, <1>7, <1>14, <2>1, <2>3, RingNat
    <2> QED BY <1>12, <2>1, <2>4 DEF Stored
<1>24. Layout(new)'
    BY <1>2, <1>12, <1>14, <1>15, <1>17, <1>18, <1>19, <1>20, <1>21, <1>22, <1>23 DEF Layout
<1>25. Scalars'
    BY <1>4, <1>10, <1>11, <1>12 DEF RxInv, Scalars
<1>26. Progress'
    BY <1>12 DEF RxInv, Progress
<1> QED BY <1>24, <1>25, <1>26 DEF RxInv

\* Every step keeps driver and card in step.
LEMMA StepInv == RxInv /\ [RxNext]_rxVars => RxInv'
<1> SUFFICES ASSUME RxInv, [RxNext]_rxVars PROVE RxInv'
    OBVIOUS
<1>1. CASE init_rtl8139
    <2>1. Progress'
        BY <1>1 DEF init_rtl8139, Progress
    <2> QED BY <1>1, <2>1, PollInv DEF init_rtl8139
<1>2. CASE RxBegin
    BY <1>2, BeginInv
<1>3. CASE RxPublish
    BY <1>3, PublishInv
<1>4. CASE netif_driver_poll
    <2>1. Progress'
        BY <1>4 DEF netif_driver_poll, Progress
    <2> QED BY <1>4, <2>1, PollInv DEF netif_driver_poll, card
<1>5. CASE Check
    <2>1. queue = << >> => BufferEmpty
        <3> SUFFICES ASSUME queue = << >> PROVE BufferEmpty
            OBVIOUS
        <3>1. PICK off : Layout(off)
            BY DEF RxInv
        <3>2. off[0] = 0 /\ cbr = At(rx_offset, off[0])
            BY <1>5, <3>1 DEF Check, Layout, Base
        <3>3. rx_offset \in 0 .. Ring - 1 /\ ReadPtr = rx_offset
            BY DEF RxInv, Scalars
        <3> QED BY <3>2, <3>3, RingNat DEF At, BufferEmpty
    <2>2. Progress'
        BY <1>5, <2>1 DEF Check, Progress
    <2> QED BY <1>5, <2>2, PollInv DEF Check, card
<1>6. CASE Copy
    BY <1>6, CopyInv
<1>7. CASE Advance
    BY <1>7, AdvanceInv DEF Advance
<1>8. CASE Skip
    BY <1>8, AdvanceInv DEF Skip
<1>9. CASE Input
    <2>1. Progress'
        BY <1>9 DEF Input, Progress
    <2> QED BY <1>9, <2>1, PollInv DEF Input, card
<1>10. CASE UNCHANGED rxVars
    <2>1. Base' = Base
        BY <1>10 DEF rxVars, Base
    <2>2. Scalars' /\ Progress'
        BY <1>10 DEF rxVars, RxInv, Scalars, Progress, ReadPtr
    <2> QED BY <1>10, <2>1, <2>2, SameLayout DEF rxVars, RxInv
<1> QED BY <1>1, <1>2, <1>3, <1>4, <1>5, <1>6, <1>7, <1>8, <1>9, <1>10 DEF RxNext, Driver

\* Whatever netif_driver_poll passes to lwIP is, word for word, the oldest
\* frame the card had stored, and a good one.
THEOREM InputIsOldestAlways == RxSpec => []InputIsOldest
<1>1. RxInv => InputIsOldest
    BY DEF RxInv, Progress, InputIsOldest
<1> QED BY InitInv, StepInv, <1>1, PTL DEF RxSpec

\* Until the driver of nic_poll_received_packet has read it, a stored frame
\* stays in rx_buffer as the card stored it, at the driver's read offset, and
\* both stay inside the buffer.
THEOREM NothingOverwrittenAlways == RxSpec => []NothingOverwritten
<1>1. RxInv => NothingOverwritten
    <2> SUFFICES ASSUME RxInv, rx_pc \in {"check", "copy"}, queue # << >>
                 PROVE  /\ Stored(rx_offset, Head(queue))
                        /\ rx_offset + 4 + Head(queue).len <= Ring + Margin
        BY DEF NothingOverwritten, Stored
    <2>1. PICK off : Layout(off)
        BY DEF RxInv
    <2>2. queue \in Seq(Frames) /\ rx_offset \in 0 .. Ring - 1 /\ rx_offset % 4 = 0
        BY DEF RxInv, Scalars
    <2>3. Head(queue) = queue[0 + 1] /\ Head(queue) \in Frames /\ 0 \in 0 .. Len(queue) - 1
        BY <2>2
    <2>4. off[0] = 0
        BY <2>1 DEF Layout, Base
    <2>5. At(rx_offset, 0) = rx_offset
        BY <2>2, RingNat DEF At
    <2>6. Stored(rx_offset, Head(queue))
        BY <2>1, <2>3, <2>4, <2>5 DEF Layout
    <2> QED BY <2>2, <2>3, <2>6, InSlots
<1> QED BY InitInv, StepInv, <1>1, PTL DEF RxSpec
=============================================================================
