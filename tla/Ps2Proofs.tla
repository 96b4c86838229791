------------------------------ MODULE Ps2Proofs ------------------------------
(***************************************************************************)
(* Proofs about the two input devices behind one controller, for every     *)
(* set of scancodes and packets and every length of their streams, as long *)
(* as no input comes before the system runs.                               *)
(***************************************************************************)
EXTENDS Ps2, SequenceTheorems, TLAPS

\* Byte n of the packets in s, counted from 0.
ByteOf(s, n) == s[(n \div 3) + 1][(n % 3) + 1]

\* What the mouse sends: three bytes, the first with bit 3 set.
PacketSeq == {p \in Seq(Byte) : Len(p) = 3 /\ 3 \in p[1]}

\* Bytes of the keyboard and of the mouse in the output buffer.
FromKbd == IF obf.full /\ obf.src = "kbd" THEN 1 ELSE 0
FromAux == IF obf.full /\ obf.src = "aux" THEN 1 ELSE 0

\* The controller, the handlers and the devices have their types.
Ps2TypeOK ==
    /\ boot \in {"A8", "20", "status", "60", "F6", "ack1", "F4", "ack2", "sti", "run"}
    /\ obf \in [src : {"kbd", "aux"}, val : Byte, full : BOOLEAN]
    /\ kbd \in Seq(Byte) /\ aux \in Seq(Byte) /\ typed \in Seq(Byte) /\ codes \in Seq(Byte)
    /\ sent \in Seq(PacketSeq) /\ parsed \in Seq(Seq(Byte))
    /\ mouse_cycle \in 0 .. 2 /\ mouse_packet \in [1 .. 3 -> Byte]
    /\ config \in Byte /\ status \in Byte
    /\ reply \in Seq(Byte) /\ latched \subseteq {1, 12}

\* Nothing has been sent yet.
Quiet ==
    /\ typed = <<>> /\ sent = <<>> /\ kbd = <<>> /\ parsed = <<>> /\ mouse_cycle = 0

\* init_mouse: what it waits for, and the interrupts it leaves behind.
Starting ==
    /\ boot \in {"A8", "20", "status", "60", "F6", "ack1", "F4", "ack2"} =>
          Quiet /\ codes = <<>> /\ KbdIrq \in config
    /\ boot \in {"A8", "20", "60", "F6", "F4", "sti"} => ~ obf.full /\ aux = <<>>
    /\ boot # "status" => reply = <<>>
    /\ boot = "status" => /\ aux = <<>>
                          /\ \/ ~ obf.full /\ reply = <<config>>
                             \/ obf.full /\ obf.val = config /\ reply = <<>> /\ 1 \in latched
    /\ boot = "60" => AuxIrq \in status /\ KbdIrq \in status
    /\ boot \in {"60", "F6", "ack1", "F4", "ack2"} => 1 \in latched
    /\ boot \in {"F6", "ack1", "F4", "ack2", "sti", "run"} => AuxIrq \in config /\ KbdIrq \in config
    /\ boot \in {"ack1", "ack2"} =>
          \/ ~ obf.full /\ aux = <<ACK>>
          \/ obf.full /\ obf.val = ACK /\ aux = <<>>
    /\ boot = "sti" => /\ Quiet /\ obf.val = ACK
                       /\ codes = IF 1 \in latched THEN <<>> ELSE <<ACK>>

\* While the system runs, a full buffer and its interrupt go together.
Latches ==
    boot = "run" =>
        /\ latched = IF ~ obf.full THEN {} ELSE IF obf.src = "kbd" THEN {1} ELSE {12}
        /\ Len(codes) >= 1 /\ codes[1] = ACK

\* The bytes of the keyboard: read, in the buffer, on their way.
KeyStream ==
    boot = "run" =>
        /\ Len(typed) = Len(codes) - 1 + FromKbd + Len(kbd)
        /\ \A i \in 1 .. Len(codes) - 1 : codes[i + 1] = typed[i]
        /\ FromKbd = 1 => obf.val = typed[Len(codes)]
        /\ \A j \in 1 .. Len(kbd) : kbd[j] = typed[Len(codes) - 1 + FromKbd + j]

\* The bytes of the mouse: in whole packets, in the packet that is put
\* together, in the buffer, on their way.
Assembled == 3 * Len(parsed) + mouse_cycle

MouseStream ==
    boot = "run" =>
        /\ 3 * Len(sent) = Assembled + FromAux + Len(aux)
        /\ \A i \in 1 .. Len(parsed) : parsed[i] = sent[i]
        /\ \A k \in 1 .. mouse_cycle : mouse_packet[k] = sent[Len(parsed) + 1][k]
        /\ FromAux = 1 => obf.val = ByteOf(sent, Assembled)
        /\ \A j \in 1 .. Len(aux) : aux[j] = ByteOf(sent, Assembled + FromAux + j - 1)

Ps2Inv == Ps2TypeOK /\ Starting /\ Latches /\ KeyStream /\ MouseStream

\* The constants as the proofs use them.
LEMMA Ps2Constants ==
    /\ ACK \in Byte /\ Config \in Byte /\ KbdIrq \in Config /\ {} \in Byte
    /\ Scancodes \subseteq Byte /\ Packets \subseteq PacketSeq
    /\ KbdIrq \in 0 .. 7 /\ AuxIrq \in 0 .. 7 /\ AuxOff # KbdIrq
BY Ps2Assumption DEF ACK, Byte, KbdIrq, AuxIrq, AuxOff, PacketSeq

\* The state before init_mouse.
LEMMA Ps2InitInv == Ps2Init => Ps2Inv
<1> SUFFICES ASSUME Ps2Init PROVE Ps2Inv
    OBVIOUS
<1> USE DEF Ps2Init
<1>1. Ps2TypeOK
    <2>1. mouse_packet \in [1 .. 3 -> Byte]
        <3>1. mouse_packet \in Seq(Byte) /\ Len(mouse_packet) = 3
            BY Ps2Constants
        <3> QED BY <3>1, LenProperties
    <2>2. obf \in [src : {"kbd", "aux"}, val : Byte, full : BOOLEAN]
        BY Ps2Constants
    <2> QED BY <2>1, <2>2, Ps2Constants DEF Ps2TypeOK
<1>2. Starting
    BY Ps2Constants DEF Starting, Quiet
<1> QED BY <1>1, <1>2 DEF Ps2Inv, Latches, KeyStream, MouseStream

\* The steps of init_mouse.
LEMMA BootInv ==
    ASSUME Ps2Inv, init_mouse
    PROVE  Ps2Inv'
<1> USE Ps2Constants
<1>1. CASE EnableAux
    <2>1. Ps2TypeOK'
        BY <1>1 DEF EnableAux, At, mouse, Ps2Inv, Ps2TypeOK, Byte
    <2>2. Starting'
        BY <1>1 DEF EnableAux, At, mouse, Ps2Inv, Starting, Quiet
    <2> QED BY <1>1, <2>1, <2>2 DEF EnableAux, At, Ps2Inv, Latches, KeyStream, MouseStream
<1>2. CASE AskConfig
    <2>1. Ps2TypeOK'
        BY <1>2 DEF AskConfig, At, mouse, Ps2Inv, Ps2TypeOK
    <2>2. Starting'
        BY <1>2 DEF AskConfig, At, mouse, Ps2Inv, Ps2TypeOK, Starting, Quiet
    <2> QED BY <1>2, <2>1, <2>2 DEF AskConfig, At, Ps2Inv, Latches, KeyStream, MouseStream
<1>3. CASE ReadConfig
    <2>1. Ps2TypeOK'
        BY <1>3 DEF ReadConfig, Polled, Taken, At, mouse, Ps2Inv, Ps2TypeOK, Byte
    <2>2. Starting'
        BY <1>3 DEF ReadConfig, Polled, Taken, At, mouse, Ps2Inv, Ps2TypeOK, Starting, Quiet
    <2> QED BY <1>3, <2>1, <2>2 DEF ReadConfig, At, Ps2Inv, Latches, KeyStream, MouseStream
<1>4. CASE WriteConfig
    <2>1. Ps2TypeOK'
        BY <1>4 DEF WriteConfig, At, mouse, Ps2Inv, Ps2TypeOK
    <2>2. Starting'
        BY <1>4 DEF WriteConfig, At, mouse, Ps2Inv, Ps2TypeOK, Starting, Quiet
    <2> QED BY <1>4, <2>1, <2>2 DEF WriteConfig, At, Ps2Inv, Latches, KeyStream, MouseStream
<1>5. ASSUME NEW here, NEW next, <<here, next>> \in {<<"F6", "ack1">>, <<"F4", "ack2">>},
             mouse_write(here, next)
      PROVE  Ps2Inv'
    <2>1. Ps2TypeOK'
        BY <1>5 DEF mouse_write, At, mouse, Ps2Inv, Ps2TypeOK
    <2>2. Starting'
        <3>1. /\ boot = here /\ boot' = next /\ ~ obf.full /\ aux = <<>> /\ aux' = <<ACK>>
              /\ UNCHANGED <<mouse, typed, codes, sent, status, config, obf, reply, kbd, latched>>
            <4>1. /\ boot = here /\ boot' = next /\ aux' = Append(aux, ACK)
                  /\ UNCHANGED <<mouse, typed, codes, sent, status, config, obf, reply, kbd, latched>>
                BY <1>5 DEF mouse_write, At
            <4>2. ~ obf.full /\ aux = <<>>
                BY <1>5, <4>1 DEF Ps2Inv, Starting
            <4> QED BY <4>1, <4>2
        <3>2. CASE here = "F6" /\ next = "ack1"
            BY <3>1, <3>2 DEF mouse, Ps2Inv, Starting, Quiet
        <3>3. CASE here = "F4" /\ next = "ack2"
            BY <3>1, <3>3 DEF mouse, Ps2Inv, Starting, Quiet
        <3> QED BY <1>5, <3>2, <3>3
    <2> QED BY <1>5, <2>1, <2>2 DEF mouse_write, At, Ps2Inv, Latches, KeyStream, MouseStream
<1>6. ASSUME NEW here, NEW next, <<here, next>> \in {<<"ack1", "F4">>, <<"ack2", "sti">>},
             mouse_read(here, next)
      PROVE  Ps2Inv'
    <2>1. Ps2TypeOK'
        BY <1>6 DEF mouse_read, Polled, Taken, At, mouse, Ps2Inv, Ps2TypeOK
    <2>2. Starting'
        BY <1>6 DEF mouse_read, Polled, Taken, At, mouse, Ps2Inv, Ps2TypeOK, Starting, Quiet
    <2> QED BY <1>6, <2>1, <2>2 DEF mouse_read, At, Ps2Inv, Latches, KeyStream, MouseStream
<1>7. CASE Started
    <2>1. Ps2TypeOK'
        BY <1>7 DEF Started, At, mouse, bus, Ps2Inv, Ps2TypeOK
    <2>2. Starting'
        BY <1>7 DEF Started, At, mouse, bus, Ps2Inv, Starting
    <2>3. /\ typed' = <<>> /\ kbd' = <<>> /\ codes' = <<ACK>> /\ sent' = <<>> /\ aux' = <<>>
          /\ parsed' = <<>> /\ mouse_cycle' = 0 /\ ~ obf'.full /\ latched' = {}
        BY <1>7 DEF Started, At, mouse, bus, Ps2Inv, Starting, Quiet
    <2>4. Latches' /\ KeyStream'
        BY <2>3 DEF Latches, KeyStream, FromKbd
    <2>5. MouseStream'
        BY <2>3 DEF MouseStream, FromAux, Assembled
    <2> QED BY <2>1, <2>2, <2>4, <2>5 DEF Ps2Inv
<1> QED BY <1>1, <1>2, <1>3, <1>4, <1>5, <1>6, <1>7 DEF init_mouse

\* A key: only once the system runs.
LEMMA KeyInv ==
    ASSUME EarlyInput = FALSE, Ps2Inv, NEW b \in Scancodes, KeyEvent(b)
    PROVE  Ps2Inv'
<1>1. boot = "run" /\ boot' = "run" /\ b \in Byte
    BY Ps2Constants DEF Touched, KeyEvent
<1>2. Ps2TypeOK'
    BY <1>1 DEF Ps2Inv, Ps2TypeOK, KeyEvent, mouse
<1>3. Starting' /\ Latches' /\ MouseStream'
    BY <1>1 DEF Ps2Inv, Starting, Latches, MouseStream, FromAux, Assembled, KeyEvent, mouse
<1>4. KeyStream'
    <2> DEFINE n == Len(codes) - 1 + FromKbd
    <2>1. /\ typed \in Seq(Byte) /\ kbd \in Seq(Byte) /\ codes \in Seq(Byte)
          /\ Len(codes) >= 1 /\ FromKbd' = FromKbd /\ FromKbd \in {0, 1}
          /\ UNCHANGED <<codes, obf>> /\ kbd' = Append(kbd, b) /\ typed' = Append(typed, b)
        BY <1>1 DEF Ps2Inv, Ps2TypeOK, Latches, FromKbd, KeyEvent
    <2>2. /\ Len(typed) = n + Len(kbd)
          /\ \A i \in 1 .. Len(codes) - 1 : codes[i + 1] = typed[i]
          /\ FromKbd = 1 => obf.val = typed[Len(codes)]
          /\ \A j \in 1 .. Len(kbd) : kbd[j] = typed[n + j]
        BY <1>1 DEF Ps2Inv, KeyStream
    <2>3. /\ Len(typed') = Len(typed) + 1 /\ typed'[Len(typed) + 1] = b
          /\ \A i \in 1 .. Len(typed) : typed'[i] = typed[i]
        BY <1>1, <2>1
    <2>4. /\ Len(kbd') = Len(kbd) + 1 /\ kbd'[Len(kbd) + 1] = b
          /\ \A i \in 1 .. Len(kbd) : kbd'[i] = kbd[i]
        BY <1>1, <2>1
    <2>5. Len(codes) \in Nat /\ Len(kbd) \in Nat /\ n \in Nat
        BY <2>1
    <2>6. ASSUME NEW j \in 1 .. Len(kbd') PROVE kbd'[j] = typed'[n + j]
        <3> HIDE DEF n
        <3>1. CASE j = Len(kbd) + 1
            <4>1. n + j = Len(typed) + 1
                BY <2>2, <2>5, <3>1
            <4> QED BY <2>3, <2>4, <3>1, <4>1
        <3>2. CASE j # Len(kbd) + 1
            <4>1. j \in 1 .. Len(kbd) /\ n + j \in 1 .. Len(typed)
                BY <2>2, <2>4, <2>5, <3>2
            <4> QED BY <2>2, <2>3, <2>4, <4>1
        <3> QED BY <3>1, <3>2
    <2>7. \A i \in 1 .. Len(codes) - 1 : codes[i + 1] = typed'[i]
        <3>1. ASSUME NEW i \in 1 .. Len(codes) - 1 PROVE i \in 1 .. Len(typed)
            BY <2>1, <2>2, <2>5
        <3> QED BY <2>2, <2>3, <3>1
    <2>8. FromKbd = 1 => obf.val = typed'[Len(codes)]
        <3>1. FromKbd = 1 => Len(codes) \in 1 .. Len(typed)
            BY <2>1, <2>2, <2>5
        <3> QED BY <2>2, <2>3, <3>1
    <2>9. Len(typed') = n + Len(kbd')
        BY <2>2, <2>3, <2>4, <2>5
    <2> QED BY <2>1, <2>6, <2>7, <2>8, <2>9 DEF KeyStream
<1> QED BY <1>2, <1>3, <1>4 DEF Ps2Inv

\* Where byte n of the stream is.
LEMMA Thirds ==
    ASSUME NEW m \in Nat, NEW c \in 0 .. 2
    PROVE  (3 * m + c) \div 3 = m /\ (3 * m + c) % 3 = c
OBVIOUS

\* The bytes of the packet in progress are among those sent.
LEMMA ThirdBelow ==
    ASSUME NEW m \in Nat, NEW n \in 0 .. 3 * m - 1
    PROVE  n \div 3 \in 0 .. m - 1 /\ n % 3 \in 0 .. 2
OBVIOUS

\* A packet more at the end leaves the bytes before it where they are.
LEMMA MoreBytes ==
    ASSUME NEW s \in Seq(PacketSeq), NEW p \in PacketSeq
    PROVE  /\ \A n \in 0 .. 3 * Len(s) - 1 : ByteOf(Append(s, p), n) = ByteOf(s, n)
           /\ \A c \in 0 .. 2 : ByteOf(Append(s, p), 3 * Len(s) + c) = p[c + 1]
<1>0. Len(s) \in Nat
    OBVIOUS
<1>1. ASSUME NEW n \in 0 .. 3 * Len(s) - 1 PROVE ByteOf(Append(s, p), n) = ByteOf(s, n)
    <2>1. (n \div 3) + 1 \in 1 .. Len(s)
        BY <1>0, ThirdBelow
    <2> QED BY <2>1 DEF ByteOf
<1>2. ASSUME NEW c \in 0 .. 2 PROVE ByteOf(Append(s, p), 3 * Len(s) + c) = p[c + 1]
    <2>1. (3 * Len(s) + c) \div 3 = Len(s) /\ (3 * Len(s) + c) % 3 = c
        BY <1>0, Thirds
    <2> QED BY <2>1 DEF ByteOf
<1> QED BY <1>1, <1>2

\* The mouse sends a packet: three bytes more at the end of the stream.
LEMMA MoveInv ==
    ASSUME EarlyInput = FALSE, Ps2Inv, NEW p \in Packets, MouseMoves(p)
    PROVE  Ps2Inv'
<1>1. boot = "run" /\ boot' = "run" /\ p \in PacketSeq /\ p \in Seq(Byte) /\ Len(p) = 3
    BY Ps2Constants DEF Touched, PacketSeq, MouseMoves
<1>2. Ps2TypeOK'
    BY <1>1 DEF Ps2Inv, Ps2TypeOK, MouseMoves, mouse
<1>3. Starting' /\ Latches' /\ KeyStream'
    BY <1>1 DEF Ps2Inv, Starting, Latches, KeyStream, FromKbd, MouseMoves, mouse
<1>4. MouseStream'
    <2> DEFINE n == Assembled + FromAux
    <2>1. /\ sent \in Seq(PacketSeq) /\ aux \in Seq(Byte) /\ parsed \in Seq(Seq(Byte))
          /\ FromAux' = FromAux /\ FromAux \in {0, 1} /\ Assembled' = Assembled
          /\ mouse_cycle \in 0 .. 2 /\ Assembled \in Nat
          /\ UNCHANGED <<obf, mouse_packet, parsed, mouse_cycle>>
          /\ aux' = aux \o p /\ sent' = Append(sent, p)
        BY <1>1 DEF Ps2Inv, Ps2TypeOK, FromAux, Assembled, MouseMoves, mouse
    <2>2. /\ 3 * Len(sent) = n + Len(aux)
          /\ \A i \in 1 .. Len(parsed) : parsed[i] = sent[i]
          /\ \A k \in 1 .. mouse_cycle : mouse_packet[k] = sent[Len(parsed) + 1][k]
          /\ FromAux = 1 => obf.val = ByteOf(sent, Assembled)
          /\ \A j \in 1 .. Len(aux) : aux[j] = ByteOf(sent, n + j - 1)
        BY <1>1 DEF Ps2Inv, MouseStream
    <2>3. /\ Len(sent') = Len(sent) + 1
          /\ \A i \in 1 .. Len(sent) : sent'[i] = sent[i]
        BY <1>1, <2>1
    <2>4. /\ Len(aux') = Len(aux) + 3
          /\ \A j \in 1 .. Len(aux) : aux'[j] = aux[j]
          /\ \A c \in 0 .. 2 : aux'[Len(aux) + c + 1] = p[c + 1]
        <3>1. Len(aux') = Len(aux) + 3 /\ Len(aux) \in Nat
            <4>1. Len(aux \o p) = Len(aux) + Len(p)
                BY <1>1, <2>1, ConcatProperties
            <4> QED BY <1>1, <2>1, <4>1
        <3>2. \A j \in 1 .. Len(aux) + 3 :
                  aux'[j] = IF j <= Len(aux) THEN aux[j] ELSE p[j - Len(aux)]
            BY <1>1, <2>1, <3>1, ConcatProperties
        <3>3. ASSUME NEW c \in 0 .. 2 PROVE aux'[Len(aux) + c + 1] = p[c + 1]
            <4>1. Len(aux) + c + 1 \in 1 .. Len(aux) + 3 /\ ~(Len(aux) + c + 1 <= Len(aux))
                BY <3>1
            <4>2. Len(aux) + c + 1 - Len(aux) = c + 1
                BY <3>1
            <4> QED BY <3>2, <4>1, <4>2
        <3> QED BY <3>1, <3>2, <3>3
    <2>5. /\ \A m \in 0 .. 3 * Len(sent) - 1 : ByteOf(sent', m) = ByteOf(sent, m)
          /\ \A c \in 0 .. 2 : ByteOf(sent', 3 * Len(sent) + c) = p[c + 1]
        BY <1>1, <2>1, MoreBytes
    <2>6. Len(sent) \in Nat /\ Len(aux) \in Nat /\ Len(parsed) \in Nat /\ n \in Nat
        BY <2>1
    <2>7. \A j \in 1 .. Len(aux') : aux'[j] = ByteOf(sent', n + j - 1)
        <3> SUFFICES ASSUME NEW j \in 1 .. Len(aux') PROVE aux'[j] = ByteOf(sent', n + j - 1)
            OBVIOUS
        <3> HIDE DEF n
        <3>1. CASE j <= Len(aux)
            <4>1. n + j - 1 \in 0 .. 3 * Len(sent) - 1
                BY <2>2, <2>6, <3>1
            <4> QED BY <2>2, <2>4, <2>5, <2>6, <3>1, <4>1
        <3>2. CASE j > Len(aux)
            <4>1. PICK c \in 0 .. 2 : j = Len(aux) + c + 1
                <5>1. j - Len(aux) - 1 \in 0 .. 2
                    BY <2>4, <2>6, <3>2
                <5> QED BY <5>1, <2>6
            <4>2. n + j - 1 = 3 * Len(sent) + c
                BY <2>2, <2>6, <4>1
            <4> QED BY <2>4, <2>5, <4>1, <4>2
        <3> QED BY <2>6, <3>1, <3>2
    <2>8. \A i \in 1 .. Len(parsed) : parsed[i] = sent'[i]
        <3>1. Len(parsed) <= Len(sent)
            <4>1. 3 * Len(sent) = 3 * Len(parsed) + mouse_cycle + FromAux + Len(aux)
                BY <2>2 DEF Assembled
            <4> QED BY <2>1, <2>6, <4>1
        <3>2. \A i \in 1 .. Len(parsed) : i \in 1 .. Len(sent)
            BY <2>6, <3>1
        <3> QED BY <2>2, <2>3, <3>2
    <2>9. \A k \in 1 .. mouse_cycle : mouse_packet[k] = sent'[Len(parsed) + 1][k]
        <3>1. mouse_cycle # 0 => Len(parsed) + 1 \in 1 .. Len(sent)
            BY <2>1, <2>2, <2>6 DEF Assembled
        <3> SUFFICES ASSUME NEW k \in 1 .. mouse_cycle
                     PROVE  mouse_packet[k] = sent'[Len(parsed) + 1][k]
            OBVIOUS
        <3>2. mouse_cycle # 0
            BY <2>1
        <3> QED BY <2>2, <2>3, <3>1, <3>2
    <2>10. FromAux = 1 => obf.val = ByteOf(sent', Assembled)
        <3>1. FromAux = 1 => Assembled \in 0 .. 3 * Len(sent) - 1
            BY <2>1, <2>2, <2>6
        <3> QED BY <2>2, <2>5, <3>1
    <2>11. 3 * Len(sent') = n + Len(aux')
        <3>1. 3 * Len(sent') = 3 * Len(sent) + 3
            BY <2>3, <2>6
        <3>2. 3 * Len(sent) = n + Len(aux) /\ Len(aux') = Len(aux) + 3
            BY <2>2, <2>4
        <3> HIDE DEF n
        <3> QED BY <2>6, <3>1, <3>2
    <2> QED BY <2>1, <2>7, <2>8, <2>9, <2>10, <2>11 DEF MouseStream
<1> QED BY <1>2, <1>3, <1>4 DEF Ps2Inv

\* A byte comes into the buffer, once the system runs.
LEMMA TransferRunInv ==
    ASSUME Ps2Inv, Transfer, boot = "run"
    PROVE  Ps2Inv'
<1>1. /\ reply = <<>> /\ AuxIrq \in config /\ KbdIrq \in config /\ ~ obf.full
      /\ UNCHANGED <<boot, status, config, mouse, typed, codes, sent>>
    BY DEF Ps2Inv, Starting, Transfer, Fill
<1>2. /\ latched = {} /\ FromKbd = 0 /\ FromAux = 0
      /\ Len(codes) >= 1 /\ codes[1] = ACK /\ codes \in Seq(Byte)
      /\ kbd \in Seq(Byte) /\ aux \in Seq(Byte) /\ parsed \in Seq(Seq(Byte)) /\ mouse_cycle \in 0 .. 2
    BY <1>1 DEF Ps2Inv, Ps2TypeOK, Latches, FromKbd, FromAux
<1>3. CASE /\ kbd # <<>> /\ Fill("kbd", Head(kbd), KbdIrq, 1)
           /\ kbd' = Tail(kbd) /\ UNCHANGED <<reply, aux>>
    <2>1. /\ Head(kbd) \in Byte /\ kbd' \in Seq(Byte) /\ Len(kbd') = Len(kbd) - 1
          /\ \A i \in 1 .. Len(kbd') : kbd'[i] = kbd[i + 1]
          /\ Head(kbd) = kbd[1] /\ Len(kbd) \in Nat \ {0}
        BY <1>2, <1>3, HeadTailProperties, EmptySeq
    <2>2. obf' = [src |-> "kbd", val |-> Head(kbd), full |-> TRUE] /\ latched' = {1}
        BY <1>1, <1>2, <1>3 DEF Fill, Filled
    <2>3. Ps2TypeOK'
        BY <1>1, <1>3, <2>1, <2>2 DEF Ps2Inv, Ps2TypeOK, mouse
    <2>4. Starting' /\ Latches' /\ FromKbd' = 1 /\ FromAux' = 0
        BY <1>1, <1>2, <1>3, <2>2 DEF Starting, Latches, FromKbd, FromAux
    <2>5. MouseStream'
        <3>1. UNCHANGED <<boot, sent, parsed, mouse_packet, mouse_cycle, aux>> /\ Assembled' = Assembled
            BY <1>1, <1>3 DEF mouse, Assembled
        <3> QED BY <1>2, <2>4, <3>1 DEF Ps2Inv, MouseStream
    <2>6. KeyStream'
        <3> DEFINE n == Len(codes) - 1
        <3>1. /\ Len(typed) = n + Len(kbd)
              /\ \A i \in 1 .. Len(codes) - 1 : codes[i + 1] = typed[i]
              /\ \A j \in 1 .. Len(kbd) : kbd[j] = typed[n + j]
              /\ n \in Nat /\ n + 1 = Len(codes)
            BY <1>2 DEF Ps2Inv, KeyStream
        <3>2. obf'.val = typed[Len(codes)]
            BY <2>1, <2>2, <3>1
        <3>3. ASSUME NEW j \in 1 .. Len(kbd') PROVE kbd'[j] = typed[n + 1 + j]
            <4>1. j + 1 \in 1 .. Len(kbd) /\ n + (j + 1) = n + 1 + j
                BY <2>1, <3>1
            <4> QED BY <2>1, <3>1, <4>1
        <3>4. Len(typed) = n + 1 + Len(kbd')
            BY <2>1, <3>1
        <3> QED BY <1>1, <2>4, <3>1, <3>2, <3>3, <3>4 DEF KeyStream
    <2> QED BY <2>3, <2>4, <2>5, <2>6 DEF Ps2Inv
<1>4. CASE /\ aux # <<>> /\ Fill("aux", Head(aux), AuxIrq, 12)
           /\ aux' = Tail(aux) /\ UNCHANGED <<reply, kbd>>
    <2>1. /\ Head(aux) \in Byte /\ aux' \in Seq(Byte) /\ Len(aux') = Len(aux) - 1
          /\ \A i \in 1 .. Len(aux') : aux'[i] = aux[i + 1]
          /\ Head(aux) = aux[1] /\ Len(aux) \in Nat \ {0}
        BY <1>2, <1>4, HeadTailProperties, EmptySeq
    <2>2. obf' = [src |-> "aux", val |-> Head(aux), full |-> TRUE] /\ latched' = {12}
        BY <1>1, <1>2, <1>4 DEF Fill, Filled
    <2>3. Ps2TypeOK'
        BY <1>1, <1>4, <2>1, <2>2 DEF Ps2Inv, Ps2TypeOK, mouse
    <2>4. Starting' /\ Latches' /\ FromKbd' = 0 /\ FromAux' = 1
        BY <1>1, <1>2, <1>4, <2>2 DEF Starting, Latches, FromKbd, FromAux
    <2>5. KeyStream'
        BY <1>1, <1>2, <1>4, <2>4 DEF Ps2Inv, KeyStream
    <2>6. MouseStream'
        <3> DEFINE n == Assembled
        <3>1. /\ 3 * Len(sent) = n + Len(aux)
              /\ \A i \in 1 .. Len(parsed) : parsed[i] = sent[i]
              /\ \A k \in 1 .. mouse_cycle : mouse_packet[k] = sent[Len(parsed) + 1][k]
              /\ \A j \in 1 .. Len(aux) : aux[j] = ByteOf(sent, n + j - 1)
              /\ n \in Nat /\ n' = n
            BY <1>1, <1>2 DEF Ps2Inv, MouseStream, Assembled, mouse
        <3> HIDE DEF n
        <3>2. obf'.val = ByteOf(sent, n)
            <4>1. 1 \in 1 .. Len(aux) /\ n + 1 - 1 = n
                BY <2>1, <3>1
            <4> QED BY <2>1, <2>2, <3>1, <4>1
        <3>3. ASSUME NEW j \in 1 .. Len(aux') PROVE aux'[j] = ByteOf(sent, n + 1 + j - 1)
            <4>1. j + 1 \in 1 .. Len(aux) /\ n + (j + 1) - 1 = n + 1 + j - 1
                BY <2>1, <3>1
            <4> QED BY <2>1, <3>1, <4>1
        <3>4. 3 * Len(sent) = n + 1 + Len(aux')
            BY <2>1, <3>1
        <3> QED BY <1>1, <2>4, <3>1, <3>2, <3>3, <3>4 DEF MouseStream, n, mouse
    <2> QED BY <2>3, <2>4, <2>5, <2>6 DEF Ps2Inv
<1> QED BY <1>1, <1>3, <1>4 DEF Transfer

\* During the start only the answers to init_mouse come.
LEMMA TransferBootInv ==
    ASSUME Ps2Inv, Transfer, boot # "run"
    PROVE  Ps2Inv'
<1>1. ~ obf.full /\ UNCHANGED <<boot, status, config, mouse, typed, codes, sent>>
    BY DEF Transfer, Fill
<1>2. KeyStream' /\ MouseStream' /\ Latches'
    BY <1>1 DEF KeyStream, MouseStream, Latches
<1>3. CASE /\ reply # <<>> /\ Fill("kbd", Head(reply), KbdIrq, 1)
           /\ reply' = Tail(reply) /\ UNCHANGED <<kbd, aux>>
    <2>1. boot = "status" /\ reply = <<config>> /\ KbdIrq \in config
        BY <1>1, <1>3 DEF Ps2Inv, Starting
    <2>2. /\ obf' = [src |-> "kbd", val |-> config, full |-> TRUE] /\ reply' = <<>>
          /\ latched' = latched \cup {1}
        BY <1>3, <2>1 DEF Fill, Filled
    <2>3. Ps2TypeOK'
        <3>1. obf' \in [src : {"kbd", "aux"}, val : Byte, full : BOOLEAN] /\ latched' \subseteq {1, 12}
            BY <2>2 DEF Ps2Inv, Ps2TypeOK
        <3> QED BY <1>1, <1>3, <2>2, <3>1 DEF Ps2Inv, Ps2TypeOK, mouse
    <2>4. Starting'
        BY <1>1, <1>3, <2>1, <2>2 DEF Ps2Inv, Starting, Quiet, mouse
    <2> QED BY <1>2, <2>3, <2>4 DEF Ps2Inv
<1>4. CASE /\ reply = <<>> /\ kbd # <<>> /\ KbdOff \notin config
    BY <1>4 DEF Ps2Inv, Ps2TypeOK, Starting, Quiet
<1>5. CASE /\ aux # <<>> /\ Fill("aux", Head(aux), AuxIrq, 12)
           /\ aux' = Tail(aux) /\ UNCHANGED <<reply, kbd>>
    <2>1. boot \in {"ack1", "ack2"} /\ aux = <<ACK>>
        BY <1>1, <1>5 DEF Ps2Inv, Ps2TypeOK, Starting
    <2>2. /\ obf' = [src |-> "aux", val |-> ACK, full |-> TRUE] /\ aux' = <<>>
          /\ latched' \in {latched, latched \cup {12}}
        <3>1. Head(aux) = ACK /\ Tail(aux) = <<>>
            BY <2>1
        <3> QED BY <1>5, <3>1 DEF Fill, Filled
    <2>3. Ps2TypeOK'
        BY <1>1, <1>5, <2>2, Ps2Constants DEF Ps2Inv, Ps2TypeOK, mouse
    <2>4. Starting'
        BY <1>1, <1>5, <2>1, <2>2 DEF Ps2Inv, Starting, Quiet, mouse
    <2> QED BY <1>2, <2>3, <2>4 DEF Ps2Inv
<1> QED BY <1>3, <1>4, <1>5 DEF Transfer

\* The keyboard handler reads the byte in the buffer, or the one left there.
LEMMA IrqKeyboardInv ==
    ASSUME Ps2Inv, IrqKeyboard
    PROVE  Ps2Inv'
<1>1. /\ 1 \in latched /\ latched' = latched \ {1} /\ codes' = Append(codes, obf.val)
      /\ obf' = [obf EXCEPT !.full = FALSE]
      /\ UNCHANGED <<boot, status, config, reply, kbd, aux, mouse, typed, sent>>
    BY DEF IrqKeyboard, Taken
<1>2. obf \in [src : {"kbd", "aux"}, val : Byte, full : BOOLEAN] /\ codes \in Seq(Byte)
    BY DEF Ps2Inv, Ps2TypeOK
<1>3. obf' \in [src : {"kbd", "aux"}, val : Byte, full : BOOLEAN] /\ ~ obf'.full /\ obf'.val = obf.val
    BY <1>1, <1>2
<1>4. codes' \in Seq(Byte)
    BY <1>1, <1>2
<1>5. Ps2TypeOK'
    BY <1>1, <1>3, <1>4 DEF Ps2Inv, Ps2TypeOK, mouse
<1>6. CASE boot = "sti"
    <2>1. codes' = <<ACK>>
        BY <1>1, <1>6 DEF Ps2Inv, Starting
    <2>2. Starting'
        BY <1>1, <1>3, <1>6, <2>1 DEF Ps2Inv, Starting, Quiet, mouse
    <2> QED BY <1>1, <1>5, <1>6, <2>2 DEF Ps2Inv, KeyStream, MouseStream, Latches
<1>7. CASE boot = "run"
    <2>1. /\ obf.full /\ obf.src = "kbd" /\ latched' = {} /\ FromKbd = 1 /\ FromAux = 0
          /\ FromKbd' = 0 /\ FromAux' = 0 /\ Len(codes) \in Nat \ {0} /\ codes[1] = ACK
        BY <1>1, <1>2, <1>3, <1>7 DEF Ps2Inv, Latches, FromKbd, FromAux
    <2>2. Starting'
        BY <1>1, <1>7 DEF Ps2Inv, Starting
    <2>3. MouseStream'
        BY <1>1, <1>7, <2>1 DEF Ps2Inv, MouseStream, Assembled, mouse
    <2>4. /\ Len(codes') = Len(codes) + 1 /\ codes'[Len(codes) + 1] = obf.val
          /\ \A i \in 1 .. Len(codes) : codes'[i] = codes[i]
        BY <1>1, <1>2
    <2>5. Latches'
        BY <1>3, <2>1, <2>4 DEF Latches
    <2>6. /\ Len(typed) = Len(codes) - 1 + 1 + Len(kbd)
          /\ \A i \in 1 .. Len(codes) - 1 : codes[i + 1] = typed[i]
          /\ obf.val = typed[Len(codes)]
          /\ \A j \in 1 .. Len(kbd) : kbd[j] = typed[Len(codes) - 1 + 1 + j]
        BY <1>7, <2>1 DEF Ps2Inv, KeyStream
    <2>7. ASSUME NEW i \in 1 .. Len(codes') - 1 PROVE codes'[i + 1] = typed[i]
        <3>1. CASE i = Len(codes)
            BY <2>4, <2>6, <3>1
        <3>2. CASE i # Len(codes)
            <4>1. i \in 1 .. Len(codes) - 1 /\ i + 1 \in 1 .. Len(codes)
                BY <2>1, <2>4, <3>2
            <4> QED BY <2>4, <2>6, <4>1
        <3> QED BY <3>1, <3>2
    <2>8. Len(codes') - 1 + 0 = Len(codes) - 1 + 1
        BY <2>1, <2>4
    <2>9. KeyStream'
        BY <1>1, <2>1, <2>6, <2>7, <2>8 DEF KeyStream
    <2> QED BY <1>5, <2>2, <2>3, <2>5, <2>9 DEF Ps2Inv
<1> QED BY <1>6, <1>7 DEF IrqKeyboard

\* The mouse handler takes the next byte of its packet.
LEMMA IrqMouseInv ==
    ASSUME Ps2Inv, IrqMouse
    PROVE  Ps2Inv'
<1>1. /\ 12 \in latched /\ 1 \notin latched /\ latched' = latched \ {12}
      /\ obf' = [obf EXCEPT !.full = FALSE]
      /\ UNCHANGED <<boot, status, config, reply, kbd, aux, typed, codes, sent>>
    BY DEF IrqMouse, Taken
<1>2. obf \in [src : {"kbd", "aux"}, val : Byte, full : BOOLEAN]
    BY DEF Ps2Inv, Ps2TypeOK
<1>3. obf' \in [src : {"kbd", "aux"}, val : Byte, full : BOOLEAN] /\ ~ obf'.full /\ obf'.val = obf.val
    BY <1>1, <1>2
<1>4. CASE boot = "sti"
    <2>1. ~ obf.full
        BY <1>4 DEF Ps2Inv, Starting
    <2>2. UNCHANGED mouse
        BY <2>1 DEF IrqMouse
    <2>3. Ps2TypeOK'
        BY <1>1, <1>3, <2>2 DEF Ps2Inv, Ps2TypeOK, mouse
    <2>4. Starting'
        BY <1>1, <1>3, <1>4, <2>2 DEF Ps2Inv, Starting, Quiet, mouse
    <2> QED BY <1>1, <1>4, <2>3, <2>4 DEF Ps2Inv, KeyStream, MouseStream, Latches
<1>5. CASE boot = "run"
    <2> DEFINE m == Len(parsed)
               c == mouse_cycle
               packet == [mouse_packet EXCEPT ![c + 1] = obf.val]
    <2>1. /\ obf.full /\ obf.src = "aux" /\ latched' = {} /\ FromKbd = 0 /\ FromAux = 1
          /\ FromKbd' = 0 /\ FromAux' = 0
        BY <1>1, <1>2, <1>3, <1>5 DEF Ps2Inv, Latches, FromKbd, FromAux
    <2>2. /\ m \in Nat /\ c \in 0 .. 2 /\ sent \in Seq(PacketSeq) /\ parsed \in Seq(Seq(Byte))
          /\ mouse_packet \in [1 .. 3 -> Byte] /\ aux \in Seq(Byte) /\ Len(sent) \in Nat
          /\ Len(aux) \in Nat /\ obf.val \in Byte
        BY <1>2 DEF Ps2Inv, Ps2TypeOK
    <2>3. /\ 3 * Len(sent) = 3 * m + c + 1 + Len(aux)
          /\ \A i \in 1 .. m : parsed[i] = sent[i]
          /\ \A k \in 1 .. c : mouse_packet[k] = sent[m + 1][k]
          /\ obf.val = ByteOf(sent, 3 * m + c)
          /\ \A j \in 1 .. Len(aux) : aux[j] = ByteOf(sent, 3 * m + c + 1 + j - 1)
        BY <1>5, <2>1 DEF Ps2Inv, MouseStream, Assembled
    <2>4. m + 1 \in 1 .. Len(sent)
        BY <2>2, <2>3
    <2>5. sent[m + 1] \in PacketSeq /\ obf.val = sent[m + 1][c + 1]
        <3>1. (3 * m + c) \div 3 = m /\ (3 * m + c) % 3 = c
            BY <2>2, Thirds
        <3>2. sent[m + 1] \in PacketSeq
            BY <2>2, <2>4, ElementOfSeq
        <3> HIDE DEF m, c
        <3> QED BY <2>3, <3>1, <3>2 DEF ByteOf
    <2>6. c = 0 => 3 \in obf.val
        BY <2>5 DEF PacketSeq
    <2>7. mouse_packet' = packet /\ MousePacket(packet, c + 1)
        BY <2>1, <2>6 DEF IrqMouse
    <2>8. packet \in [1 .. 3 -> Byte] /\ \A k \in 1 .. c + 1 : packet[k] = sent[m + 1][k]
        <3> HIDE DEF m, c
        <3>1. c + 1 \in 1 .. 3
            BY <2>2
        <3>2. packet \in [1 .. 3 -> Byte] /\ packet[c + 1] = obf.val
            BY <2>2, <3>1
        <3>3. \A k \in 1 .. c : k # c + 1 /\ k \in 1 .. 3
            BY <2>2
        <3>4. \A k \in 1 .. c : packet[k] = mouse_packet[k]
            BY <2>2, <3>1, <3>3
        <3>5. \A k \in 1 .. c + 1 : k = c + 1 \/ k \in 1 .. c
            BY <2>2
        <3> QED BY <2>3, <2>5, <3>2, <3>4, <3>5
    <2>9. Starting' /\ Latches' /\ KeyStream'
        BY <1>1, <1>3, <1>5, <2>1 DEF Ps2Inv, Starting, Latches, KeyStream
    <2> HIDE DEF packet
    <2>10. CASE c + 1 = 3
        <3>1. mouse_cycle' = 0 /\ parsed' = Append(parsed, packet)
            BY <2>7, <2>10 DEF MousePacket
        <3>2. packet = sent[m + 1]
            <4>1. sent[m + 1] \in [1 .. 3 -> Byte]
                BY <2>5, LenProperties DEF PacketSeq
            <4> QED BY <2>8, <2>10, <4>1
        <3>3. packet \in Seq(Byte)
            BY <2>5, <3>2 DEF PacketSeq
        <3>4. /\ parsed' \in Seq(Seq(Byte)) /\ Len(parsed') = m + 1 /\ parsed'[m + 1] = packet
              /\ \A i \in 1 .. m : parsed'[i] = parsed[i]
            BY <2>2, <3>1, <3>3
        <3>5. Ps2TypeOK'
            BY <1>1, <1>3, <2>7, <2>8, <3>1, <3>4 DEF Ps2Inv, Ps2TypeOK
        <3>6. \A i \in 1 .. Len(parsed') : parsed'[i] = sent[i]
            <4>1. \A i \in 1 .. m + 1 : i = m + 1 \/ i \in 1 .. m
                BY <2>2
            <4> QED BY <2>3, <3>2, <3>4, <4>1
        <3>7. Assembled' + 0 = 3 * m + c + 1
            BY <2>2, <2>10, <3>1, <3>4 DEF Assembled
        <3>8. MouseStream'
            BY <1>1, <2>1, <2>3, <3>1, <3>6, <3>7 DEF MouseStream
        <3> QED BY <2>9, <3>5, <3>8 DEF Ps2Inv
    <2>11. CASE c + 1 # 3
        <3>1. mouse_cycle' = c + 1 /\ parsed' = parsed
            BY <2>7, <2>11 DEF MousePacket
        <3>2. Ps2TypeOK'
            BY <1>1, <1>3, <2>2, <2>7, <2>8, <2>11, <3>1 DEF Ps2Inv, Ps2TypeOK
        <3>3. Assembled' + 0 = 3 * m + c + 1
            BY <2>2, <3>1 DEF Assembled
        <3>4. MouseStream'
            BY <1>1, <2>1, <2>3, <2>7, <2>8, <3>1, <3>3 DEF MouseStream
        <3> QED BY <2>9, <3>2, <3>4 DEF Ps2Inv
    <2> QED BY <2>10, <2>11
<1> QED BY <1>4, <1>5 DEF IrqMouse

\* Every step keeps the invariant, when no key is pressed and the mouse is
\* not moved before the system runs.
LEMMA Ps2StepInv ==
    ASSUME EarlyInput = FALSE, Ps2Inv, [Ps2Next]_ps2Vars
    PROVE  Ps2Inv'
<1>1. CASE \E b \in Scancodes : KeyEvent(b)
    BY <1>1, KeyInv
<1>2. CASE \E p \in Packets : MouseMoves(p)
    BY <1>2, MoveInv
<1>3. CASE Transfer
    BY <1>3, TransferRunInv, TransferBootInv
<1>4. CASE init_mouse
    BY <1>4, BootInv
<1>5. CASE IrqKeyboard
    BY <1>5, IrqKeyboardInv
<1>6. CASE IrqMouse
    BY <1>6, IrqMouseInv
<1>7. CASE UNCHANGED ps2Vars
    <2> USE <1>7 DEF ps2Vars, bus, mouse
    <2>1. Ps2TypeOK'
        BY DEF Ps2Inv, Ps2TypeOK
    <2>2. Starting'
        BY DEF Ps2Inv, Starting, Quiet
    <2>3. Latches' /\ KeyStream'
        BY DEF Ps2Inv, Latches, KeyStream, FromKbd
    <2>4. MouseStream'
        BY DEF Ps2Inv, MouseStream, FromAux, Assembled
    <2> QED BY <2>1, <2>2, <2>3, <2>4 DEF Ps2Inv
<1> QED BY <1>1, <1>2, <1>3, <1>4, <1>5, <1>6, <1>7 DEF Ps2Next, Waits

\* A sequence that agrees with the beginning of another is a prefix of it.
LEMMA PrefixOf ==
    ASSUME NEW S, NEW s \in Seq(S), NEW t \in Seq(S), Len(s) <= Len(t),
           \A i \in 1 .. Len(s) : s[i] = t[i]
    PROVE  Prefix(s, t)
<1>1. Len(s) \in Nat /\ Len(t) \in Nat
    OBVIOUS
<1>2. s = SubSeq(t, 1, Len(s))
    BY <1>1
<1> QED BY <1>2 DEF Prefix

\* The empty sequence is a prefix of every sequence.
LEMMA PrefixEmpty ==
    ASSUME NEW S, NEW t \in Seq(S)
    PROVE  Prefix(<<>>, t)
<1>1. SubSeq(t, 1, 0) = <<>>
    BY SubSeqEmpty
<1> QED BY <1>1 DEF Prefix

\* What the invariant says of both streams at once.
LEMMA StreamsAsSent == Ps2Inv => InputAsSent
<1> SUFFICES ASSUME Ps2Inv PROVE InputAsSent
    OBVIOUS
<1> DEFINE u == <<ACK>> \o typed
<1>1. /\ typed \in Seq(Byte) /\ codes \in Seq(Byte) /\ sent \in Seq(Seq(Byte))
      /\ parsed \in Seq(Seq(Byte))
    BY DEF Ps2Inv, Ps2TypeOK, PacketSeq
<1>2. /\ u \in Seq(Byte) /\ Len(u) = Len(typed) + 1 /\ u[1] = ACK
      /\ \A i \in 1 .. Len(typed) : u[i + 1] = typed[i]
    <2>1. <<ACK>> \in Seq(Byte) /\ Len(<<ACK>>) = 1
        BY Ps2Constants
    <2> QED BY <1>1, <2>1, ConcatProperties
<1>3. CASE boot # "run"
    <2>1. sent = <<>> /\ parsed = <<>> /\ codes \in {<<>>, <<ACK>>}
        BY <1>3 DEF Ps2Inv, Ps2TypeOK, Starting, Quiet
    <2>2. Prefix(parsed, sent)
        BY <1>1, <2>1, PrefixEmpty
    <2>3. Prefix(codes, u)
        <3> HIDE DEF u
        <3>1. CASE codes = <<>>
            BY <1>2, <3>1, PrefixEmpty
        <3>2. CASE codes = <<ACK>>
            <4>1. Len(codes) = 1 /\ codes[1] = ACK /\ Len(typed) \in Nat
                BY <1>1, <3>2
            <4>2. Len(codes) <= Len(u) /\ \A i \in 1 .. Len(codes) : codes[i] = u[i]
                BY <1>2, <4>1
            <4> QED BY <1>1, <1>2, <4>2, PrefixOf
        <3> QED BY <2>1, <3>1, <3>2
    <2> QED BY <2>2, <2>3 DEF InputAsSent, ACK
<1>4. CASE boot = "run"
    <2>1. Len(codes) \in Nat /\ Len(typed) \in Nat /\ Len(kbd) \in Nat /\ FromKbd \in {0, 1}
        BY <1>1 DEF Ps2Inv, Ps2TypeOK, FromKbd
    <2>2. /\ Len(typed) = Len(codes) - 1 + FromKbd + Len(kbd)
          /\ \A i \in 1 .. Len(codes) - 1 : codes[i + 1] = typed[i]
          /\ Len(codes) >= 1 /\ codes[1] = ACK
        BY <1>4 DEF Ps2Inv, KeyStream, Latches
    <2>3. ASSUME NEW i \in 1 .. Len(codes) PROVE codes[i] = u[i]
        <3>1. CASE i = 1
            BY <1>2, <2>2, <3>1
        <3>2. CASE i # 1
            <4>1. i - 1 \in 1 .. Len(codes) - 1 /\ i - 1 \in 1 .. Len(typed) /\ i - 1 + 1 = i
                BY <2>1, <2>2, <3>2
            <4> QED BY <1>2, <2>2, <4>1
        <3> QED BY <3>1, <3>2
    <2>4. Len(codes) <= Len(u)
        BY <1>2, <2>1, <2>2
    <2>5. Prefix(codes, u)
        <3> HIDE DEF u
        <3> QED BY <1>1, <1>2, <2>3, <2>4, PrefixOf
    <2>6. Len(parsed) <= Len(sent) /\ \A i \in 1 .. Len(parsed) : parsed[i] = sent[i]
        <3>1. /\ Len(parsed) \in Nat /\ Len(sent) \in Nat /\ Len(aux) \in Nat
              /\ FromAux \in {0, 1} /\ mouse_cycle \in 0 .. 2
            BY <1>1 DEF Ps2Inv, Ps2TypeOK, FromAux
        <3>2. /\ 3 * Len(sent) = 3 * Len(parsed) + mouse_cycle + FromAux + Len(aux)
              /\ \A i \in 1 .. Len(parsed) : parsed[i] = sent[i]
            BY <1>4 DEF Ps2Inv, MouseStream, Assembled
        <3> QED BY <3>1, <3>2
    <2>7. Prefix(parsed, sent)
        BY <1>1, <2>6, PrefixOf
    <2> QED BY <2>5, <2>7 DEF InputAsSent, ACK
<1> QED BY <1>3, <1>4

\* The scancodes that irq_handler reads are one answer of the mouse, left in
\* the buffer by init_mouse, and then what was typed, each byte once and in
\* order; and the packets that mouse_handle_interrupt puts together are those
\* that were sent, in order: for every sequence of keys and movements, however
\* their bytes and interrupts interleave.
THEOREM InputAlwaysAsSent == EarlyInput = FALSE => (Ps2Spec => []InputAsSent)
<1> SUFFICES ASSUME EarlyInput = FALSE PROVE Ps2Spec => []InputAsSent
    OBVIOUS
<1>1. Ps2Inv /\ [Ps2Next]_ps2Vars => Ps2Inv'
    BY Ps2StepInv
<1> QED BY <1>1, Ps2InitInv, StreamsAsSent, PTL DEF Ps2Spec

\* How the command byte comes about.
ConfigSteps ==
    /\ boot = "A8" => config = Config
    /\ boot \in {"20", "status", "60"} => config = Config \ {AuxOff}
    /\ boot = "60" => status = (Config \ {AuxOff}) \cup {AuxIrq}
    /\ boot \in {"F6", "ack1", "F4", "ack2", "sti", "run"} =>
          config = (Config \ {AuxOff}) \cup {AuxIrq}

\* Until the command byte is written, what init_mouse read is the byte itself.
LEMMA ConfigStepsInv ==
    ASSUME Ps2Inv, ConfigSteps, [Ps2Next]_ps2Vars
    PROVE  ConfigSteps'
<1>1. CASE init_mouse
    <2>1. CASE EnableAux
        BY <2>1 DEF EnableAux, At, ConfigSteps
    <2>2. CASE AskConfig
        BY <2>2 DEF AskConfig, At, ConfigSteps
    <2>3. CASE ReadConfig
        BY <2>3 DEF ReadConfig, Polled, At, ConfigSteps, Ps2Inv, Starting
    <2>4. CASE WriteConfig
        BY <2>4 DEF WriteConfig, At, ConfigSteps
    <2>5. CASE mouse_write("F6", "ack1") \/ mouse_write("F4", "ack2")
        BY <2>5 DEF mouse_write, At, ConfigSteps
    <2>6. CASE mouse_read("ack1", "F4") \/ mouse_read("ack2", "sti")
        BY <2>6 DEF mouse_read, At, ConfigSteps
    <2>7. CASE Started
        BY <2>7 DEF Started, bus, At, ConfigSteps
    <2> QED BY <1>1, <2>1, <2>2, <2>3, <2>4, <2>5, <2>6, <2>7 DEF init_mouse
<1>2. CASE UNCHANGED <<boot, config, status>>
    BY <1>2 DEF ConfigSteps
<1>3. CASE UNCHANGED ps2Vars
    BY <1>2, <1>3 DEF ps2Vars, bus
<1> QED BY <1>1, <1>2, <1>3 DEF Ps2Next, KeyEvent, MouseMoves, Transfer, Fill, IrqKeyboard, IrqMouse, Waits

\* init_mouse leaves the other bits of the controller's command byte as they
\* were, if no input comes before it has finished: the byte it reads and
\* writes back is the command byte, and not a scancode.
THEOREM ConfigAlwaysKept == EarlyInput = FALSE => (Ps2Spec => []ConfigKept)
<1> SUFFICES ASSUME EarlyInput = FALSE PROVE Ps2Spec => []ConfigKept
    OBVIOUS
<1>1. Ps2Inv /\ [Ps2Next]_ps2Vars => Ps2Inv'
    BY Ps2StepInv
<1>2. Ps2Init => ConfigSteps
    BY DEF Ps2Init, ConfigSteps
<1>3. Ps2Inv /\ ConfigSteps /\ [Ps2Next]_ps2Vars => ConfigSteps'
    BY ConfigStepsInv
<1>4. ConfigSteps => ConfigKept
    BY DEF ConfigSteps, ConfigKept
<1> QED BY <1>1, <1>2, <1>3, <1>4, Ps2InitInv, PTL DEF Ps2Spec
==============================================================================
