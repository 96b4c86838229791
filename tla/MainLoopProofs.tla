--------------------------- MODULE MainLoopProofs ---------------------------
(***************************************************************************)
(* Proofs about what the main loop serves: the keyboard's queue, which it  *)
(* drains once a frame, and the desktop with its editor, which it draws    *)
(* once a frame.                                                           *)
(***************************************************************************)
EXTENDS Keyboard, Desktop, TLAPS

-----------------------------------------------------------------------------
(* The ring between the keyboard's interrupt and the main loop: every size *)
(* of it, every set of keys and every placement of interrupts inside       *)
(* keyboard_pop_char.                                                      *)

\* The remainder stays in range.
LEMMA ModRange ==
    ASSUME NEW n \in Nat
    PROVE  n % Size \in 0 .. Size - 1
BY KeyboardAssumption

\* Division with remainder.
LEMMA DivMod ==
    ASSUME NEW n \in Nat
    PROVE  /\ n \div Size \in Nat
           /\ n = Size * (n \div Size) + (n % Size)
BY KeyboardAssumption

\* A product of naturals is natural, and no smaller than a factor when the
\* other one is positive.
LEMMA Product ==
    ASSUME NEW d \in Nat
    PROVE  /\ Size * d \in Nat
           /\ d >= 1 => Size * d >= Size
BY KeyboardAssumption

\* The quotient and the remainder are unique.
LEMMA DivUnique ==
    ASSUME NEW p \in Nat, NEW q \in Nat,
           NEW r \in 0 .. Size - 1, NEW s \in 0 .. Size - 1,
           Size * p + r = Size * q + s
    PROVE  p = q /\ r = s
<1> USE KeyboardAssumption
<1>1. ASSUME p < q PROVE FALSE
    <2>1. q - p \in Nat /\ q - p >= 1
        BY <1>1
    <2>2. Size * (q - p) = Size * q - Size * p
        OBVIOUS
    <2>3. Size * p \in Nat /\ Size * q \in Nat /\ Size * (q - p) >= Size
        BY <2>1, Product
    <2> QED BY <2>2, <2>3
<1>2. ASSUME q < p PROVE FALSE
    <2>1. p - q \in Nat /\ p - q >= 1
        BY <1>2
    <2>2. Size * (p - q) = Size * p - Size * q
        OBVIOUS
    <2>3. Size * p \in Nat /\ Size * q \in Nat /\ Size * (p - q) >= Size
        BY <2>1, Product
    <2> QED BY <2>2, <2>3
<1>3. p = q
    BY <1>1, <1>2
<1>4. Size * p \in Nat /\ Size * q = Size * p
    BY <1>3, Product
<1> QED BY <1>3, <1>4

\* A full turn apart, two counts have the same index.
LEMMA ModTurn ==
    ASSUME NEW n \in Nat
    PROVE  (n + Size) % Size = n % Size
<1> USE KeyboardAssumption
<1> DEFINE q == n \div Size
           r == n % Size
           t == (n + Size) \div Size
           u == (n + Size) % Size
<1>1. q \in Nat /\ n = Size * q + r /\ r \in 0 .. Size - 1
    BY DivMod, ModRange
<1>2. t \in Nat /\ n + Size = Size * t + u /\ u \in 0 .. Size - 1
    <2>1. n + Size \in Nat
        OBVIOUS
    <2> QED BY <2>1, DivMod, ModRange
<1> HIDE DEF q, r, t, u
<1>3. Size * (q + 1) = Size * q + Size /\ Size * q \in Nat /\ Size * t \in Nat
    BY <1>1, <1>2, Product
<1>4. Size * (q + 1) + r = Size * t + u
    BY <1>1, <1>2, <1>3
<1>5. r = u
    BY <1>1, <1>2, <1>4, DivUnique
<1> QED BY <1>5 DEF r, u

\* Stepping an index modulo Size is stepping the count behind it.
LEMMA ModStep ==
    ASSUME NEW n \in Nat
    PROVE  ((n % Size) + 1) % Size = (n + 1) % Size
<1> USE KeyboardAssumption
<1> DEFINE q == n \div Size
           r == n % Size
           t == (n + 1) \div Size
           u == (n + 1) % Size
           v == (r + 1) \div Size
           w == (r + 1) % Size
<1>1. q \in Nat /\ n = Size * q + r /\ r \in 0 .. Size - 1
    BY DivMod, ModRange
<1>2. t \in Nat /\ n + 1 = Size * t + u /\ u \in 0 .. Size - 1
    BY DivMod, ModRange
<1>3. v \in Nat /\ r + 1 = Size * v + w /\ w \in 0 .. Size - 1
    <2>1. r + 1 \in Nat
        BY <1>1
    <2> QED BY <2>1, DivMod, ModRange
<1> HIDE DEF q, r, t, u, v, w
<1>4. Size * (q + v) = Size * q + Size * v
      /\ Size * q \in Nat /\ Size * t \in Nat /\ Size * v \in Nat /\ q + v \in Nat
    BY <1>1, <1>2, <1>3, Product
<1>5. PICK k \in Nat : k = q + v
    BY <1>4
<1>6. Size * k + w = Size * t + u
    BY <1>1, <1>2, <1>3, <1>4, <1>5
<1>7. t \in Nat /\ u \in 0 .. Size - 1 /\ w \in 0 .. Size - 1
    BY <1>2, <1>3
<1>8. w = u
    BY <1>6, <1>7, DivUnique
<1> QED BY <1>8 DEF r, u, w

\* Fewer than Size apart, two counts have different indices.
LEMMA ModApart ==
    ASSUME NEW m \in Nat, NEW n \in Nat, m < n, n < m + Size
    PROVE  m % Size # n % Size
<1> USE KeyboardAssumption
<1> DEFINE q == m \div Size
           r == m % Size
           t == n \div Size
           u == n % Size
<1>1. q \in Nat /\ m = Size * q + r /\ r \in 0 .. Size - 1
    BY DivMod, ModRange
<1>2. t \in Nat /\ n = Size * t + u /\ u \in 0 .. Size - 1
    BY DivMod, ModRange
<1> HIDE DEF q, r, t, u
<1>3. ASSUME r = u PROVE FALSE
    <2>1. Size * q \in Nat /\ Size * t \in Nat
        BY <1>1, <1>2, Product
    <2>2. Size * (t - q) = Size * t - Size * q
        BY <1>1, <1>2
    <2>3. Size * t - Size * q > 0 /\ Size * t - Size * q < Size
        BY <1>1, <1>2, <1>3, <2>1
    <2>4. CASE t > q
        <3>1. t - q \in Nat /\ t - q >= 1
            BY <1>1, <1>2, <2>4
        <3> QED BY <3>1, <2>2, <2>3, Product
    <2>5. CASE t <= q
        <3>1. q - t \in Nat /\ Size * (q - t) = Size * q - Size * t
            BY <1>1, <1>2, <2>5
        <3> QED BY <3>1, <2>1, <2>3, Product
    <2> QED BY <1>1, <1>2, <2>4, <2>5
<1> QED BY <1>3 DEF r, u

\* The slot behind an index modulo Size is the slot of the count before.
LEMMA ModBack ==
    ASSUME NEW n \in Nat
    PROVE  (((n + 1) % Size) + Size - 1) % Size = n % Size
<1> USE KeyboardAssumption
<1> DEFINE q == n \div Size
           r == n % Size
           t == (n + 1) \div Size
           u == (n + 1) % Size
           v == (u + Size - 1) \div Size
           w == (u + Size - 1) % Size
<1>1. q \in Nat /\ n = Size * q + r /\ r \in 0 .. Size - 1
    BY DivMod, ModRange
<1>2. t \in Nat /\ n + 1 = Size * t + u /\ u \in 0 .. Size - 1
    BY DivMod, ModRange
<1>3. v \in Nat /\ u + Size - 1 = Size * v + w /\ w \in 0 .. Size - 1
    <2>1. u + Size - 1 \in Nat
        BY <1>2
    <2> QED BY <2>1, DivMod, ModRange
<1> HIDE DEF q, r, t, u, v, w
<1>4. Size * (t + v) = Size * t + Size * v /\ Size * (q + 1) = Size * q + Size
      /\ Size * q \in Nat /\ Size * t \in Nat /\ Size * v \in Nat
    BY <1>1, <1>2, <1>3, Product
<1>5. PICK k \in Nat : k = t + v
    BY <1>2, <1>3
<1>6. PICK j \in Nat : j = q + 1
    BY <1>1
<1>7. Size * k + w = Size * j + r
    BY <1>1, <1>2, <1>3, <1>4, <1>5, <1>6
<1>8. r \in 0 .. Size - 1 /\ w \in 0 .. Size - 1
    BY <1>1, <1>3
<1>9. w = r
    BY <1>7, <1>8, DivUnique
<1> QED BY <1>9 DEF r, u, w

-----------------------------------------------------------------------------
\* Characters that have left the ring: while tail has moved but its slot has
\* not been read yet, one more than the main loop has been given.
Taken == Len(popped) + (IF pc = "late" THEN 1 ELSE 0)

\* head and tail are the two counts modulo Size, and the slots between them
\* hold what was pushed and not yet taken, in order.
RingInv ==
    /\ Taken <= Len(pushed) /\ Len(pushed) <= Taken + Size - 1
    /\ keyboard_head = Len(pushed) % Size
    /\ keyboard_tail = Taken % Size
    /\ \A i \in Nat : Taken <= i /\ i < Len(pushed)
            => keyboard_buffer[i % Size] = pushed[i + 1]

\* What the pop in progress knows.
PopInv ==
    /\ pc \in {"take", "advance"} => Taken < Len(pushed)
    /\ pc = "advance" => c = pushed[Len(popped) + 1]
    /\ pc = "late" => keyboard_buffer[Len(popped) % Size] = pushed[Len(popped) + 1]

KeyboardInv == KeyboardTypeOK /\ RingInv /\ PopInv /\ PoppedInOrder

\* The empty ring satisfies the invariant.
LEMMA KeyboardInitInv == KeyboardInit => KeyboardInv
<1> SUFFICES ASSUME KeyboardInit PROVE KeyboardInv
    OBVIOUS
<1> USE KeyboardAssumption
<1>1. KeyboardTypeOK
    BY DEF KeyboardInit, KeyboardTypeOK
<1>2. Len(pushed) = 0 /\ Len(popped) = 0 /\ pc = "pop" /\ 0 % Size = 0
    <2>1. 0 % Size \in 0 .. Size - 1 /\ 0 \div Size \in Nat
          /\ 0 = Size * (0 \div Size) + (0 % Size)
        BY ModRange, DivMod
    <2>2. Size * (0 \div Size) \in Nat
        BY <2>1, Product
    <2> QED BY <2>1, <2>2 DEF KeyboardInit
<1>3. RingInv /\ PopInv /\ PoppedInOrder
    BY <1>2 DEF KeyboardInit, RingInv, PopInv, PoppedInOrder, Taken
<1> QED BY <1>1, <1>3 DEF KeyboardInv

\* A push of IRQ 1 writes the slot after the last unread one, never a slot a
\* pop is still looking at.
LEMMA PushInv ==
    ASSUME KeyboardInv, NEW ch \in Char, keyboard_push_char(ch),
           UNCHANGED <<pc, c, text, popped, shift_pressed, held>>,
           events' \in 0 .. MaxEvents
    PROVE  KeyboardInv'
<1> USE KeyboardAssumption
<1>0. PICK n \in Nat : n = Len(pushed)
    BY DEF KeyboardInv, KeyboardTypeOK
<1>1. n \in Nat /\ Len(popped) \in Nat /\ Taken \in Nat
      /\ keyboard_head = n % Size /\ keyboard_tail = Taken % Size
      /\ Taken <= n /\ n <= Taken + Size - 1 /\ Taken' = Taken
      /\ Len(popped) <= Taken /\ Taken <= Len(popped) + 1
    BY <1>0 DEF KeyboardInv, KeyboardTypeOK, RingInv, Taken
<1>2. CASE (keyboard_head + 1) % Size = keyboard_tail
    <2>1. UNCHANGED <<ring, pushed>>
        BY <1>2 DEF keyboard_push_char
    <2> QED
        BY <2>1, <1>1 DEF KeyboardInv, KeyboardTypeOK, RingInv, PopInv, PoppedInOrder, ring, Taken
<1>3. CASE (keyboard_head + 1) % Size # keyboard_tail
    <2>1. keyboard_buffer' = [keyboard_buffer EXCEPT ![n % Size] = ch]
          /\ keyboard_head' = (n + 1) % Size /\ pushed' = Append(pushed, ch)
          /\ keyboard_tail' = keyboard_tail
        BY <1>1, <1>3, ModStep DEF keyboard_push_char
    <2>2. n + 1 # Taken + Size
        <3>1. SUFFICES ASSUME n + 1 = Taken + Size PROVE FALSE
            OBVIOUS
        <3>2. (n + 1) % Size = Taken % Size
            BY <1>1, <3>1, ModTurn
        <3> QED BY <1>1, <1>3, <3>2, ModStep
    <2>3. n + 1 <= Taken + Size - 1
        BY <1>1, <2>2
    <2>4. Len(pushed') = n + 1 /\ pushed'[n + 1] = ch
          /\ (\A i \in 1 .. n : pushed'[i] = pushed[i]) /\ pushed' \in Seq(Char)
        BY <1>0, <2>1 DEF KeyboardInv, KeyboardTypeOK
    <2>5. n % Size \in 0 .. Size - 1 /\ (n + 1) % Size \in 0 .. Size - 1
        <3>1. n + 1 \in Nat
            BY <1>1
        <3> QED BY <1>1, <3>1, ModRange
    <2>6. ASSUME NEW i \in Nat, i < n, n < i + Size
          PROVE  keyboard_buffer'[i % Size] = keyboard_buffer[i % Size]
        <3>1. i % Size # n % Size
            BY <1>1, <2>6, ModApart
        <3>2. i % Size \in 0 .. Size - 1
            BY ModRange
        <3> QED BY <2>1, <3>1, <3>2 DEF KeyboardInv, KeyboardTypeOK
    <2>7. KeyboardTypeOK'
        BY <2>1, <2>4, <2>5 DEF KeyboardInv, KeyboardTypeOK
    <2>8. ASSUME NEW i \in Nat, Taken <= i, i < n + 1
          PROVE  keyboard_buffer'[i % Size] = pushed'[i + 1]
        <3>1. CASE i = n
            BY <2>1, <2>4, <2>5, <3>1 DEF KeyboardInv, KeyboardTypeOK
        <3>2. CASE i < n
            <4>1. keyboard_buffer[i % Size] = pushed[i + 1]
                BY <1>0, <2>8, <3>2 DEF KeyboardInv, RingInv
            <4>2. n < i + Size /\ i + 1 \in 1 .. n
                BY <1>1, <2>3, <2>8, <3>2
            <4>3. keyboard_buffer'[i % Size] = keyboard_buffer[i % Size]
                BY <2>6, <3>2, <4>2
            <4> QED BY <2>4, <4>1, <4>2, <4>3
        <3>3. i = n \/ i < n
            <4>1. n \in Nat
                BY <1>1
            <4> QED BY <2>8, <4>1
        <3> QED BY <3>1, <3>2, <3>3
    <2>9. RingInv'
        <3>1. Taken' <= n + 1
            BY <1>1
        <3> QED BY <1>1, <2>1, <2>3, <2>4, <2>8, <3>1 DEF RingInv
    <2>10. PopInv'
        <3>1. pc = "late" => keyboard_buffer'[Len(popped) % Size] = pushed'[Len(popped) + 1]
            <4>1. SUFFICES ASSUME pc = "late"
                  PROVE keyboard_buffer'[Len(popped) % Size] = pushed'[Len(popped) + 1]
                OBVIOUS
            <4>2. Taken = Len(popped) + 1
                BY <1>1, <4>1 DEF Taken
            <4>3. Len(popped) < n /\ n < Len(popped) + Size
                  /\ Len(popped) + 1 \in 1 .. n
                BY <1>1, <2>3, <4>2
            <4>4. keyboard_buffer'[Len(popped) % Size] = keyboard_buffer[Len(popped) % Size]
                BY <1>1, <2>6, <4>3
            <4> QED BY <2>4, <4>1, <4>3, <4>4 DEF KeyboardInv, PopInv
        <3>2. pc \in {"take", "advance"} => Taken < n
            BY <1>0 DEF KeyboardInv, PopInv
        <3>3. pc \in {"take", "advance"} => Taken = Len(popped)
            BY <1>1 DEF Taken
        <3> QED BY <1>1, <2>4, <3>1, <3>2, <3>3 DEF KeyboardInv, PopInv
    <2>11. PoppedInOrder'
        BY <1>0, <1>1, <2>4 DEF KeyboardInv, PoppedInOrder
    <2> QED BY <2>7, <2>9, <2>10, <2>11 DEF KeyboardInv
<1> QED BY <1>2, <1>3

\* An interrupt preserves the invariant wherever it falls.
LEMMA IrqInv == KeyboardInv /\ Irq1 => KeyboardInv'
<1> SUFFICES ASSUME KeyboardInv, Irq1 PROVE KeyboardInv'
    OBVIOUS
<1> USE KeyboardAssumption
<1>1. ASSUME Scancode, UNCHANGED <<ring, pushed>>,
             shift_pressed' \in {0, 1}, held' \subseteq Shifts
      PROVE  KeyboardInv'
    <2>1. UNCHANGED <<keyboard_buffer, keyboard_head, keyboard_tail, pushed, pc, c, text, popped>>
          /\ events' \in 0 .. MaxEvents
        BY <1>1 DEF Scancode, ring, KeyboardInv, KeyboardTypeOK
    <2>2. KeyboardTypeOK'
        BY <1>1, <2>1 DEF KeyboardInv, KeyboardTypeOK
    <2>3. RingInv' /\ PopInv' /\ PoppedInOrder'
        BY <2>1 DEF KeyboardInv, RingInv, PopInv, PoppedInOrder, Taken
    <2> QED BY <2>2, <2>3 DEF KeyboardInv
<1>2. ASSUME NEW s \in Shifts, NEW down \in BOOLEAN, Irq1Shift(s, down)
      PROVE  KeyboardInv'
    <2>1. held \subseteq Shifts
        BY DEF KeyboardInv, KeyboardTypeOK
    <2> QED BY <1>1, <1>2, <2>1 DEF Irq1Shift
<1>3. ASSUME NEW k \in Keys, Irq1Make(k)
      PROVE  KeyboardInv'
    <2>1. shift_pressed \in {0, 1} /\ held \subseteq Shifts
        BY DEF KeyboardInv, KeyboardTypeOK
    <2>2. CASE Ascii(k) = NUL
        BY <1>1, <1>3, <2>1, <2>2 DEF Irq1Make
    <2>3. CASE Ascii(k) # NUL
        <3>1. Ascii(k) \in Char
            BY <2>1, <2>3 DEF Ascii, Char
        <3>2. events' \in 0 .. MaxEvents /\ UNCHANGED <<pc, c, text, popped, shift_pressed, held>>
            BY <1>3 DEF Irq1Make, Scancode, KeyboardInv, KeyboardTypeOK
        <3>3. keyboard_push_char(Ascii(k))
            BY <1>3, <2>3 DEF Irq1Make
        <3> QED BY <3>1, <3>2, <3>3, PushInv
    <2> QED BY <2>2, <2>3
<1>4. ASSUME Irq1Break PROVE KeyboardInv'
    <2>1. shift_pressed \in {0, 1} /\ held \subseteq Shifts
        BY DEF KeyboardInv, KeyboardTypeOK
    <2> QED BY <1>1, <1>4, <2>1 DEF Irq1Break
<1> QED BY <1>2, <1>3, <1>4 DEF Irq1

\* What a pop gives back is the oldest character not yet given back.
LEMMA PopValue ==
    ASSUME KeyboardInv
    PROVE  /\ pc = "advance" => c = pushed[Len(popped) + 1]
           /\ pc = "late" => keyboard_buffer[(keyboard_tail + Size - 1) % Size]
                                = pushed[Len(popped) + 1]
           /\ pc \in {"advance", "late"} => /\ Len(popped) + 1 \in 1 .. Len(pushed)
                                            /\ pushed[Len(popped) + 1] \in Char
                                            /\ pushed[Len(popped) + 1] # NUL
<1> USE KeyboardAssumption
<1>1. Len(popped) \in Nat /\ Len(pushed) \in Nat /\ pushed \in Seq(Char)
    BY DEF KeyboardInv, KeyboardTypeOK
<1>2. pc \in {"advance", "late"} => Len(popped) + 1 \in 1 .. Len(pushed)
    BY <1>1 DEF KeyboardInv, RingInv, PopInv, Taken
<1>3. pc = "late" => (keyboard_tail + Size - 1) % Size = Len(popped) % Size
    <2>1. SUFFICES ASSUME pc = "late"
          PROVE (keyboard_tail + Size - 1) % Size = Len(popped) % Size
        OBVIOUS
    <2>2. keyboard_tail = (Len(popped) + 1) % Size
        BY <2>1 DEF KeyboardInv, RingInv, Taken
    <2> QED BY <1>1, <2>2, ModBack
<1> QED BY <1>1, <1>2, <1>3 DEF KeyboardInv, PopInv

\* The main loop's bookkeeping of a returned character.
LEMMA ReturnFacts ==
    ASSUME KeyboardInv, Return(pushed[Len(popped) + 1]), pc \in {"advance", "late"}
    PROVE  /\ pc' = "pop"
           /\ popped' = Append(popped, pushed[Len(popped) + 1])
           /\ text' \in Seq(Char) /\ popped' \in Seq(Char)
           /\ Len(popped') = Len(popped) + 1
           /\ \A i \in 1 .. Len(popped') : popped'[i] = pushed[i]
<1> USE KeyboardAssumption
<1>1. pushed[Len(popped) + 1] \in Char /\ pushed[Len(popped) + 1] # NUL
    BY PopValue
<1>2. pc' = "pop" /\ popped' = Append(popped, pushed[Len(popped) + 1])
      /\ text' = NkInput(text, pushed[Len(popped) + 1])
    BY <1>1 DEF Return
<1>3. text' \in Seq(Char)
    BY <1>1, <1>2 DEF NkInput, KeyboardInv, KeyboardTypeOK
<1>4. popped \in Seq(Char) /\ \A i \in 1 .. Len(popped) : popped[i] = pushed[i]
    BY DEF KeyboardInv, KeyboardTypeOK, PoppedInOrder
<1> QED BY <1>1, <1>2, <1>3, <1>4

\* Every step of the main loop preserves the invariant.
LEMMA MainLoopInv == KeyboardInv /\ MainLoop => KeyboardInv'
<1> SUFFICES ASSUME KeyboardInv, MainLoop PROVE KeyboardInv'
    OBVIOUS
<1> USE KeyboardAssumption
<1>0. Len(popped) \in Nat /\ Len(pushed) \in Nat /\ Taken \in Nat
    BY DEF KeyboardInv, KeyboardTypeOK, Taken
<1>1. CASE PopCheck
    <2>1. UNCHANGED <<keyboard_buffer, keyboard_head, keyboard_tail, c, text, popped,
                      shift_pressed, held, events, pushed>>
          /\ pc = "pop" /\ pc' \in {"frame", "take"}
          /\ (pc' = "take" => keyboard_head # keyboard_tail)
        BY <1>1 DEF PopCheck, Return, ring, untouched
    <2>2. Taken' = Taken /\ Taken = Len(popped)
        BY <1>0, <2>1 DEF Taken
    <2>3. pc' = "take" => Taken < Len(pushed)
        BY <1>0, <2>1 DEF KeyboardInv, RingInv
    <2>4. KeyboardTypeOK'
        BY <2>1 DEF KeyboardInv, KeyboardTypeOK
    <2>5. RingInv'
        BY <2>1, <2>2 DEF KeyboardInv, RingInv
    <2>6. PopInv' /\ PoppedInOrder'
        BY <2>1, <2>2, <2>3 DEF KeyboardInv, PopInv, PoppedInOrder
    <2> QED BY <2>4, <2>5, <2>6 DEF KeyboardInv
<1>2. CASE PopRead
    <2>1. UNCHANGED <<keyboard_buffer, keyboard_head, keyboard_tail, text, popped,
                      shift_pressed, held, events, pushed>>
          /\ pc = "take" /\ pc' = "advance" /\ c' = keyboard_buffer[keyboard_tail]
        BY <1>2 DEF PopRead, ring, untouched
    <2>2. Taken' = Taken /\ Taken = Len(popped)
        BY <1>0, <2>1 DEF Taken
    <2>3. Taken < Len(pushed) /\ c' = pushed[Len(popped) + 1]
        BY <1>0, <2>1, <2>2 DEF KeyboardInv, RingInv, PopInv
    <2>4. KeyboardTypeOK'
        BY <2>1 DEF KeyboardInv, KeyboardTypeOK
    <2>5. RingInv'
        BY <2>1, <2>2 DEF KeyboardInv, RingInv
    <2>6. PopInv' /\ PoppedInOrder'
        BY <2>1, <2>2, <2>3 DEF KeyboardInv, PopInv, PoppedInOrder
    <2> QED BY <2>4, <2>5, <2>6 DEF KeyboardInv
<1>3. CASE PopAdvance
    <2>1. UNCHANGED <<keyboard_buffer, keyboard_head, shift_pressed, held, events, pushed>>
          /\ pc = "advance" /\ c' = NUL /\ Return(pushed[Len(popped) + 1])
          /\ keyboard_tail' = (keyboard_tail + 1) % Size
        BY <1>3, PopValue DEF PopAdvance, untouched
    <2>2. pc' = "pop" /\ Len(popped') = Len(popped) + 1
          /\ text' \in Seq(Char) /\ popped' \in Seq(Char)
          /\ (\A i \in 1 .. Len(popped') : popped'[i] = pushed[i])
        BY <2>1, ReturnFacts
    <2>3. Taken = Len(popped) /\ Taken' = Len(popped) + 1 /\ Taken' = Taken + 1
        BY <1>0, <2>1, <2>2 DEF Taken
    <2>4. Taken < Len(pushed) /\ Len(pushed) <= Taken + Size - 1
        BY <2>1 DEF KeyboardInv, RingInv, PopInv
    <2>5. keyboard_tail' = (Taken + 1) % Size /\ (Taken + 1) % Size \in 0 .. Size - 1
        <3>1. keyboard_tail = Taken % Size
            BY DEF KeyboardInv, RingInv
        <3>2. Taken + 1 \in Nat
            BY <1>0
        <3> QED BY <1>0, <2>1, <3>1, <3>2, ModStep, ModRange
    <2>6. KeyboardTypeOK'
        BY <2>1, <2>2, <2>5 DEF KeyboardInv, KeyboardTypeOK
    <2>7. RingInv'
        <3>1. Taken' <= Len(pushed) /\ Len(pushed) <= Taken' + Size - 1
              /\ (\A i \in Nat : Taken' <= i => Taken <= i)
            BY <1>0, <2>3, <2>4
        <3> QED BY <2>1, <2>3, <2>5, <3>1 DEF KeyboardInv, RingInv
    <2>8. PopInv' /\ PoppedInOrder'
        BY <1>0, <2>1, <2>2, <2>3, <2>4 DEF KeyboardInv, PopInv, PoppedInOrder
    <2> QED BY <2>6, <2>7, <2>8 DEF KeyboardInv
<1>4. CASE PopAdvanceFirst
    <2>1. UNCHANGED <<keyboard_buffer, keyboard_head, c, text, popped, shift_pressed,
                      held, events, pushed>>
          /\ pc = "take" /\ pc' = "late" /\ keyboard_tail' = (keyboard_tail + 1) % Size
        BY <1>4 DEF PopAdvanceFirst, untouched
    <2>2. Taken = Len(popped) /\ Taken' = Taken + 1
        BY <1>0, <2>1 DEF Taken
    <2>3. Taken < Len(pushed) /\ Len(pushed) <= Taken + Size - 1
        BY <2>1 DEF KeyboardInv, RingInv, PopInv
    <2>4. keyboard_tail' = (Taken + 1) % Size /\ (Taken + 1) % Size \in 0 .. Size - 1
        <3>1. keyboard_tail = Taken % Size
            BY DEF KeyboardInv, RingInv
        <3>2. Taken + 1 \in Nat
            BY <1>0
        <3> QED BY <1>0, <2>1, <3>1, <3>2, ModStep, ModRange
    <2>5. KeyboardTypeOK'
        BY <2>1, <2>4 DEF KeyboardInv, KeyboardTypeOK
    <2>6. RingInv'
        <3>1. Taken' <= Len(pushed) /\ Len(pushed) <= Taken' + Size - 1
              /\ (\A i \in Nat : Taken' <= i => Taken <= i)
            BY <1>0, <2>2, <2>3
        <3> QED BY <2>1, <2>2, <2>4, <3>1 DEF KeyboardInv, RingInv
    <2>7. keyboard_buffer[Len(popped) % Size] = pushed[Len(popped) + 1]
        <3>1. Taken \in Nat /\ Taken <= Taken /\ Taken < Len(pushed)
            BY <1>0, <2>3
        <3>2. keyboard_buffer[Taken % Size] = pushed[Taken + 1]
            BY <3>1 DEF KeyboardInv, RingInv
        <3> QED BY <2>2, <3>2
    <2>8. PopInv' /\ PoppedInOrder'
        BY <2>1, <2>7 DEF KeyboardInv, PopInv, PoppedInOrder
    <2> QED BY <2>5, <2>6, <2>8 DEF KeyboardInv
<1>5. CASE PopReadLate
    <2>1. UNCHANGED <<keyboard_buffer, keyboard_head, keyboard_tail, c, shift_pressed,
                      held, events, pushed>>
          /\ pc = "late" /\ Return(pushed[Len(popped) + 1])
        BY <1>5, PopValue DEF PopReadLate, ring, untouched
    <2>2. pc' = "pop" /\ Len(popped') = Len(popped) + 1
          /\ text' \in Seq(Char) /\ popped' \in Seq(Char)
          /\ (\A i \in 1 .. Len(popped') : popped'[i] = pushed[i])
        BY <2>1, ReturnFacts
    <2>3. Taken' = Taken /\ Taken = Len(popped')
        BY <1>0, <2>1, <2>2 DEF Taken
    <2>4. KeyboardTypeOK'
        BY <2>1, <2>2 DEF KeyboardInv, KeyboardTypeOK
    <2>5. RingInv'
        BY <2>1, <2>3 DEF KeyboardInv, RingInv
    <2>6. PopInv' /\ PoppedInOrder'
        BY <1>0, <2>1, <2>2, <2>3 DEF KeyboardInv, RingInv, PopInv, PoppedInOrder
    <2> QED BY <2>4, <2>5, <2>6 DEF KeyboardInv
<1>6. CASE KeyboardFrame
    <2>1. UNCHANGED <<keyboard_buffer, keyboard_head, keyboard_tail, c, popped,
                      shift_pressed, held, events, pushed>>
          /\ pc = "frame" /\ pc' = "pop" /\ text' = <<>>
        BY <1>6 DEF KeyboardFrame, ring, untouched
    <2>2. Taken' = Taken
        BY <1>0, <2>1 DEF Taken
    <2> QED BY <2>1, <2>2 DEF KeyboardInv, KeyboardTypeOK, RingInv, PopInv, PoppedInOrder
<1> QED BY <1>1, <1>2, <1>3, <1>4, <1>5, <1>6 DEF MainLoop

\* The invariant holds in every reachable state, for every ring size and
\* every placement of IRQ 1 inside keyboard_pop_char.
THEOREM KeyboardInvariance == KeyboardSpec => []KeyboardInv
<1>1. KeyboardInit => KeyboardInv
    BY KeyboardInitInv
<1>2. KeyboardInv /\ [KeyboardNext]_keyboardVars => KeyboardInv'
    <2> SUFFICES ASSUME KeyboardInv, [KeyboardNext]_keyboardVars PROVE KeyboardInv'
        OBVIOUS
    <2>1. CASE KeyboardNext
        BY <2>1, IrqInv, MainLoopInv DEF KeyboardNext
    <2>2. CASE UNCHANGED keyboardVars
        BY <2>2 DEF keyboardVars, ring, KeyboardInv, KeyboardTypeOK, RingInv, PopInv, PoppedInOrder, Taken
    <2> QED BY <2>1, <2>2
<1> QED BY <1>1, <1>2, PTL DEF KeyboardSpec

\* No interleaving loses, repeats or reorders an accepted character.
THEOREM PoppedInOrderAlways == KeyboardSpec => []PoppedInOrder
<1>1. KeyboardInv => PoppedInOrder
    BY DEF KeyboardInv
<1> QED BY <1>1, KeyboardInvariance, PTL

\* The pop loop of the main loop ends only on an empty ring: no stored
\* character is NUL.
THEOREM DrainCompleteAlways == KeyboardSpec => DrainComplete
<1>1. KeyboardInv /\ [KeyboardNext]_keyboardVars => [pc # "frame" /\ pc' = "frame" => popped = pushed]_keyboardVars
    <2> SUFFICES ASSUME KeyboardInv, KeyboardNext, pc # "frame", pc' = "frame"
                 PROVE  popped = pushed
        BY DEF keyboardVars
    <2> USE KeyboardAssumption
    <2>1. ~ Irq1
        BY DEF Irq1, Irq1Shift, Irq1Make, Irq1Break, Scancode
    <2>2. ~ PopRead /\ ~ PopAdvanceFirst /\ ~ KeyboardFrame
        BY DEF PopRead, PopAdvanceFirst, KeyboardFrame
    <2>3. ~ PopAdvance /\ ~ PopReadLate
        <3>1. ASSUME PopAdvance PROVE FALSE
            <4>1. pc = "advance" /\ Return(pushed[Len(popped) + 1])
                BY <3>1, PopValue DEF PopAdvance
            <4> QED BY <4>1, ReturnFacts
        <3>2. ASSUME PopReadLate PROVE FALSE
            <4>1. pc = "late" /\ Return(pushed[Len(popped) + 1])
                BY <3>2, PopValue DEF PopReadLate
            <4> QED BY <4>1, ReturnFacts
        <3> QED BY <3>1, <3>2
    <2>4. pc = "pop" /\ keyboard_head = keyboard_tail
        BY <2>1, <2>2, <2>3 DEF KeyboardNext, MainLoop, PopCheck, Return
    <2>5. Len(popped) \in Nat /\ Len(pushed) \in Nat /\ Taken = Len(popped)
        BY <2>4 DEF KeyboardInv, KeyboardTypeOK, Taken
    <2>6. Len(pushed) = Len(popped)
        <3>1. SUFFICES ASSUME Len(popped) < Len(pushed) PROVE FALSE
            BY <2>5 DEF KeyboardInv, PoppedInOrder
        <3>2. Len(pushed) < Len(popped) + Size
            BY <2>5 DEF KeyboardInv, RingInv
        <3> QED BY <2>4, <2>5, <3>1, <3>2, ModApart DEF KeyboardInv, RingInv
    <2> QED BY <2>6 DEF KeyboardInv, KeyboardTypeOK, PoppedInOrder
<1> QED BY <1>1, KeyboardInvariance, PTL DEF KeyboardSpec, DrainComplete

\* A character is refused only by a ring with Size - 1 characters waiting.
THEOREM DropOnlyWhenFullAlways == KeyboardSpec => DropOnlyWhenFull
<1>1. KeyboardInv /\ [KeyboardNext]_keyboardVars
        => [(\E k \in Keys \ Dead : Irq1Make(k)) /\ pushed' = pushed
              => Len(pushed) - Len(popped) >= Size - 1]_keyboardVars
    <2> SUFFICES ASSUME KeyboardInv, NEW k \in Keys \ Dead, Irq1Make(k), pushed' = pushed
                 PROVE  Len(pushed) - Len(popped) >= Size - 1
        OBVIOUS
    <2> USE KeyboardAssumption
    <2>1. Len(popped) \in Nat /\ Len(pushed) \in Nat /\ Taken \in Nat /\ Taken >= Len(popped)
          /\ pushed \in Seq(Char)
        BY DEF KeyboardInv, KeyboardTypeOK, Taken
    <2>2. Ascii(k) \in Char /\ Ascii(k) # NUL
        BY DEF Ascii, Char, KeyboardInv, KeyboardTypeOK
    <2>3. (keyboard_head + 1) % Size = keyboard_tail
        <3>1. Append(pushed, Ascii(k)) # pushed
            <4>1. Len(Append(pushed, Ascii(k))) = Len(pushed) + 1
                BY <2>1, <2>2
            <4> QED BY <2>1, <4>1
        <3> QED BY <2>2, <3>1 DEF Irq1Make, keyboard_push_char
    <2>4. (Len(pushed) + 1) % Size = Taken % Size
        BY <2>1, <2>3, ModStep DEF KeyboardInv, RingInv
    <2>5. Taken <= Len(pushed)
        BY DEF KeyboardInv, RingInv
    <2>6. Len(pushed) + 1 >= Taken + Size
        <3>1. Len(pushed) + 1 \in Nat /\ Taken < Len(pushed) + 1
            BY <2>1, <2>5
        <3> QED BY <2>1, <2>4, <3>1, ModApart
    <2> QED BY <2>1, <2>6
<1> QED BY <1>1, KeyboardInvariance, PTL DEF KeyboardSpec, DropOnlyWhenFull

\* The ring with its interrupts implements the queue of CharFifo: a push is a
\* Put, the step that hands a character to the main loop is a Get.
THEOREM Implements == KeyboardSpec => ImplementsFifo
<1>1. KeyboardInit => Fifo!Init
    BY DEF KeyboardInit, Fifo!Init
<1>2. KeyboardInv /\ [KeyboardNext]_keyboardVars => [Fifo!Next]_<<pushed, popped>>
    <2> SUFFICES ASSUME KeyboardInv, [KeyboardNext]_keyboardVars PROVE [Fifo!Next]_<<pushed, popped>>
        OBVIOUS
    <2> USE KeyboardAssumption
    <2>0. Len(popped) \in Nat /\ Len(pushed) \in Nat
        BY DEF KeyboardInv, KeyboardTypeOK
    <2>1. ASSUME NEW k \in Keys, Irq1Make(k)
          PROVE  [Fifo!Next]_<<pushed, popped>>
        <3>1. CASE pushed' = pushed
            BY <2>1, <3>1 DEF Irq1Make, Scancode
        <3>2. CASE pushed' # pushed
            <4>1. Ascii(k) \in Char /\ pushed' = Append(pushed, Ascii(k))
                  /\ (keyboard_head + 1) % Size # keyboard_tail /\ popped' = popped
                BY <2>1, <3>2 DEF Irq1Make, keyboard_push_char, Ascii, Scancode, Char,
                                  KeyboardInv, KeyboardTypeOK
            <4>2. Len(pushed) - Len(popped) < Size
                <5>1. Len(pushed) <= Taken + Size - 1 /\ Taken <= Len(popped) + 1
                      /\ Taken \in Nat
                    BY <2>0 DEF KeyboardInv, RingInv, Taken
                <5>2. Len(pushed) + 1 # Taken + Size
                    <6>1. SUFFICES ASSUME Len(pushed) + 1 = Taken + Size PROVE FALSE
                        OBVIOUS
                    <6>2. (Len(pushed) + 1) % Size = Taken % Size
                        BY <5>1, <6>1, ModTurn
                    <6> QED BY <2>0, <4>1, <6>2, ModStep DEF KeyboardInv, RingInv
                <5> QED BY <2>0, <5>1, <5>2
            <4> QED BY <4>1, <4>2 DEF Fifo!Next, Fifo!Put
        <3> QED BY <3>1, <3>2
    <2>2. ASSUME Return(pushed[Len(popped) + 1]), pc \in {"advance", "late"}, pushed' = pushed
          PROVE  [Fifo!Next]_<<pushed, popped>>
        <3>1. Len(popped) < Len(pushed)
            BY <2>0, <2>2, PopValue
        <3> QED BY <2>2, <3>1, ReturnFacts DEF Fifo!Next, Fifo!Get
    <2>3. CASE PopAdvance
        BY <2>2, <2>3, PopValue DEF PopAdvance, untouched
    <2>4. CASE PopReadLate
        BY <2>2, <2>4, PopValue DEF PopReadLate, untouched
    <2>5. ASSUME PopCheck \/ PopRead \/ PopAdvanceFirst \/ KeyboardFrame \/ Irq1Break
                 \/ (\E s \in Shifts, down \in BOOLEAN : Irq1Shift(s, down))
                 \/ UNCHANGED keyboardVars
          PROVE  [Fifo!Next]_<<pushed, popped>>
        BY <2>5 DEF PopCheck, Return, PopRead, PopAdvanceFirst, KeyboardFrame, Irq1Break, Irq1Shift,
                    Scancode, keyboardVars, untouched
    <2> QED BY <2>1, <2>3, <2>4, <2>5 DEF KeyboardNext, Irq1, MainLoop
<1> QED BY <1>1, <1>2, KeyboardInvariance, PTL DEF KeyboardSpec, ImplementsFifo, Fifo!Spec

-----------------------------------------------------------------------------
(* The desktop, for every number of applications, paths and documents,     *)
(* every delay and every point at which the tick counter wraps: the types, *)
(* the reason for the spinner, and the path and the text that a delayed    *)
(* operation uses.                                                         *)

\* TypeOK in parts: numbers, flags, the applications and the data.
Numbers ==
    /\ timer_ticks \in 0 .. Wrap - 1 /\ pending_app_start_tick \in 0 .. Wrap - 1
    /\ file_op_start_tick \in 0 .. Wrap - 1
    /\ file_op_state \in 0 .. 2 /\ alert_state \in 0 .. 2
    /\ elapsed \in {0, 1}

Flags ==
    /\ ani_active \in BOOLEAN /\ start_menu_open \in BOOLEAN
    /\ show_open_dialog \in BOOLEAN /\ show_save_dialog \in BOOLEAN
    /\ clicked \in BOOLEAN
    /\ phase \in {"launch", "shell", "delay", "window"}

Windows ==
    /\ active \in [Apps -> BOOLEAN] /\ minimized \in [Apps -> BOOLEAN]
    /\ pending_app_launch \in Apps \cup {NoApp}

Contents ==
    /\ text_buffer \in Text /\ text_buffer.len <= MaxText - 1
    /\ text_len \in Nat
    /\ filepath_buffer \in Paths /\ confirmed \in Paths
    /\ files \in [Paths -> Text \cup {Absent}]

\* A dialog is never open while an operation is pending: this is what keeps
\* the path field out of reach.
Busy == file_op_state # 0 => ~show_open_dialog /\ ~show_save_dialog

Types == Numbers /\ Flags /\ Windows /\ Contents
DesktopInv == Types /\ Busy /\ PathIsConfirmed /\ SpinnerHasReason

\* The parts make up TypeOK.
LEMMA TypesIsTypeOK == TypeOK <=> Types
BY DEF TypeOK, Types, Numbers, Flags, Windows, Contents

\* A text cut short is a text that is no longer than asked for.
LEMMA CutType ==
    ASSUME NEW t \in Text, NEW n \in Nat
    PROVE  Cut(t, n) \in Text /\ Cut(t, n).len <= n
BY DEF Cut, Text

\* Every step keeps the numbers.
LEMMA NumbersStep == Numbers /\ [Next]_vars => Numbers'
<1> SUFFICES ASSUME Numbers, [Next]_vars PROVE Numbers'
    OBVIOUS
<1> USE SpinnerAssumption, NaoEditAssumption DEF Numbers
<1>1. CASE Tick
    BY <1>1 DEF Tick, shell, edit, dialogs
<1>2. CASE LaunchPhase
    BY <1>2 DEF LaunchPhase, LaunchHandler, Launch, ani_play, ani_stop, shell, edit,
       dialogs
<1>3. CASE ShellPhase
    BY <1>3 DEF ShellPhase, StartButton, TaskButton, MenuButton, CloseButton, shell,
       edit, dialogs
<1>4. CASE DelayPhase
    BY <1>4 DEF DelayPhase, DelayHandler, execute_actual_open, execute_actual_save,
       ani_stop, edit, dialogs, shell
<1>5. CASE WindowPhase
    <2>10. /\ elapsed' = 0
           /\ UNCHANGED <<timer_ticks, minimized, pending_app_launch,
                          pending_app_start_tick, start_menu_open, clicked>>
        BY <1>5 DEF WindowPhase, shell
    <2>11. CASE OpenItem
        BY <2>10, <2>11 DEF OpenItem, EditArea, ani_play, ani_stop, edit, dialogs
    <2>12. CASE SaveItem
        BY <2>10, <2>12 DEF SaveItem, EditArea, ani_play, ani_stop, edit, dialogs
    <2>13. CASE DialogOk
        BY <2>10, <2>13 DEF DialogOk, EditArea, ani_play, ani_stop, edit, dialogs
    <2>14. CASE DialogCancel
        BY <2>10, <2>14 DEF DialogCancel, EditArea, ani_play, ani_stop, edit, dialogs
    <2>15. CASE AlertOk
        BY <2>10, <2>15 DEF AlertOk, EditArea, ani_play, ani_stop, edit, dialogs
    <2>16. CASE \E p \in Paths : TypePath(p)
        BY <2>10, <2>16 DEF TypePath, EditArea, ani_play, ani_stop, edit, dialogs
    <2>17. CASE \E d \in Docs, n \in Sizes : TypeText([of |-> d, len |-> n])
        BY <2>10, <2>17 DEF TypeText, EditArea, ani_play, ani_stop, edit, dialogs
    <2>18. CASE CloseEditor
        BY <2>10, <2>18 DEF CloseEditor, EditArea, ani_play, ani_stop, edit, dialogs
    <2>19. CASE TypeText(text_buffer)
        BY <2>10, <2>19 DEF TypeText, EditArea, ani_play, ani_stop, edit, dialogs
    <2>20. CASE UNCHANGED <<edit, ani_active, active>>
        BY <2>10, <2>20 DEF edit, dialogs
    <2> QED BY <1>5, <2>11, <2>12, <2>13, <2>14, <2>15, <2>16, <2>17, <2>18, <2>19,
       <2>20 DEF WindowPhase
<1>6. CASE UNCHANGED vars
    BY <1>6 DEF vars, shell, edit, dialogs
<1> QED BY <1>1, <1>2, <1>3, <1>4, <1>5, <1>6 DEF Next, Frame

\* Every step keeps the flags.
LEMMA FlagsStep == Flags /\ [Next]_vars => Flags'
<1> SUFFICES ASSUME Flags, [Next]_vars PROVE Flags'
    OBVIOUS
<1> USE SpinnerAssumption DEF Flags
<1>1. CASE Tick
    BY <1>1 DEF Tick, shell, edit, dialogs
<1>2. CASE LaunchPhase
    BY <1>2 DEF LaunchPhase, LaunchHandler, Launch, ani_play, ani_stop, shell, edit,
       dialogs
<1>3. CASE ShellPhase
    BY <1>3 DEF ShellPhase, StartButton, TaskButton, MenuButton, CloseButton, shell,
       edit, dialogs
<1>4. CASE DelayPhase
    BY <1>4 DEF DelayPhase, DelayHandler, execute_actual_open, execute_actual_save,
       ani_stop, edit, dialogs, shell
<1>5. CASE WindowPhase
    BY <1>5 DEF WindowPhase, OpenItem, SaveItem, DialogOk, DialogCancel, AlertOk,
       TypePath, TypeText, CloseEditor, EditArea, ani_play, ani_stop, edit, dialogs,
       shell
<1>6. CASE UNCHANGED vars
    BY <1>6 DEF vars, shell, edit, dialogs
<1> QED BY <1>1, <1>2, <1>3, <1>4, <1>5, <1>6 DEF Next, Frame

\* Every step keeps the applications' states.
LEMMA WindowsStep == Windows /\ [Next]_vars => Windows'
<1> SUFFICES ASSUME Windows, [Next]_vars PROVE Windows'
    OBVIOUS
<1> USE DEF Windows
<1>1. CASE Tick
    BY <1>1 DEF Tick, shell, edit, dialogs
<1>2. CASE LaunchPhase
    BY <1>2 DEF LaunchPhase, LaunchHandler, Launch, ani_play, ani_stop, shell, edit,
       dialogs
<1>3. CASE ShellPhase
    BY <1>3 DEF ShellPhase, StartButton, TaskButton, MenuButton, CloseButton, shell,
       edit, dialogs
<1>4. CASE DelayPhase
    BY <1>4 DEF DelayPhase, DelayHandler, execute_actual_open, execute_actual_save,
       ani_stop, edit, dialogs, shell
<1>5. CASE WindowPhase
    BY <1>5 DEF WindowPhase, OpenItem, SaveItem, DialogOk, DialogCancel, AlertOk,
       TypePath, TypeText, CloseEditor, EditArea, ani_play, ani_stop, edit, dialogs,
       shell
<1>6. CASE UNCHANGED vars
    BY <1>6 DEF vars, shell, edit, dialogs
<1> QED BY <1>1, <1>2, <1>3, <1>4, <1>5, <1>6 DEF Next, Frame

\* Every step keeps the texts and the files.
LEMMA ContentsStep == Contents /\ [Next]_vars => Contents'
<1> SUFFICES ASSUME Contents, [Next]_vars PROVE Contents'
    OBVIOUS
<1> USE NaoEditAssumption DEF Contents
<1>1. CASE Tick
    BY <1>1 DEF Tick, shell, edit, dialogs
<1>2. CASE LaunchPhase
    BY <1>2 DEF LaunchPhase, LaunchHandler, Launch, ani_play, ani_stop, shell, edit,
       dialogs
<1>3. CASE ShellPhase
    BY <1>3 DEF ShellPhase, StartButton, TaskButton, MenuButton, CloseButton, shell,
       edit, dialogs
<1>4. CASE DelayPhase
    <2>1. CASE ~(Rendered /\ file_op_state # 0 /\ Since(timer_ticks,
       file_op_start_tick) >= OpDelay)
        BY <1>4, <2>1 DEF DelayPhase, DelayHandler, edit, dialogs
    <2>2. CASE Rendered /\ file_op_state # 0 /\ Since(timer_ticks, file_op_start_tick)
       >= OpDelay
        <3>1. MaxText - 1 \in Nat
            BY NaoEditAssumption
        <3>2. UNCHANGED <<filepath_buffer, confirmed>>
            BY <1>4, <2>2 DEF DelayPhase, DelayHandler
        <3>3. CASE execute_actual_open(filepath_buffer)
            <4>1. files[filepath_buffer] # Absent =>
                    /\ Cut(files[filepath_buffer], MaxText - 1) \in Text
                    /\ Cut(files[filepath_buffer], MaxText - 1).len <= MaxText - 1
                BY <3>1, CutType
            <4> QED BY <3>2, <3>3, <4>1 DEF execute_actual_open, Text
        <3>4. CASE execute_actual_save(filepath_buffer)
            <4>1. \A n \in Nat : Cut(text_buffer, n) \in Text
                BY CutType
            <4>2. \A n \in 0 .. text_len : n \in Nat
                OBVIOUS
            <4> QED BY <3>2, <3>4, <4>1, <4>2 DEF execute_actual_save
        <3> QED BY <1>4, <2>2, <3>3, <3>4 DEF DelayPhase, DelayHandler
    <2> QED BY <2>1, <2>2
<1>5. CASE WindowPhase
    <2>1. \A t \in Text : /\ Cut(t, MaxText - 2) \in Text
                          /\ Cut(t, MaxText - 2).len <= MaxText - 1
                          /\ Cut(t, MaxText - 2).len \in Nat
        <3>1. MaxText - 2 \in Nat /\ MaxText - 1 \in Nat
            BY NaoEditAssumption
        <3>2. \A t \in Text : Cut(t, MaxText - 2) \in Text /\ Cut(t, MaxText - 2).len
           <= MaxText - 2
            BY <3>1, CutType
        <3> QED BY <3>1, <3>2, NaoEditAssumption DEF Text
    <2>10. /\ elapsed' = 0
           /\ UNCHANGED <<timer_ticks, minimized, pending_app_launch,
                          pending_app_start_tick, start_menu_open, clicked>>
        BY <1>5 DEF WindowPhase, shell
    <2>11. CASE OpenItem
        BY <2>10, <2>11, <2>1 DEF OpenItem, EditArea, ani_play, ani_stop, edit, dialogs
    <2>12. CASE SaveItem
        BY <2>10, <2>12, <2>1 DEF SaveItem, EditArea, ani_play, ani_stop, edit, dialogs
    <2>13. CASE DialogOk
        BY <2>10, <2>13, <2>1 DEF DialogOk, EditArea, ani_play, ani_stop, edit, dialogs
    <2>14. CASE DialogCancel
        BY <2>10, <2>14, <2>1 DEF DialogCancel, EditArea, ani_play, ani_stop, edit,
           dialogs
    <2>15. CASE AlertOk
        BY <2>10, <2>15, <2>1 DEF AlertOk, EditArea, ani_play, ani_stop, edit, dialogs
    <2>16. CASE \E p \in Paths : TypePath(p)
        BY <2>10, <2>16, <2>1 DEF TypePath, EditArea, ani_play, ani_stop, edit, dialogs
    <2>17. CASE \E d \in Docs, n \in Sizes : TypeText([of |-> d, len |-> n])
        <3>1. PICK d \in Docs, n \in Sizes : TypeText([of |-> d, len |-> n])
            BY <2>17
        <3>2. [of |-> d, len |-> n] \in Text
            BY NaoEditAssumption DEF Text
        <3> QED BY <2>10, <3>1, <3>2, <2>1 DEF TypeText, EditArea, dialogs
    <2>18. CASE CloseEditor
        BY <2>10, <2>18, <2>1 DEF CloseEditor, EditArea, ani_play, ani_stop, edit,
           dialogs
    <2>19. CASE TypeText(text_buffer)
        BY <2>10, <2>19, <2>1 DEF TypeText, EditArea, ani_play, ani_stop, edit, dialogs
    <2>20. CASE UNCHANGED <<edit, ani_active, active>>
        BY <2>10, <2>20, <2>1 DEF edit, dialogs
    <2> QED BY <1>5, <2>11, <2>12, <2>13, <2>14, <2>15, <2>16, <2>17, <2>18, <2>19,
       <2>20 DEF WindowPhase
<1>6. CASE UNCHANGED vars
    BY <1>6 DEF vars, shell, edit, dialogs
<1> QED BY <1>1, <1>2, <1>3, <1>4, <1>5, <1>6 DEF Next, Frame

\* No dialog opens while an operation is pending.
LEMMA BusyStep == Busy /\ [Next]_vars => Busy'
<1> SUFFICES ASSUME Busy, [Next]_vars PROVE Busy'
    OBVIOUS
<1> USE DEF Busy
<1>1. CASE Tick
    BY <1>1 DEF Tick, shell, edit, dialogs
<1>2. CASE LaunchPhase
    BY <1>2 DEF LaunchPhase, LaunchHandler, Launch, ani_play, ani_stop, shell, edit,
       dialogs
<1>3. CASE ShellPhase
    BY <1>3 DEF ShellPhase, StartButton, TaskButton, MenuButton, CloseButton, shell,
       edit, dialogs
<1>4. CASE DelayPhase
    BY <1>4 DEF DelayPhase, DelayHandler, execute_actual_open, execute_actual_save,
       ani_stop, edit, dialogs, shell
<1>5. CASE WindowPhase
    BY <1>5 DEF WindowPhase, OpenItem, SaveItem, DialogOk, DialogCancel, AlertOk,
       TypePath, TypeText, CloseEditor, EditArea, ani_play, ani_stop, edit, dialogs,
       shell
<1>6. CASE UNCHANGED vars
    BY <1>6 DEF vars, shell, edit, dialogs
<1> QED BY <1>1, <1>2, <1>3, <1>4, <1>5, <1>6 DEF Next, Frame

\* The path of a pending operation stays as it was confirmed.
LEMMA PathStep == Busy /\ PathIsConfirmed /\ [Next]_vars => PathIsConfirmed'
<1> SUFFICES ASSUME Busy, PathIsConfirmed, [Next]_vars PROVE PathIsConfirmed'
    OBVIOUS
<1> USE DEF Busy, PathIsConfirmed
<1>1. CASE Tick
    BY <1>1 DEF Tick, shell, edit, dialogs
<1>2. CASE LaunchPhase
    BY <1>2 DEF LaunchPhase, LaunchHandler, Launch, ani_play, ani_stop, shell, edit,
       dialogs
<1>3. CASE ShellPhase
    BY <1>3 DEF ShellPhase, StartButton, TaskButton, MenuButton, CloseButton, shell,
       edit, dialogs
<1>4. CASE DelayPhase
    BY <1>4 DEF DelayPhase, DelayHandler, execute_actual_open, execute_actual_save,
       ani_stop, edit, dialogs, shell
<1>5. CASE WindowPhase
    <2>10. /\ elapsed' = 0
           /\ UNCHANGED <<timer_ticks, minimized, pending_app_launch,
                          pending_app_start_tick, start_menu_open, clicked>>
        BY <1>5 DEF WindowPhase, shell
    <2>11. CASE OpenItem
        BY <2>10, <2>11 DEF OpenItem, EditArea, ani_play, ani_stop, edit, dialogs
    <2>12. CASE SaveItem
        BY <2>10, <2>12 DEF SaveItem, EditArea, ani_play, ani_stop, edit, dialogs
    <2>13. CASE DialogOk
        BY <2>10, <2>13 DEF DialogOk, EditArea, ani_play, ani_stop, edit, dialogs
    <2>14. CASE DialogCancel
        BY <2>10, <2>14 DEF DialogCancel, EditArea, ani_play, ani_stop, edit, dialogs
    <2>15. CASE AlertOk
        BY <2>10, <2>15 DEF AlertOk, EditArea, ani_play, ani_stop, edit, dialogs
    <2>16. CASE \E p \in Paths : TypePath(p)
        BY <2>10, <2>16 DEF TypePath, EditArea, ani_play, ani_stop, edit, dialogs
    <2>17. CASE \E d \in Docs, n \in Sizes : TypeText([of |-> d, len |-> n])
        BY <2>10, <2>17 DEF TypeText, EditArea, ani_play, ani_stop, edit, dialogs
    <2>18. CASE CloseEditor
        BY <2>10, <2>18 DEF CloseEditor, EditArea, ani_play, ani_stop, edit, dialogs
    <2>19. CASE TypeText(text_buffer)
        BY <2>10, <2>19 DEF TypeText, EditArea, ani_play, ani_stop, edit, dialogs
    <2>20. CASE UNCHANGED <<edit, ani_active, active>>
        BY <2>10, <2>20 DEF edit, dialogs
    <2> QED BY <1>5, <2>11, <2>12, <2>13, <2>14, <2>15, <2>16, <2>17, <2>18, <2>19,
       <2>20 DEF WindowPhase
<1>6. CASE UNCHANGED vars
    BY <1>6 DEF vars, shell, edit, dialogs
<1> QED BY <1>1, <1>2, <1>3, <1>4, <1>5, <1>6 DEF Next, Frame

\* The spinner loses its last reason only when it is stopped.
LEMMA SpinnerStep == SpinnerHasReason /\ [Next]_vars => SpinnerHasReason'
<1> SUFFICES ASSUME SpinnerHasReason, [Next]_vars PROVE SpinnerHasReason'
    OBVIOUS
<1> USE ShellAssumption DEF SpinnerHasReason
<1>1. CASE Tick
    BY <1>1 DEF Tick, shell, edit, dialogs
<1>2. CASE LaunchPhase
    BY <1>2 DEF LaunchPhase, LaunchHandler, Launch, ani_play, ani_stop, shell, edit,
       dialogs
<1>3. CASE ShellPhase
    BY <1>3 DEF ShellPhase, StartButton, TaskButton, MenuButton, CloseButton, shell,
       edit, dialogs
<1>4. CASE DelayPhase
    BY <1>4 DEF DelayPhase, DelayHandler, execute_actual_open, execute_actual_save,
       ani_stop, edit, dialogs, shell
<1>5. CASE WindowPhase
    <2>10. /\ elapsed' = 0
           /\ UNCHANGED <<timer_ticks, minimized, pending_app_launch,
                          pending_app_start_tick, start_menu_open, clicked>>
        BY <1>5 DEF WindowPhase, shell
    <2>11. CASE OpenItem
        BY <2>10, <2>11 DEF OpenItem, EditArea, ani_play, ani_stop, edit, dialogs
    <2>12. CASE SaveItem
        BY <2>10, <2>12 DEF SaveItem, EditArea, ani_play, ani_stop, edit, dialogs
    <2>13. CASE DialogOk
        <3>1. file_op_state' # 0
            BY <2>13 DEF DialogOk
        <3> QED BY <3>1
    <2>14. CASE DialogCancel
        BY <2>10, <2>14 DEF DialogCancel, EditArea, ani_play, ani_stop, edit, dialogs
    <2>15. CASE AlertOk
        BY <2>10, <2>15 DEF AlertOk, EditArea, ani_play, ani_stop, edit, dialogs
    <2>16. CASE \E p \in Paths : TypePath(p)
        BY <2>10, <2>16 DEF TypePath, EditArea, ani_play, ani_stop, edit, dialogs
    <2>17. CASE \E d \in Docs, n \in Sizes : TypeText([of |-> d, len |-> n])
        BY <2>10, <2>17 DEF TypeText, EditArea, ani_play, ani_stop, edit, dialogs
    <2>18. CASE CloseEditor
        BY <2>10, <2>18 DEF CloseEditor, EditArea, ani_play, ani_stop, edit, dialogs
    <2>19. CASE TypeText(text_buffer)
        BY <2>10, <2>19 DEF TypeText, EditArea, ani_play, ani_stop, edit, dialogs
    <2>20. CASE UNCHANGED <<edit, ani_active, active>>
        BY <2>10, <2>20 DEF edit, dialogs
    <2> QED BY <1>5, <2>11, <2>12, <2>13, <2>14, <2>15, <2>16, <2>17, <2>18, <2>19,
       <2>20 DEF WindowPhase
<1>6. CASE UNCHANGED vars
    BY <1>6 DEF vars, shell, edit, dialogs
<1> QED BY <1>1, <1>2, <1>3, <1>4, <1>5, <1>6 DEF Next, Frame

\* The invariant holds initially.
LEMMA InitInv == Init => DesktopInv
<1> SUFFICES ASSUME Init PROVE DesktopInv
    OBVIOUS
<1> USE DEF Init, ShellInit, EditInit
<1>1. Numbers
    BY SpinnerAssumption, NaoEditAssumption DEF Numbers
<1>2. Flags /\ Windows
    BY DEF Flags, Windows
<1>3. Contents
    <2>1. text_buffer \in Text /\ text_buffer.len \in 1 .. MaxText - 2
        BY DEF Text
    <2>2. text_len \in Nat /\ text_buffer.len <= MaxText - 1
        BY <2>1, NaoEditAssumption
    <2>3. files \in [Paths -> Text \cup {Absent}]
        BY NaoEditAssumption DEF Text
    <2> QED BY <2>1, <2>2, <2>3 DEF Contents
<1>4. Busy /\ PathIsConfirmed /\ SpinnerHasReason
    BY DEF Busy, PathIsConfirmed, SpinnerHasReason
<1> QED BY <1>1, <1>2, <1>3, <1>4 DEF DesktopInv, Types

\* The invariant holds in every reachable state.
THEOREM Invariance == Spec => []DesktopInv
<1>1. DesktopInv /\ [Next]_vars => DesktopInv'
    BY NumbersStep, FlagsStep, WindowsStep, ContentsStep, BusyStep, PathStep,
       SpinnerStep DEF DesktopInv, Types
<1> QED BY InitInv, <1>1, PTL DEF Spec

\* The types hold in every reachable state.
THEOREM TypeOKAlways == Spec => []TypeOK
<1>1. DesktopInv => TypeOK
    BY TypesIsTypeOK DEF DesktopInv
<1> QED BY <1>1, Invariance, PTL

\* The cursor spins only for something that is pending.
THEOREM SpinnerHasReasonAlways == Spec => []SpinnerHasReason
<1>1. DesktopInv => SpinnerHasReason
    BY DEF DesktopInv
<1> QED BY <1>1, Invariance, PTL

\* render_naoedit carries an operation out on the path that was confirmed.
THEOREM PathIsConfirmedAlways == Spec => []PathIsConfirmed
<1>1. DesktopInv => PathIsConfirmed
    BY DEF DesktopInv
<1> QED BY <1>1, Invariance, PTL

\* No file changes but by a confirmed save, and then only the confirmed one.
THEOREM OnlyConfirmedSavesAlways == Spec => OnlyConfirmedSaves
<1>1. ASSUME DesktopInv, [Next]_vars, NEW p \in Paths, files'[p] # files[p]
      PROVE  file_op_state = 2 /\ p = confirmed
    <2>1. CASE DelayPhase
        <3>1. file_op_state # 0 /\ file_op_state # 1 /\
           execute_actual_save(filepath_buffer)
            BY <1>1, <2>1 DEF DelayPhase, DelayHandler, execute_actual_open, edit
        <3>2. file_op_state = 2 /\ filepath_buffer = confirmed
            <4>1. file_op_state \in 0 .. 2 /\ filepath_buffer = confirmed
                BY <1>1, <3>1 DEF DesktopInv, Types, Numbers, PathIsConfirmed
            <4>2. file_op_state # 0 /\ file_op_state # 1
                BY <3>1
            <4> QED BY <4>1, <4>2
        <3>3. p = filepath_buffer
            BY <1>1, <3>1 DEF execute_actual_save, DesktopInv, Types, Contents
        <3> QED BY <3>2, <3>3
    <2>2. UNCHANGED files => FALSE
        BY <1>1
    <2>3. CASE Tick \/ LaunchPhase \/ ShellPhase
        BY <2>2, <2>3 DEF Tick, LaunchPhase, ShellPhase, edit
    <2>4. CASE WindowPhase
        BY <2>2, <2>4 DEF WindowPhase, OpenItem, SaveItem, DialogOk, DialogCancel,
           AlertOk, TypePath, TypeText, CloseEditor, edit
    <2>5. CASE UNCHANGED vars
        BY <2>2, <2>5 DEF vars, edit
    <2> QED BY <1>1, <2>1, <2>3, <2>4, <2>5 DEF Next, Frame
<1>2. DesktopInv /\ [Next]_vars
        => [\A p \in Paths : files'[p] # files[p] => file_op_state = 2 /\ p = confirmed]_vars
    BY <1>1
<1> QED BY <1>2, Invariance, PTL DEF Spec, OnlyConfirmedSaves

\* What a save will write: text_len may lag behind the text (it starts one
\* short, and a read that failed leaves it), but not while an operation waits,
\* because the frame that confirms one has recounted it.
Counted == file_op_state # 0 => text_len = text_buffer.len

\* Every step keeps the length of a text that is to be saved.
LEMMA CountedStep == Counted /\ [Next]_vars => Counted'
<1> SUFFICES ASSUME Counted, [Next]_vars PROVE Counted'
    OBVIOUS
<1> USE DEF Counted
<1>1. CASE UNCHANGED edit
    BY <1>1 DEF edit
<1>2. CASE Tick \/ LaunchPhase \/ ShellPhase \/ UNCHANGED vars
    BY <1>1, <1>2 DEF Tick, LaunchPhase, ShellPhase, vars
<1>3. CASE DelayPhase
    BY <1>1, <1>3 DEF DelayPhase, DelayHandler
<1>4. CASE WindowPhase
    <2>1. CASE \E t : EditArea(t)
        BY <2>1 DEF EditArea
    <2>2. CASE CloseEditor
        BY <2>2 DEF CloseEditor
    <2> QED BY <1>1, <1>4, <2>1, <2>2 DEF WindowPhase, OpenItem, SaveItem, DialogOk,
                DialogCancel, AlertOk, TypePath, TypeText
<1> QED BY <1>2, <1>3, <1>4 DEF Next, Frame

\* A text cut to its own length is the text.
LEMMA CutWhole == \A t \in Text : Cut(t, t.len) = t
BY DEF Cut, Text

\* On a volume that has room and is sound, the file holds the whole text of
\* the window when the editor reports that it was written securely.
THEOREM SavedSecurelyAlways == ~VolumeFails => (Spec => SavedSecurely)
<1> SUFFICES ASSUME ~VolumeFails PROVE Spec => SavedSecurely
    OBVIOUS
<1>1. Init => Counted
    BY DEF Init, EditInit, Counted
<1>2. ASSUME DesktopInv, Counted, [Next]_vars,
             file_op_state = 2, file_op_state' = 0, alert_state' = 1
      PROVE  files'[filepath_buffer] = text_buffer
    <2>1. CASE DelayPhase
        <3>1. execute_actual_save(filepath_buffer)
            BY <1>2, <2>1 DEF DelayPhase, DelayHandler, edit
        <3>2. PICK n \in 0 .. text_len :
                  /\ n = text_len
                  /\ files' = [files EXCEPT ![filepath_buffer] = Cut(text_buffer, n)]
            BY <1>2, <3>1 DEF execute_actual_save
        <3>3. /\ files \in [Paths -> Text \cup {Absent}] /\ filepath_buffer \in Paths
              /\ text_buffer \in Text /\ text_len = text_buffer.len
            BY <1>2 DEF DesktopInv, Types, Contents, Counted
        <3> QED BY <3>2, <3>3, CutWhole
    <2>2. UNCHANGED file_op_state => FALSE
        BY <1>2
    <2>3. CASE Tick \/ LaunchPhase \/ ShellPhase \/ UNCHANGED vars
        BY <2>2, <2>3 DEF Tick, LaunchPhase, ShellPhase, vars, edit
    <2>4. CASE WindowPhase
        BY <1>2, <2>2, <2>4 DEF WindowPhase, OpenItem, SaveItem, DialogOk, DialogCancel,
           AlertOk, TypePath, TypeText, CloseEditor, edit
    <2> QED BY <1>2, <2>1, <2>3, <2>4 DEF Next, Frame
<1>3. DesktopInv /\ Counted /\ [Next]_vars
        => [file_op_state = 2 /\ file_op_state' = 0 /\ alert_state' = 1
                => files'[filepath_buffer] = text_buffer]_vars
    BY <1>2
<1> QED BY <1>1, <1>3, CountedStep, Invariance, PTL DEF Spec, SavedSecurely

=============================================================================
