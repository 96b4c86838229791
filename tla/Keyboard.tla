------------------------------ MODULE Keyboard ------------------------------
(***************************************************************************)
(* Typed characters on their way from the keyboard to the GUI: the IRQ 1   *)
(* branch of isr_handler translates scancodes and pushes characters into   *)
(* a ring (src/idt.c), and the main loop of kernel_main pops them all once *)
(* per frame (src/kernel.c).  The handler runs with interrupts off, so it  *)
(* is one step; it can fall between any two steps of a pop.                *)
(***************************************************************************)
EXTENDS Integers, Sequences

CONSTANTS
    Size,           \* slots of keyboard_buffer (32)
    Keys,           \* keys that are not shift keys
    Dead,           \* those with no entry, or a zero one, in the tables
    Backspace,      \* the key that yields '\b'
    Shifts,         \* the two shift keys
    NUL,            \* the character 0
    NkInputMax,     \* NK_INPUT_MAX: text bytes the GUI takes in a frame
    MaxEvents       \* bound: scancodes the keyboard sends in a behaviour

Char == (Keys \ Dead) \X {0, 1}

ASSUME KeyboardAssumption ==
    /\ Size \in Nat /\ Size > 1
    /\ Dead \subseteq Keys /\ Backspace \in Keys \ Dead
    /\ Shifts \cap Keys = {}
    /\ NUL \notin Char
    /\ NkInputMax \in Nat \ {0} /\ MaxEvents \in Nat

VARIABLES
    keyboard_buffer, keyboard_head, keyboard_tail,
    shift_pressed,
    held,           \* the shift keys that are physically down
    events,         \* scancodes sent so far
    pc,             \* where the main loop is
    c,              \* the character keyboard_pop_char has read
    text,           \* text handed to the GUI in this frame
    pushed,         \* every character the ring has accepted
    popped          \* every character keyboard_pop_char has returned

ring == <<keyboard_buffer, keyboard_head, keyboard_tail>>
keyboardVars == <<ring, shift_pressed, held, events, pc, c, text, pushed, popped>>

KeyboardTypeOK ==
    /\ keyboard_buffer \in [0 .. Size - 1 -> Char \cup {NUL}]
    /\ keyboard_head \in 0 .. Size - 1
    /\ keyboard_tail \in 0 .. Size - 1
    /\ shift_pressed \in {0, 1}
    /\ held \subseteq Shifts
    /\ events \in 0 .. MaxEvents
    /\ pc \in {"pop", "take", "advance", "late", "frame"}
    /\ c \in Char \cup {NUL}
    /\ text \in Seq(Char)
    /\ pushed \in Seq(Char)
    /\ popped \in Seq(Char)

KeyboardInit ==
    /\ keyboard_buffer = [i \in 0 .. Size - 1 |-> NUL]
    /\ keyboard_head = 0 /\ keyboard_tail = 0
    /\ shift_pressed = 0 /\ held = {} /\ events = 0
    /\ pc = "pop" /\ c = NUL /\ text = <<>>
    /\ pushed = <<>> /\ popped = <<>>

-----------------------------------------------------------------------------
(* The interrupt handler.                                                  *)

Ascii(k) == IF k \in Dead THEN NUL ELSE <<k, shift_pressed>>

keyboard_push_char(ch) ==
    LET next == (keyboard_head + 1) % Size
    IN  IF next # keyboard_tail
        THEN /\ keyboard_buffer' = [keyboard_buffer EXCEPT ![keyboard_head] = ch]
             /\ keyboard_head' = next
             /\ pushed' = Append(pushed, ch)
             /\ UNCHANGED keyboard_tail
        ELSE UNCHANGED <<ring, pushed>>

Scancode ==
    /\ events < MaxEvents
    /\ events' = events + 1
    /\ UNCHANGED <<pc, c, text, popped>>

\* A shift key goes down (again, while it repeats) or comes up.
Irq1Shift(s, down) ==
    /\ Scancode
    /\ s \in held \/ down
    /\ held' = IF down THEN held \cup {s} ELSE held \ {s}
    /\ shift_pressed' = IF down THEN 1 ELSE 0
    /\ UNCHANGED <<ring, pushed>>

\* Any other key goes down.
Irq1Make(k) ==
    /\ Scancode
    /\ IF Ascii(k) # NUL THEN keyboard_push_char(Ascii(k))
                         ELSE UNCHANGED <<ring, pushed>>
    /\ UNCHANGED <<shift_pressed, held>>

\* Any other key comes up: bit 7 is set and the handler ignores the code.
Irq1Break ==
    /\ Scancode
    /\ UNCHANGED <<ring, pushed, shift_pressed, held>>

Irq1 ==
    \/ \E s \in Shifts, down \in BOOLEAN : Irq1Shift(s, down)
    \/ \E k \in Keys : Irq1Make(k)
    \/ Irq1Break

-----------------------------------------------------------------------------
(* The main loop's  while ((c = keyboard_pop_char()) != 0) ...             *)

untouched == <<shift_pressed, held, events, pushed>>

\* nk_input_char keeps the character while the frame's text has room for it;
\* a backspace is a key, not text.
NkInput(t, ch) ==
    IF ch[1] = Backspace \/ Len(t) + 1 >= NkInputMax THEN t ELSE Append(t, ch)

\* keyboard_pop_char returns ch: 0 ends the loop.
Return(ch) ==
    IF ch = NUL
    THEN pc' = "frame" /\ UNCHANGED <<text, popped>>
    ELSE /\ pc' = "pop"
         /\ popped' = Append(popped, ch)
         /\ text' = NkInput(text, ch)

\* Mutant: a head behind tail is taken for an empty ring.
PopCheck_Less ==
    /\ pc = "pop"
    /\ IF keyboard_head <= keyboard_tail
       THEN Return(NUL)
       ELSE pc' = "take" /\ UNCHANGED <<text, popped>>
    /\ UNCHANGED <<ring, c, untouched>>

PopCheck ==
    /\ pc = "pop"
    /\ IF keyboard_head = keyboard_tail
       THEN Return(NUL)
       ELSE pc' = "take" /\ UNCHANGED <<text, popped>>
    /\ UNCHANGED <<ring, c, untouched>>

\* The slot is read and then tail moves ...
PopRead ==
    /\ pc = "take"
    /\ c' = keyboard_buffer[keyboard_tail]
    /\ pc' = "advance"
    /\ UNCHANGED <<ring, text, popped, untouched>>

PopAdvance ==
    /\ pc = "advance"
    /\ keyboard_tail' = (keyboard_tail + 1) % Size
    /\ c' = NUL
    /\ Return(c)
    /\ UNCHANGED <<keyboard_buffer, keyboard_head, untouched>>

\* ... or, neither variable being volatile, the compiler moves tail first.
PopAdvanceFirst ==
    /\ pc = "take"
    /\ keyboard_tail' = (keyboard_tail + 1) % Size
    /\ pc' = "late"
    /\ UNCHANGED <<keyboard_buffer, keyboard_head, c, text, popped, untouched>>

\* Mutant: reads the slot tail has moved to.
PopReadLate_NewTail ==
    /\ pc = "late"
    /\ Return(keyboard_buffer[keyboard_tail])
    /\ UNCHANGED <<ring, c, untouched>>

PopReadLate ==
    /\ pc = "late"
    /\ Return(keyboard_buffer[(keyboard_tail + Size - 1) % Size])
    /\ UNCHANGED <<ring, c, untouched>>

\* The rest of the frame, up to the next nk_input_begin.
KeyboardFrame ==
    /\ pc = "frame"
    /\ pc' = "pop"
    /\ text' = <<>>
    /\ UNCHANGED <<ring, c, popped, untouched>>

MainLoop ==
    \/ PopCheck \/ PopRead \/ PopAdvance \/ PopAdvanceFirst \/ PopReadLate
    \/ KeyboardFrame

KeyboardNext == Irq1 \/ MainLoop

KeyboardSpec == KeyboardInit /\ [][KeyboardNext]_keyboardVars

\* The CPU keeps executing the main loop between interrupts.
FairKeyboardSpec == KeyboardSpec /\ WF_keyboardVars(MainLoop)

-----------------------------------------------------------------------------
\* Characters come out of the ring in the order they went in, none repeated
\* and none skipped, wherever interrupts fall in keyboard_pop_char and
\* whichever order the compiler gave its two accesses.
PoppedInOrder ==
    /\ Len(popped) <= Len(pushed)
    /\ \A i \in 1 .. Len(popped) : popped[i] = pushed[i]

\* The main loop leaves its pop loop only when every accepted character has
\* been taken out: no character value is mistaken for "buffer empty".
DrainComplete == [][pc # "frame" /\ pc' = "frame" => popped = pushed]_keyboardVars

\* A character is thrown away only when Size - 1 others are waiting.
DropOnlyWhenFull ==
    [][(\E k \in Keys \ Dead : Irq1Make(k)) /\ pushed' = pushed
            => Len(pushed) - Len(popped) >= Size - 1]_keyboardVars

\* Every character the ring accepts is eventually handed to the main loop,
\* which has caught up with the interrupts whenever the keys pause.
AcceptedIsPopped == []<>(Len(popped) = Len(pushed))

Fifo == INSTANCE CharFifo WITH in <- pushed, out <- popped, Capacity <- Size

\* The ring is a queue: at most Size characters are between the interrupt
\* handler and the main loop (the one being popped included).
ImplementsFifo == Fifo!Spec

=============================================================================
