------------------------------ MODULE Timeouts ------------------------------
(***************************************************************************)
(* The timers of lwIP (src/network/lwip/src/core/timeouts.c) on the clock  *)
(* the port gives them: sys_now (src/network/port/arch/cc.h) returns a     *)
(* counter of its own calls, which wraps.  The main loop calls             *)
(* sys_check_timeouts in every frame; the handlers of the cyclic timers    *)
(* are other files, with a counter of their own.                           *)
(***************************************************************************)
EXTENDS Integers, Sequences

CONSTANTS
    Cyclic,     \* lwip_cyclic_timers but tcp_tmr: a sequence of intervals
    Clock       \* values of the u32_t clock: 2^32

ASSUME TimeoutsAssumption ==
    /\ Clock \in Nat /\ Clock % 4 = 0
    /\ Cyclic \in Seq(1 .. Clock \div 4) \ {<<>>} /\ 8 * Len(Cyclic) < Clock

VARIABLES
    fake_ticks,      \* the next value of sys_now
    next_timeout,    \* the list, from the first to expire
    checking         \* sys_check_timeouts runs, with this as now

timeoutVars == <<fake_ticks, next_timeout, checking>>

Idle == -1

\* Mutant: times are compared as they are.
TIME_LESS_THAN_NoWrap(t, compare_to) == t < compare_to

\* t is up to half the clock's range behind compare_to.
TIME_LESS_THAN(t, compare_to) == (t - compare_to) % Clock > Clock \div 2 - 1

\* sys_timeout_abs: before the first that expires later.  The pool has one
\* element per timer, so it is not empty.
sys_timeout_abs(list, time, timer) ==
    LET later == {i \in DOMAIN list : TIME_LESS_THAN(time, list[i].time)} \cup {Len(list) + 1}
        at == CHOOSE i \in later : \A j \in later : i <= j
    IN  SubSeq(list, 1, at - 1) \o <<[time |-> time, timer |-> timer]>> \o SubSeq(list, at, Len(list))

\* sys_timeouts_init: every sys_timeout reads the clock.
sys_timeouts_init[n \in 0 .. Len(Cyclic)] ==
    IF n = 0 THEN <<>> ELSE sys_timeout_abs(sys_timeouts_init[n - 1], n - 1 + Cyclic[n], n)

TimeoutsInit ==
    /\ next_timeout = sys_timeouts_init[Len(Cyclic)]
    /\ fake_ticks = Len(Cyclic)
    /\ checking = Idle

\* sys_check_timeouts begins.
CheckTimeouts ==
    /\ checking = Idle
    /\ checking' = fake_ticks
    /\ fake_ticks' = (fake_ticks + 1) % Clock
    /\ UNCHANGED next_timeout

\* The first timer has expired: its handler, then lwip_cyclic_timer's restart.
Expire ==
    /\ checking # Idle
    /\ ~ TIME_LESS_THAN(checking, Head(next_timeout).time)
    /\ LET timer == Head(next_timeout).timer
           now == fake_ticks
           next == (Head(next_timeout).time + Cyclic[timer]) % Clock
           time == IF TIME_LESS_THAN(next, now) THEN (now + Cyclic[timer]) % Clock ELSE next
       IN  next_timeout' = sys_timeout_abs(Tail(next_timeout), time, timer)
    /\ fake_ticks' = (fake_ticks + 1) % Clock
    /\ UNCHANGED checking

Checked ==
    /\ checking # Idle
    /\ TIME_LESS_THAN(checking, Head(next_timeout).time)
    /\ checking' = Idle
    /\ UNCHANGED <<fake_ticks, next_timeout>>

TimeoutsNext == CheckTimeouts \/ Expire \/ Checked

TimeoutsSpec == TimeoutsInit /\ [][TimeoutsNext]_timeoutVars

-----------------------------------------------------------------------------
\* How long ago time was: negative if it is yet to come.
Late(time) ==
    LET d == (fake_ticks - time) % Clock IN IF d < Clock \div 2 THEN d ELSE d - Clock

(* When sys_check_timeouts returns, every timer is in the list once, due   *)
(* within its interval and overdue by no more than the calls of sys_now    *)
(* that one pass makes, whatever the clock has wrapped to.                 *)
TimersOnTime ==
    checking = Idle =>
        /\ Len(next_timeout) = Len(Cyclic)
        /\ \A i \in DOMAIN Cyclic :
               \E e \in DOMAIN next_timeout :
                   /\ next_timeout[e].timer = i
                   /\ Late(next_timeout[e].time) \in -Cyclic[i]..Len(Cyclic)
=============================================================================
