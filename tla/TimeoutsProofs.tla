--------------------------- MODULE TimeoutsProofs ---------------------------
(***************************************************************************)
(* Proofs about the timers of lwIP, for every list of intervals and every  *)
(* width of the clock.                                                     *)
(***************************************************************************)
EXTENDS Timeouts, SequenceTheorems, WellFoundedInduction, TLAPS

\* The values of sys_now.
Times == 0 .. Clock - 1

\* The longest interval.
Quarter == Clock \div 4

\* u32_t arithmetic.
Wrapped(x) == x % Clock

\* Elements of the list.
Timers == [time : Times, timer : 1 .. Len(Cyclic)]

\* How long before now time was: Late, at any value of the clock.
LateAt(now, time) ==
    LET d == (now - time) % Clock IN IF d < Clock \div 2 THEN d ELSE d - Clock

\* From the most overdue to the last to expire.
Ordered(list, now) ==
    \A d, e \in 1 .. Len(list) : d <= e => LateAt(now, list[e].time) <= LateAt(now, list[d].time)

\* No timer is further away than its interval.
Soon(list, now) ==
    \A e \in 1 .. Len(list) : -Cyclic[list[e].timer] <= LateAt(now, list[e].time)

\* The timers 1 to m are in the list.
Listed(list, m) ==
    \A i \in 1 .. m : \E e \in 1 .. Len(list) : list[e].timer = i

\* sys_check_timeouts, p readings of the clock after its own: at least
\* p - 1 timers have been restarted, and are at the end of the list.
Passing(list, now, p) ==
    /\ p \in 1 .. Len(Cyclic) + 1
    /\ \A e \in 1 .. Len(list) : LateAt(now, list[e].time) <= Len(Cyclic) + p
    /\ \A e \in 1 .. Len(list) : e > Len(list) - (p - 1) => LateAt(now, list[e].time) < p

\* The inductive invariant, between and within the passes of sys_check_timeouts.
TimersInv ==
    /\ fake_ticks \in Times /\ checking \in Times \cup {Idle}
    /\ next_timeout \in Seq(Timers) /\ Len(next_timeout) = Len(Cyclic)
    /\ Listed(next_timeout, Len(Cyclic))
    /\ Ordered(next_timeout, fake_ticks)
    /\ Soon(next_timeout, fake_ticks)
    /\ checking = Idle =>
           \A e \in 1 .. Len(Cyclic) : LateAt(fake_ticks, next_timeout[e].time) <= Len(Cyclic)
    /\ checking # Idle => Passing(next_timeout, fake_ticks, LateAt(fake_ticks, checking))

\* The constants as the proofs use them.
LEMMA TimeoutsConstants ==
    /\ Clock \in Nat /\ Quarter \in Nat /\ Clock = 4 * Quarter
    /\ Clock \div 2 = 2 * Quarter /\ Clock \div 4 = Quarter
    /\ Len(Cyclic) \in Nat /\ 1 <= Len(Cyclic) /\ 2 * Len(Cyclic) + 1 <= Quarter
    /\ DOMAIN Cyclic = 1 .. Len(Cyclic)
    /\ \A i \in 1 .. Len(Cyclic) : Cyclic[i] \in 1 .. Quarter
<1>1. Cyclic \in Seq(1 .. Clock \div 4) /\ Cyclic # <<>> /\ Clock \in Nat /\ Clock % 4 = 0 /\ 8 * Len(Cyclic) < Clock
    BY TimeoutsAssumption
<1>2. /\ Len(Cyclic) \in Nat /\ DOMAIN Cyclic = 1 .. Len(Cyclic)
      /\ \A i \in 1 .. Len(Cyclic) : Cyclic[i] \in 1 .. Clock \div 4
    BY <1>1, LenProperties, ElementOfSeq
<1>3. 1 <= Len(Cyclic)
    BY <1>1, <1>2, EmptySeq
<1>4. \A c \in Nat : c % 4 = 0 => c \div 4 \in Nat /\ c = 4 * (c \div 4) /\ c \div 2 = 2 * (c \div 4)
    OBVIOUS
<1>5. Clock \div 4 \in Nat /\ Clock = 4 * (Clock \div 4) /\ Clock \div 2 = 2 * (Clock \div 4)
    BY <1>1, <1>4
<1>6. 2 * Len(Cyclic) + 1 <= Clock \div 4
    BY <1>1, <1>2, <1>5
<1> QED BY <1>1, <1>2, <1>3, <1>5, <1>6 DEF Quarter

\* The clock's range and the intervals, without the division.
LEMMA Quarters ==
    /\ Clock \in Nat /\ Quarter \in Nat /\ Clock = 4 * Quarter
    /\ Len(Cyclic) \in Nat /\ 1 <= Len(Cyclic) /\ 2 * Len(Cyclic) + 1 <= Quarter
BY TimeoutsConstants

\* The clock's arithmetic, once around.
LEMMA Around ==
    ASSUME NEW x \in Int
    PROVE  /\ 0 <= x /\ x < Clock => Wrapped(x) = x
           /\ x < 0 /\ -Clock <= x => Wrapped(x) = x + Clock
           /\ Clock <= x /\ x < 2 * Clock => Wrapped(x) = x - Clock
<1>1. Clock \in Nat /\ Clock >= 1
    BY TimeoutsConstants
<1>2. ASSUME NEW c \in Nat, c >= 1, NEW q \in Int, NEW r \in 0 .. c - 1, x = c * q + r
      PROVE  x % c = r
    BY <1>2
<1>3. ASSUME 0 <= x, x < Clock PROVE Wrapped(x) = x
    BY <1>1, <1>3 DEF Wrapped
<1>4. ASSUME x < 0, -Clock <= x PROVE Wrapped(x) = x + Clock
    <2>1. x = Clock * (-1) + (x + Clock) /\ x + Clock \in 0 .. Clock - 1
        BY <1>1, <1>4
    <2> QED BY <1>1, <1>2, <2>1 DEF Wrapped
<1>5. ASSUME Clock <= x, x < 2 * Clock PROVE Wrapped(x) = x - Clock
    <2>1. x = Clock * 1 + (x - Clock) /\ x - Clock \in 0 .. Clock - 1
        BY <1>1, <1>5
    <2> QED BY <1>1, <1>2, <2>1 DEF Wrapped
<1> QED BY <1>3, <1>4, <1>5

\* A time of the clock is not wrapped.
LEMMA InRange ==
    ASSUME NEW t \in Times
    PROVE  Wrapped(t) = t
BY Around, Quarters DEF Times

\* LateAt is the difference, or the difference once around.
LEMMA LateIs ==
    ASSUME NEW now \in Times, NEW t \in Times
    PROVE  /\ LateAt(now, t) \in Int
           /\ -(2 * Quarter) <= LateAt(now, t) /\ LateAt(now, t) < 2 * Quarter
           /\ \/ LateAt(now, t) = now - t
              \/ LateAt(now, t) = now - t - Clock
              \/ LateAt(now, t) = now - t + Clock
<1> USE Quarters DEF Times
<1>1. now - t \in Int /\ now - t < Clock /\ -Clock <= now - t
    OBVIOUS
<1>2. Wrapped(now - t) = IF 0 <= now - t THEN now - t ELSE now - t + Clock
    BY <1>1, Around
<1>3. LateAt(now, t) = IF Wrapped(now - t) < 2 * Quarter THEN Wrapped(now - t) ELSE Wrapped(now - t) - Clock
    BY TimeoutsConstants DEF LateAt, Wrapped
<1> DEFINE x == Wrapped(now - t)
           l == LateAt(now, t)
<1>4. x = (IF 0 <= now - t THEN now - t ELSE now - t + Clock) /\ l = IF x < 2 * Quarter THEN x ELSE x - Clock
    BY <1>2, <1>3
<1> HIDE DEF x, l
<1>5. /\ l \in Int /\ -(2 * Quarter) <= l /\ l < 2 * Quarter
      /\ l = now - t \/ l = now - t - Clock \/ l = now - t + Clock
    BY <1>1, <1>4
<1> QED BY <1>5 DEF l

\* While the times are within half the clock's range, TIME_LESS_THAN orders them.
LEMMA Earlier ==
    ASSUME NEW now \in Times, NEW t \in Times, NEW u \in Times,
           LateAt(now, t) - LateAt(now, u) < 2 * Quarter,
           LateAt(now, u) - LateAt(now, t) < 2 * Quarter
    PROVE  TIME_LESS_THAN(t, u) <=> LateAt(now, u) < LateAt(now, t)
<1> DEFINE a == LateAt(now, t)
           b == LateAt(now, u)
<1>1. /\ a \in Int /\ (a = now - t \/ a = now - t - Clock \/ a = now - t + Clock)
      /\ b \in Int /\ (b = now - u \/ b = now - u - Clock \/ b = now - u + Clock)
      /\ a - b < 2 * Quarter /\ b - a < 2 * Quarter
    BY LateIs
<1> HIDE DEF a, b
<1> USE Quarters DEF Times
<1>2. t - u \in Int /\ t - u < Clock /\ -Clock <= t - u
    OBVIOUS
<1>3. Wrapped(t - u) = IF 0 <= t - u THEN t - u ELSE t - u + Clock
    BY <1>2, Around
<1>4. (Wrapped(t - u) > 2 * Quarter - 1) <=> b < a
    BY <1>1, <1>3
<1>5. TIME_LESS_THAN(t, u) <=> Wrapped(t - u) > 2 * Quarter - 1
    BY TimeoutsConstants DEF TIME_LESS_THAN, Wrapped
<1> QED BY <1>4, <1>5 DEF a, b

\* A reading of the clock makes every time one later.
LEMMA Tick ==
    ASSUME NEW now \in Times, NEW t \in Times, LateAt(now, t) < 2 * Quarter - 1
    PROVE  /\ Wrapped(now + 1) \in Times
           /\ LateAt(Wrapped(now + 1), t) = LateAt(now, t) + 1
<1> USE Quarters DEF Times
<1> DEFINE next == Wrapped(now + 1)
<1>1. next = IF now + 1 < Clock THEN now + 1 ELSE 0
    BY Around
<1>2. next \in Times
    BY <1>1
<1> HIDE DEF next
<1>3. /\ LateAt(next, t) \in Int
      /\ -(2 * Quarter) <= LateAt(next, t) /\ LateAt(next, t) < 2 * Quarter
      /\ \/ LateAt(next, t) = next - t
         \/ LateAt(next, t) = next - t - Clock
         \/ LateAt(next, t) = next - t + Clock
    BY <1>2, LateIs
<1>4. /\ LateAt(now, t) \in Int /\ -(2 * Quarter) <= LateAt(now, t)
      /\ LateAt(now, t) < 2 * Quarter - 1
      /\ \/ LateAt(now, t) = now - t
         \/ LateAt(now, t) = now - t - Clock
         \/ LateAt(now, t) = now - t + Clock
    BY LateIs
<1>5. LateAt(next, t) = LateAt(now, t) + 1
    <2>1. \A a, b \in Int :
              /\ -(2 * Quarter) <= a /\ a < 2 * Quarter - 1
              /\ a = now - t \/ a = now - t - Clock \/ a = now - t + Clock
              /\ -(2 * Quarter) <= b /\ b < 2 * Quarter
              /\ b = next - t \/ b = next - t - Clock \/ b = next - t + Clock
              => b = a + 1
        BY <1>1
    <2> QED BY <1>3, <1>4, <2>1
<1> QED BY <1>2, <1>5 DEF next

\* A time so far from now is so late.
LEMMA LateOf ==
    ASSUME NEW now \in Times, NEW d \in Int,
           -Quarter <= d, d < 2 * Quarter
    PROVE  /\ Wrapped(now - d) \in Times
           /\ LateAt(now, Wrapped(now - d)) = d
<1> USE Quarters DEF Times
<1> DEFINE t == Wrapped(now - d)
<1>1. t = IF now - d < 0 THEN now - d + Clock ELSE IF now - d < Clock THEN now - d ELSE now - d - Clock
    BY Around
<1>2. t \in Times
    BY <1>1
<1> HIDE DEF t
<1>3. /\ LateAt(now, t) \in Int
      /\ -(2 * Quarter) <= LateAt(now, t) /\ LateAt(now, t) < 2 * Quarter
      /\ \/ LateAt(now, t) = now - t
         \/ LateAt(now, t) = now - t - Clock
         \/ LateAt(now, t) = now - t + Clock
    BY <1>2, LateIs
<1>4. LateAt(now, t) = d
    BY <1>1, <1>3
<1> QED BY <1>2, <1>4 DEF t

\* A set of natural numbers has a least member.
LEMMA LeastMember ==
    ASSUME NEW S, S \subseteq Nat, S # {}
    PROVE  \E m \in S : \A n \in S : m <= n
<1> DEFINE R == OpToRel(<, Nat)
<1>1. IsWellFoundedOn(R, Nat)
    BY NatLessThanWellFounded
<1>2. PICK m \in S : \A n \in S : <<n, m>> \notin R
    <2> HIDE DEF R
    <2> QED BY <1>1, WFMin
<1>3. \A n \in S : ~ (n < m)
    BY <1>2 DEF OpToRel
<1> QED BY <1>3

\* new is the list with a timer at its place.
Placed(new, list, time, timer, at) ==
    /\ \A e \in 1 .. at - 1 : new[e] = list[e] /\ ~ TIME_LESS_THAN(time, list[e].time)
    /\ new[at] = [time |-> time, timer |-> timer]
    /\ \A e \in at + 1 .. Len(list) + 1 : new[e] = list[e - 1]
    /\ at <= Len(list) => TIME_LESS_THAN(time, list[at].time)

\* The members of a list.
LEMMA MemberOf ==
    ASSUME NEW list \in Seq(Timers), NEW e \in 1 .. Len(list)
    PROVE  list[e] \in Timers /\ list[e].time \in Times /\ list[e].timer \in 1 .. Len(Cyclic)
<1>1. list[e] \in Timers
    BY ElementOfSeq
<1> QED BY <1>1 DEF Timers

\* Where sys_timeout_abs puts a timer, and what that does to the list.
LEMMA Inserted ==
    ASSUME NEW list \in Seq(Timers), NEW time \in Times, NEW timer \in 1 .. Len(Cyclic)
    PROVE  /\ sys_timeout_abs(list, time, timer) \in Seq(Timers)
           /\ Len(sys_timeout_abs(list, time, timer)) = Len(list) + 1
           /\ \E at \in 1 .. Len(list) + 1 :
                  Placed(sys_timeout_abs(list, time, timer), list, time, timer, at)
<1> DEFINE later == {i \in DOMAIN list : TIME_LESS_THAN(time, list[i].time)} \cup {Len(list) + 1}
           at == CHOOSE i \in later : \A j \in later : i <= j
           elem == [time |-> time, timer |-> timer]
           left == SubSeq(list, 1, at - 1)
           right == SubSeq(list, at, Len(list))
<1>1. Len(list) \in Nat /\ DOMAIN list = 1 .. Len(list)
    BY LenProperties
<1>2. later \subseteq 1 .. Len(list) + 1 /\ later # {} /\ later \subseteq Nat
    BY <1>1
<1>3. at \in later /\ \A j \in later : at <= j
    <2> HIDE DEF later
    <2>1. \E i \in later : \A j \in later : i <= j
        BY <1>2, LeastMember
    <2> QED BY <2>1
<1>4. at \in 1 .. Len(list) + 1
    BY <1>2, <1>3
<1>5. \A e \in 1 .. at - 1 : ~ TIME_LESS_THAN(time, list[e].time)
    <2> SUFFICES ASSUME NEW e \in 1 .. at - 1, TIME_LESS_THAN(time, list[e].time) PROVE FALSE
        OBVIOUS
    <2>1. e \in 1 .. Len(list) /\ e < at
        BY <1>1, <1>4
    <2>2. e \in later
        BY <1>1, <2>1
    <2> HIDE DEF later, at
    <2> QED BY <1>3, <1>4, <2>1, <2>2
<1>6. at <= Len(list) => TIME_LESS_THAN(time, list[at].time)
    <2> HIDE DEF at
    <2> QED BY <1>1, <1>3, <1>4
<1> HIDE DEF later, at
<1>7. /\ left \in Seq(Timers) /\ Len(left) = at - 1
      /\ \A e \in 1 .. at - 1 : left[e] = list[e]
    BY <1>1, <1>4, SubSeqProperties
<1>8. /\ right \in Seq(Timers) /\ Len(right) = Len(list) + 1 - at
      /\ \A e \in 1 .. Len(list) + 1 - at : right[e] = list[at + e - 1]
    BY <1>1, <1>4, SubSeqProperties
<1>9. <<elem>> \in Seq(Timers) /\ Len(<<elem>>) = 1 /\ <<elem>>[1] = elem
    BY DEF Timers
<1> DEFINE front == left \o <<elem>>
           new == front \o right
<1>10. sys_timeout_abs(list, time, timer) = new
    BY DEF sys_timeout_abs, later, at
<1> HIDE DEF left, right, elem
<1>11. /\ front \in Seq(Timers) /\ Len(front) = at
       /\ \A e \in 1 .. at - 1 : front[e] = left[e]
       /\ front[at] = elem
    BY <1>4, <1>7, <1>9, ConcatProperties
<1> HIDE DEF front
<1>12. /\ new \in Seq(Timers) /\ Len(new) = Len(list) + 1
       /\ \A e \in 1 .. at : new[e] = front[e]
       /\ \A e \in at + 1 .. Len(list) + 1 : new[e] = right[e - at]
    BY <1>1, <1>4, <1>8, <1>11, ConcatProperties
<1>13. \A e \in 1 .. at - 1 : new[e] = list[e]
    BY <1>4, <1>7, <1>11, <1>12
<1>14. new[at] = elem
    BY <1>4, <1>11, <1>12
<1>15. \A e \in at + 1 .. Len(list) + 1 : new[e] = list[e - 1]
    <2> TAKE e \in at + 1 .. Len(list) + 1
    <2>1. e - at \in 1 .. Len(list) + 1 - at /\ at + (e - at) - 1 = e - 1
        BY <1>1, <1>4
    <2> QED BY <1>8, <1>12, <2>1
<1>16. Placed(new, list, time, timer, at)
    <2> HIDE DEF new
    <2> QED BY <1>5, <1>6, <1>13, <1>14, <1>15 DEF Placed, elem
<1> HIDE DEF new
<1> QED BY <1>4, <1>10, <1>12, <1>16

\* new has the members of list, and elem.
Added(new, list, elem) ==
    /\ \A e \in 1 .. Len(list) + 1 : new[e] = elem \/ \E d \in 1 .. Len(list) : new[e] = list[d]
    /\ \A d \in 1 .. Len(list) : \E e \in 1 .. Len(list) + 1 : new[e] = list[d]
    /\ \E e \in 1 .. Len(list) + 1 : new[e] = elem

\* What is in the list afterwards: what was, and the timer.
LEMMA InsertedMembers ==
    ASSUME NEW list \in Seq(Timers), NEW time \in Times, NEW timer \in 1 .. Len(Cyclic)
    PROVE  Added(sys_timeout_abs(list, time, timer), list, [time |-> time, timer |-> timer])
<1> DEFINE new == sys_timeout_abs(list, time, timer)
           elem == [time |-> time, timer |-> timer]
<1>0. PICK at \in 1 .. Len(list) + 1 : Placed(new, list, time, timer, at)
    BY Inserted
<1>1. /\ \A e \in 1 .. at - 1 : new[e] = list[e]
      /\ new[at] = elem
      /\ \A e \in at + 1 .. Len(list) + 1 : new[e] = list[e - 1]
    BY <1>0 DEF Placed
<1>2. Len(list) \in Nat
    BY LenProperties
<1> HIDE DEF new, elem
<1>3. \A e \in 1 .. Len(list) + 1 : new[e] = elem \/ \E d \in 1 .. Len(list) : new[e] = list[d]
    <2> TAKE e \in 1 .. Len(list) + 1
    <2>1. CASE e < at
        <3>1. e \in 1 .. at - 1 /\ e \in 1 .. Len(list)
            BY <1>2, <2>1
        <3> QED BY <1>1, <3>1
    <2>2. CASE e = at
        BY <1>1, <2>2
    <2>3. CASE e > at
        <3>1. e \in at + 1 .. Len(list) + 1 /\ e - 1 \in 1 .. Len(list)
            BY <1>2, <2>3
        <3> QED BY <1>1, <3>1
    <2> QED BY <1>2, <2>1, <2>2, <2>3
<1>4. \A d \in 1 .. Len(list) : \E e \in 1 .. Len(list) + 1 : new[e] = list[d]
    <2> TAKE d \in 1 .. Len(list)
    <2>1. CASE d < at
        <3>1. d \in 1 .. at - 1 /\ d \in 1 .. Len(list) + 1
            BY <1>2, <2>1
        <3> QED BY <1>1, <3>1
    <2>2. CASE d >= at
        <3>1. d + 1 \in at + 1 .. Len(list) + 1 /\ d + 1 \in 1 .. Len(list) + 1 /\ (d + 1) - 1 = d
            BY <1>2, <2>2
        <3> QED BY <1>1, <3>1
    <2> QED BY <1>2, <2>1, <2>2
<1>5. Added(new, list, elem)
    BY <1>1, <1>3, <1>4 DEF Added
<1> QED BY <1>5 DEF new, elem

\* Two timers are close enough for TIME_LESS_THAN.
Near(list, now, time) ==
    \A e \in 1 .. Len(list) :
        /\ LateAt(now, list[e].time) - LateAt(now, time) < 2 * Quarter
        /\ LateAt(now, time) - LateAt(now, list[e].time) < 2 * Quarter

\* sys_timeout_abs keeps the order, and what it puts before later ones is earlier.
LEMMA InsertedOrder ==
    ASSUME NEW list \in Seq(Timers), NEW time \in Times, NEW timer \in 1 .. Len(Cyclic),
           NEW now \in Times, Ordered(list, now), Near(list, now, time)
    PROVE  Ordered(sys_timeout_abs(list, time, timer), now)
<1> DEFINE new == sys_timeout_abs(list, time, timer)
           a == LateAt(now, time)
           L(e) == LateAt(now, list[e].time)
           M(e) == LateAt(now, new[e].time)
<1>0. PICK at \in 1 .. Len(list) + 1 : Placed(new, list, time, timer, at)
    BY Inserted
<1>1. /\ \A e \in 1 .. at - 1 : new[e] = list[e] /\ ~ TIME_LESS_THAN(time, list[e].time)
      /\ new[at] = [time |-> time, timer |-> timer]
      /\ \A e \in at + 1 .. Len(list) + 1 : new[e] = list[e - 1]
      /\ at <= Len(list) => TIME_LESS_THAN(time, list[at].time)
    BY <1>0 DEF Placed
<1>2. Len(list) \in Nat /\ Len(new) = Len(list) + 1
    BY LenProperties, Inserted
<1>3. \A e \in 1 .. Len(list) : list[e].time \in Times
    BY MemberOf
<1>4. a \in Int /\ \A e \in 1 .. Len(list) : L(e) \in Int
    BY <1>3, LateIs
<1>5. \A e \in 1 .. Len(list) : TIME_LESS_THAN(time, list[e].time) <=> L(e) < a
    BY <1>3, Earlier DEF Near
<1>6. \A d, e \in 1 .. Len(list) : d <= e => L(e) <= L(d)
    BY DEF Ordered
<1>7. /\ \A e \in 1 .. at - 1 : M(e) = L(e)
      /\ M(at) = a
      /\ \A e \in at + 1 .. Len(list) + 1 : M(e) = L(e - 1)
    <2> HIDE DEF new
    <2> QED BY <1>1
<1>8. \A e \in 1 .. at - 1 : ~ TIME_LESS_THAN(time, list[e].time) /\ e \in 1 .. Len(list)
    BY <1>1, <1>2
<1>9. at <= Len(list) => TIME_LESS_THAN(time, list[at].time)
    BY <1>1
<1> HIDE DEF new, a, L, M
<1>10. \A e \in 1 .. at - 1 : a <= L(e)
    BY <1>4, <1>5, <1>8
<1>11. \A e \in at .. Len(list) : L(e) < a
    <2> TAKE e \in at .. Len(list)
    <2>1. at \in 1 .. Len(list) /\ e \in 1 .. Len(list) /\ at <= e /\ at <= Len(list)
        BY <1>2
    <2>2. L(at) < a /\ L(e) <= L(at)
        BY <1>5, <1>6, <1>9, <2>1
    <2> QED BY <1>4, <2>1, <2>2
<1>12. ASSUME NEW d \in 1 .. Len(list) + 1, NEW e \in 1 .. Len(list) + 1, d <= e PROVE M(e) <= M(d)
    <2>1. CASE e < at
        <3>1. /\ d \in 1 .. at - 1 /\ e \in 1 .. at - 1
              /\ d \in 1 .. Len(list) /\ e \in 1 .. Len(list)
            BY <1>2, <1>12, <2>1
        <3> QED BY <1>6, <1>7, <1>12, <3>1
    <2>2. CASE e = at /\ d < at
        <3>1. d \in 1 .. at - 1
            BY <2>2
        <3> QED BY <1>7, <1>10, <2>2, <3>1
    <2>3. CASE e = at /\ d = at
        BY <1>4, <1>7, <2>3
    <2>4. CASE e > at /\ d < at
        <3>1. d \in 1 .. at - 1 /\ e \in at + 1 .. Len(list) + 1 /\ e - 1 \in at .. Len(list)
            BY <1>2, <2>4
        <3>2. d \in 1 .. Len(list) /\ e - 1 \in 1 .. Len(list) /\ d <= e - 1
            BY <1>2, <3>1
        <3> QED BY <1>6, <1>7, <3>1, <3>2
    <2>5. CASE e > at /\ d = at
        <3>1. e \in at + 1 .. Len(list) + 1 /\ e - 1 \in at .. Len(list) /\ e - 1 \in 1 .. Len(list)
            BY <1>2, <2>5
        <3>2. M(e) = L(e - 1) /\ M(d) = a /\ L(e - 1) < a
            BY <1>7, <1>11, <2>5, <3>1
        <3> QED BY <1>4, <3>1, <3>2
    <2>6. CASE e > at /\ d > at
        <3>1. d \in at + 1 .. Len(list) + 1 /\ e \in at + 1 .. Len(list) + 1
            BY <1>2, <2>6
        <3>2. d - 1 \in 1 .. Len(list) /\ e - 1 \in 1 .. Len(list) /\ d - 1 <= e - 1
            BY <1>2, <1>12, <3>1
        <3> QED BY <1>6, <1>7, <3>1, <3>2
    <2> QED BY <1>2, <1>12, <2>1, <2>2, <2>3, <2>4, <2>5, <2>6
<1> QED BY <1>2, <1>12 DEF Ordered, new, M

\* A time c later is c less late.
LEMMA Postponed ==
    ASSUME NEW now \in Times, NEW t \in Times, NEW c \in 1 .. Quarter,
           -Quarter <= LateAt(now, t) - c
    PROVE  /\ Wrapped(t + c) \in Times
           /\ LateAt(now, Wrapped(t + c)) = LateAt(now, t) - c
<1> USE Quarters DEF Times
<1> DEFINE u == Wrapped(t + c)
<1>1. u = IF t + c < Clock THEN t + c ELSE t + c - Clock
    BY Around
<1>2. u \in Times
    BY <1>1
<1> HIDE DEF u
<1>3. /\ LateAt(now, t) \in Int /\ LateAt(now, t) < 2 * Quarter /\ -Quarter <= LateAt(now, t) - c
      /\ \/ LateAt(now, t) = now - t
         \/ LateAt(now, t) = now - t - Clock
         \/ LateAt(now, t) = now - t + Clock
    BY LateIs
<1>4. /\ LateAt(now, u) \in Int
      /\ -(2 * Quarter) <= LateAt(now, u) /\ LateAt(now, u) < 2 * Quarter
      /\ \/ LateAt(now, u) = now - u
         \/ LateAt(now, u) = now - u - Clock
         \/ LateAt(now, u) = now - u + Clock
    BY <1>2, LateIs
<1>5. \A a, b \in Int :
          /\ a < 2 * Quarter /\ -Quarter <= a - c
          /\ a = now - t \/ a = now - t - Clock \/ a = now - t + Clock
          /\ -(2 * Quarter) <= b /\ b < 2 * Quarter
          /\ b = now - u \/ b = now - u - Clock \/ b = now - u + Clock
          => b = a - c
    BY <1>1
<1> QED BY <1>2, <1>3, <1>4, <1>5 DEF u

\* The definition of sys_timeouts_init has a solution, so it is one.
LEMMA InitDefined ==
    \A n \in 0 .. Len(Cyclic) :
        sys_timeouts_init[n] =
            IF n = 0 THEN <<>> ELSE sys_timeout_abs(sys_timeouts_init[n - 1], n - 1 + Cyclic[n], n)
<1> USE Quarters
<1> DEFINE Step(f, n) == IF n = 0 THEN <<>> ELSE sys_timeout_abs(f[n - 1], n - 1 + Cyclic[n], n)
           Solves(f, m) == f = [n \in 0 .. m |-> Step(f, n)]
           Bad == {m \in 0 .. Len(Cyclic) : ~ \E f : Solves(f, m)}
<1>1. \E f : Solves(f, 0)
    <2> DEFINE f == [n \in 0 .. 0 |-> <<>>]
    <2>1. Solves(f, 0)
        OBVIOUS
    <2> QED BY <2>1
<1>2. ASSUME NEW m \in 0 .. Len(Cyclic) - 1, \E f : Solves(f, m)
      PROVE  \E f : Solves(f, m + 1)
    <2>1. PICK f : Solves(f, m)
        BY <1>2
    <2> DEFINE g == [n \in 0 .. m + 1 |-> Step(f, n)]
    <2>2. f = [n \in 0 .. m |-> Step(f, n)]
        BY <2>1
    <2>3. \A n \in 0 .. m : g[n] = f[n]
        <3> DEFINE F(n) == Step(f, n)
        <3>1. f = [n \in 0 .. m |-> F(n)] /\ g = [n \in 0 .. m + 1 |-> F(n)]
            BY <2>2
        <3>2. \A n \in 0 .. m : n \in 0 .. m + 1
            OBVIOUS
        <3> HIDE DEF F, g
        <3>3. \A n \in 0 .. m : f[n] = F(n)
            BY <3>1
        <3>4. \A n \in 0 .. m + 1 : g[n] = F(n)
            BY <3>1
        <3> QED BY <3>2, <3>3, <3>4
    <2>4. \A n \in 0 .. m + 1 : Step(g, n) = Step(f, n)
        <3> TAKE n \in 0 .. m + 1
        <3>1. CASE n = 0
            BY <3>1
        <3>2. CASE n # 0
            <4>1. n - 1 \in 0 .. m
                BY <3>2
            <4>2. g[n - 1] = f[n - 1]
                BY <2>3, <4>1
            <4> HIDE DEF g
            <4> QED BY <4>2
        <3> QED BY <3>1, <3>2
    <2>5. g = [n \in 0 .. m + 1 |-> Step(g, n)]
        <3> DEFINE G(n) == Step(f, n)
                   H(n) == Step(g, n)
        <3>1. \A n \in 0 .. m + 1 : G(n) = H(n)
            BY <2>4
        <3>2. [n \in 0 .. m + 1 |-> G(n)] = [n \in 0 .. m + 1 |-> H(n)]
            <4> HIDE DEF G, H
            <4> QED BY <3>1
        <3> QED BY <3>2
    <2>6. Solves(g, m + 1)
        BY <2>5
    <2> QED BY <2>6
<1>3. \E f : Solves(f, Len(Cyclic))
    <2> HIDE DEF Solves
    <2> SUFFICES ASSUME Bad # {} PROVE FALSE
        OBVIOUS
    <2>1. Bad \subseteq Nat
        OBVIOUS
    <2>2. PICK m \in Bad : \A n \in Bad : m <= n
        <3> HIDE DEF Bad
        <3> QED BY <2>1, LeastMember
    <2>3. m # 0
        BY <1>1, <2>2
    <2>4. m - 1 \in 0 .. Len(Cyclic) - 1 /\ m - 1 \in 0 .. Len(Cyclic) /\ (m - 1) + 1 = m /\ ~ (m <= m - 1)
        BY <2>3
    <2>5. \E f : Solves(f, m - 1)
        BY <2>2, <2>4
    <2>6. \E f : Solves(f, m)
        BY <1>2, <2>4, <2>5
    <2> QED BY <2>6
<1>4. sys_timeouts_init = CHOOSE f : Solves(f, Len(Cyclic))
    BY DEF sys_timeouts_init
<1>5. Solves(sys_timeouts_init, Len(Cyclic))
    <2> HIDE DEF Solves
    <2> QED BY <1>3, <1>4
<1>6. \A n \in 0 .. Len(Cyclic) : sys_timeouts_init[n] = Step(sys_timeouts_init, n)
    <2>1. sys_timeouts_init = [n \in 0 .. Len(Cyclic) |-> Step(sys_timeouts_init, n)]
        BY <1>5
    <2> HIDE DEF Step
    <2> QED BY <2>1
<1> QED BY <1>6

\* The list that sys_timeouts_init has built of the first m timers, seen
\* from the time at which it returns.
Built(list, m) ==
    /\ list \in Seq(Timers) /\ Len(list) = m
    /\ Listed(list, m)
    /\ Ordered(list, Len(Cyclic))
    /\ Soon(list, Len(Cyclic))
    /\ \A e \in 1 .. Len(list) : LateAt(Len(Cyclic), list[e].time) <= Len(Cyclic)

\* One timer more.
LEMMA BuildOne ==
    ASSUME NEW m \in 0 .. Len(Cyclic) - 1, NEW list, Built(list, m)
    PROVE  Built(sys_timeout_abs(list, m + Cyclic[m + 1], m + 1), m + 1)
<1> DEFINE now == Len(Cyclic)
           c == Cyclic[m + 1]
           time == m + c
           new == sys_timeout_abs(list, time, m + 1)
           elem == [time |-> time, timer |-> m + 1]
<1>1. m + 1 \in 1 .. Len(Cyclic) /\ c \in 1 .. Quarter
    BY TimeoutsConstants
<1>2. now \in Times /\ time \in Times /\ m \in Times
    BY <1>1, Quarters DEF Times
<1>3. LateAt(now, m) = now - m
    <2>1. now - m \in Int /\ 0 <= now - m /\ now - m < 2 * Quarter /\ -Quarter <= now - m /\ now - (now - m) = m
        BY Quarters
    <2>2. Wrapped(m) = m
        BY <1>2, InRange
    <2> QED BY <1>2, <2>1, <2>2, LateOf
<1>4. LateAt(now, time) = now - m - c
    <2>1. Wrapped(time) = time
        BY <1>2, InRange
    <2>2. -Quarter <= LateAt(now, m) - c
        BY <1>1, <1>3, Quarters
    <2> QED BY <1>1, <1>2, <1>3, <2>1, <2>2, Postponed
<1>5. list \in Seq(Timers) /\ Len(list) = m
    BY DEF Built
<1>6. /\ \A e \in 1 .. m : list[e].time \in Times /\ LateAt(now, list[e].time) \in Int
      /\ \A e \in 1 .. m : Cyclic[list[e].timer] \in 1 .. Quarter
    BY <1>2, <1>5, MemberOf, LateIs, TimeoutsConstants
<1>7. \A e \in 1 .. m : -Cyclic[list[e].timer] <= LateAt(now, list[e].time) /\ LateAt(now, list[e].time) <= now
    BY <1>5 DEF Built, Soon
<1>8. Near(list, now, time)
    <2> HIDE DEF time, c
    <2> SUFFICES ASSUME NEW e \in 1 .. m
                 PROVE  /\ LateAt(now, list[e].time) - LateAt(now, time) < 2 * Quarter
                        /\ LateAt(now, time) - LateAt(now, list[e].time) < 2 * Quarter
        BY <1>5 DEF Near
    <2>1. \A l, k, a \in Int :
              /\ -k <= l /\ l <= now /\ k <= Quarter
              /\ a = now - m - c
              => l - a < 2 * Quarter /\ a - l < 2 * Quarter
        BY <1>1, Quarters
    <2>2. Cyclic[list[e].timer] \in Int /\ Cyclic[list[e].timer] <= Quarter
        BY <1>6, Quarters
    <2>3. LateAt(now, time) \in Int
        BY <1>2, LateIs
    <2> QED BY <1>4, <1>6, <1>7, <2>1, <2>2, <2>3
<1>9. /\ new \in Seq(Timers) /\ Len(new) = m + 1
      /\ Ordered(new, now)
    BY <1>1, <1>2, <1>5, <1>8, Inserted, InsertedOrder DEF Built
<1>10. /\ \A e \in 1 .. m + 1 : new[e] = elem \/ \E d \in 1 .. m : new[e] = list[d]
       /\ \A d \in 1 .. m : \E e \in 1 .. m + 1 : new[e] = list[d]
       /\ \E e \in 1 .. m + 1 : new[e] = elem
    <2>1. Added(new, list, elem)
        BY <1>1, <1>2, <1>5, InsertedMembers
    <2> HIDE DEF new, elem
    <2> QED BY <1>5, <2>1 DEF Added
<1> HIDE DEF new
<1>11. Listed(new, m + 1)
    <2> SUFFICES ASSUME NEW i \in 1 .. m + 1 PROVE \E e \in 1 .. m + 1 : new[e].timer = i
        BY <1>9 DEF Listed
    <2>1. CASE i = m + 1
        BY <1>10, <2>1
    <2>2. CASE i \in 1 .. m
        <3>1. PICK d \in 1 .. m : list[d].timer = i
            BY <1>5, <2>2 DEF Built, Listed
        <3> QED BY <1>10, <3>1
    <2> QED BY <2>1, <2>2
<1>12. elem.time = time /\ elem.timer = m + 1
    OBVIOUS
<1>13. -c <= LateAt(now, time) /\ LateAt(now, time) <= now
    BY <1>1, <1>4, Quarters
<1>14. ASSUME NEW e \in 1 .. m + 1
       PROVE  -Cyclic[new[e].timer] <= LateAt(now, new[e].time) /\ LateAt(now, new[e].time) <= now
    <2>1. CASE new[e] = elem
        BY <1>12, <1>13, <2>1
    <2>2. CASE \E d \in 1 .. m : new[e] = list[d]
        BY <1>7, <2>2
    <2> QED BY <1>10, <2>1, <2>2
<1>15. Soon(new, now) /\ \A e \in 1 .. Len(new) : LateAt(now, new[e].time) <= now
    BY <1>9, <1>14 DEF Soon
<1>16. Built(new, m + 1)
    BY <1>9, <1>11, <1>15 DEF Built
<1> QED BY <1>16 DEF new

\* By induction over the timers: all of them.
LEMMA BuiltAll == Built(sys_timeouts_init[Len(Cyclic)], Len(Cyclic))
<1> USE Quarters
<1> DEFINE B(m) == Built(sys_timeouts_init[m], m)
           Bad == {m \in 0 .. Len(Cyclic) : ~ B(m)}
<1>1. B(0)
    <2>1. sys_timeouts_init[0] = <<>>
        BY InitDefined
    <2>2. <<>> \in Seq(Timers) /\ Len(<<>>) = 0
        OBVIOUS
    <2> QED BY <2>1, <2>2 DEF Built, Listed, Ordered, Soon
<1>2. ASSUME NEW m \in 0 .. Len(Cyclic) - 1, B(m) PROVE B(m + 1)
    <2>1. m + 1 \in 0 .. Len(Cyclic) /\ m + 1 # 0 /\ (m + 1) - 1 = m
        OBVIOUS
    <2>2. sys_timeouts_init[m + 1] = sys_timeout_abs(sys_timeouts_init[m], m + Cyclic[m + 1], m + 1)
        BY <2>1, InitDefined
    <2> QED BY <1>2, <2>2, BuildOne
<1> HIDE DEF B
<1>3. Bad = {}
    <2> SUFFICES ASSUME Bad # {} PROVE FALSE
        OBVIOUS
    <2>1. Bad \subseteq Nat
        OBVIOUS
    <2>2. PICK m \in Bad : \A n \in Bad : m <= n
        <3> HIDE DEF Bad
        <3> QED BY <2>1, LeastMember
    <2>3. m # 0
        BY <1>1, <2>2
    <2>4. m - 1 \in 0 .. Len(Cyclic) - 1 /\ m - 1 \in 0 .. Len(Cyclic) /\ (m - 1) + 1 = m /\ ~ (m <= m - 1)
        BY <2>3
    <2>5. B(m - 1)
        BY <2>2, <2>4
    <2>6. B(m)
        BY <1>2, <2>4, <2>5
    <2> QED BY <2>2, <2>6
<1>4. B(Len(Cyclic))
    BY <1>3
<1> QED BY <1>4 DEF B

\* The invariant holds when sys_timeouts_init returns.
LEMMA TimersInit == TimeoutsInit => TimersInv
<1> SUFFICES ASSUME TimeoutsInit PROVE TimersInv
    OBVIOUS
<1>1. Built(next_timeout, Len(Cyclic)) /\ fake_ticks = Len(Cyclic) /\ checking = Idle
    BY BuiltAll DEF TimeoutsInit
<1>2. Len(Cyclic) \in Times
    BY Quarters DEF Times
<1> QED BY <1>1, <1>2 DEF TimersInv, Built

\* A reading of the clock makes every timer of a list one later.
LEMMA TickList ==
    ASSUME NEW list \in Seq(Timers), NEW now \in Times,
           \A e \in 1 .. Len(list) : LateAt(now, list[e].time) <= Quarter,
           Ordered(list, now), Soon(list, now)
    PROVE  /\ \A e \in 1 .. Len(list) : LateAt(Wrapped(now + 1), list[e].time) = LateAt(now, list[e].time) + 1
           /\ Ordered(list, Wrapped(now + 1)) /\ Soon(list, Wrapped(now + 1))
<1> DEFINE L(e) == LateAt(now, list[e].time)
           M(e) == LateAt(Wrapped(now + 1), list[e].time)
           K(e) == Cyclic[list[e].timer]
<1>1. \A e \in 1 .. Len(list) : L(e) \in Int /\ K(e) \in Int
    BY MemberOf, LateIs, TimeoutsConstants
<1>2. ASSUME NEW e \in 1 .. Len(list) PROVE M(e) = L(e) + 1
    <2>1. L(e) < 2 * Quarter - 1
        BY <1>1, Quarters
    <2> QED BY <2>1, MemberOf, Tick
<1>3. /\ \A d, e \in 1 .. Len(list) : d <= e => L(e) <= L(d)
      /\ \A e \in 1 .. Len(list) : -K(e) <= L(e)
    BY DEF Ordered, Soon
<1> HIDE DEF L, M, K
<1>4. /\ \A d, e \in 1 .. Len(list) : d <= e => M(e) <= M(d)
      /\ \A e \in 1 .. Len(list) : -K(e) <= M(e)
    BY <1>1, <1>2, <1>3
<1> QED BY <1>2, <1>4 DEF Ordered, Soon, L, M, K

\* The current reading is not late.
LEMMA NowIsNow ==
    ASSUME NEW now \in Times
    PROVE  LateAt(now, now) = 0
<1>1. 0 \in Int /\ -Quarter <= 0 /\ 0 < 2 * Quarter /\ now - 0 = now
    BY Quarters DEF Times
<1>2. Wrapped(now) = now
    BY InRange
<1> QED BY <1>1, <1>2, LateOf

\* The pass takes the first timer off exactly if it is as late as the pass's own reading.
LEMMA FirstDue ==
    ASSUME TimersInv, checking # Idle
    PROVE  /\ Head(next_timeout) = next_timeout[1]
           /\ TIME_LESS_THAN(checking, Head(next_timeout).time)
                  <=> LateAt(fake_ticks, next_timeout[1].time) < LateAt(fake_ticks, checking)
<1> DEFINE p == LateAt(fake_ticks, checking)
           l == LateAt(fake_ticks, next_timeout[1].time)
           k == Cyclic[next_timeout[1].timer]
<1>1. /\ next_timeout \in Seq(Timers) /\ Len(next_timeout) = Len(Cyclic)
      /\ fake_ticks \in Times /\ checking \in Times
      /\ Soon(next_timeout, fake_ticks) /\ Passing(next_timeout, fake_ticks, p)
    BY DEF TimersInv
<1>2. 1 \in 1 .. Len(next_timeout)
    BY <1>1, Quarters
<1>3. /\ next_timeout[1].time \in Times /\ k \in 1 .. Quarter /\ l \in Int
      /\ -k <= l /\ l <= Len(Cyclic) + p /\ p \in 1 .. Len(Cyclic) + 1
    BY <1>1, <1>2, MemberOf, LateIs, TimeoutsConstants DEF Soon, Passing
<1>4. Head(next_timeout) = next_timeout[1]
    BY <1>1, <1>2, HeadTailProperties, EmptySeq
<1>5. p - l < 2 * Quarter /\ l - p < 2 * Quarter
    <2> HIDE DEF p, l, k
    <2> QED BY <1>3, Quarters
<1> QED BY <1>1, <1>3, <1>4, <1>5, Earlier

\* A pass begins with a reading of the clock.
LEMMA CheckInv == TimersInv /\ CheckTimeouts => TimersInv'
<1> SUFFICES ASSUME TimersInv, CheckTimeouts PROVE TimersInv'
    OBVIOUS
<1> DEFINE n == Len(Cyclic)
           now == fake_ticks
           tick == Wrapped(now + 1)
<1>1. /\ next_timeout \in Seq(Timers) /\ Len(next_timeout) = n /\ now \in Times
      /\ Ordered(next_timeout, now) /\ Soon(next_timeout, now) /\ Listed(next_timeout, n)
      /\ \A e \in 1 .. n : LateAt(now, next_timeout[e].time) <= n
    BY DEF TimersInv, CheckTimeouts
<1>2. \A e \in 1 .. n : LateAt(now, next_timeout[e].time) \in Int
    BY <1>1, MemberOf, LateIs
<1>3. \A e \in 1 .. n : LateAt(now, next_timeout[e].time) <= Quarter
    BY <1>1, <1>2, Quarters
<1>4. /\ \A e \in 1 .. n : LateAt(tick, next_timeout[e].time) = LateAt(now, next_timeout[e].time) + 1
      /\ Ordered(next_timeout, tick) /\ Soon(next_timeout, tick)
    BY <1>1, <1>3, TickList
<1>5. LateAt(tick, now) = 1 /\ tick \in Times
    <2>1. LateAt(now, now) = 0 /\ 0 < 2 * Quarter - 1
        BY <1>1, NowIsNow, Quarters
    <2>2. LateAt(now, now) < 2 * Quarter - 1
        BY <2>1
    <2>3. LateAt(tick, now) = LateAt(now, now) + 1 /\ tick \in Times
        BY <1>1, <2>2, Tick
    <2> QED BY <2>1, <2>3
<1>6. fake_ticks' = tick /\ checking' = now /\ next_timeout' = next_timeout
    BY DEF CheckTimeouts, Wrapped
<1> HIDE DEF tick
<1>7. Passing(next_timeout, tick, 1)
    BY <1>1, <1>2, <1>4, Quarters DEF Passing
<1>8. checking' # Idle
    BY <1>1, <1>6 DEF Idle, Times
<1> QED BY <1>1, <1>4, <1>5, <1>6, <1>7, <1>8 DEF TimersInv

\* A pass ends when the first timer is not due: then none is.
LEMMA CheckedInv == TimersInv /\ Checked => TimersInv'
<1> SUFFICES ASSUME TimersInv, Checked PROVE TimersInv'
    OBVIOUS
<1> DEFINE n == Len(Cyclic)
           L(e) == LateAt(fake_ticks, next_timeout[e].time)
           p == LateAt(fake_ticks, checking)
<1>1. checking # Idle /\ TIME_LESS_THAN(checking, Head(next_timeout).time)
    BY DEF Checked
<1>2. L(1) < p /\ p \in 1 .. n + 1
    BY <1>1, FirstDue DEF TimersInv, Passing
<1>3. /\ \A e \in 1 .. n : L(e) \in Int
      /\ \A d, e \in 1 .. n : d <= e => L(e) <= L(d)
    BY MemberOf, LateIs DEF TimersInv, Ordered
<1> HIDE DEF L, p
<1>4. \A e \in 1 .. n : L(e) <= n
    <2> TAKE e \in 1 .. n
    <2>1. 1 \in 1 .. n /\ 1 <= e
        BY Quarters
    <2>2. L(e) <= L(1)
        BY <1>3, <2>1
    <2> QED BY <1>2, <1>3, <2>1, <2>2, Quarters
<1>5. checking' = Idle /\ fake_ticks' = fake_ticks /\ next_timeout' = next_timeout
    BY DEF Checked
<1> QED BY <1>4, <1>5 DEF TimersInv, L

\* The time at which lwip_cyclic_timer restarts a timer of interval c.
Restart(now, t, c) == IF TIME_LESS_THAN(Wrapped(t + c), now) THEN Wrapped(now + c) ELSE Wrapped(t + c)

\* A timer that is restarted is not due in the same pass.
LEMMA Restarted ==
    ASSUME NEW now \in Times, NEW t \in Times, NEW c \in 1 .. Quarter,
           1 <= LateAt(now, t), LateAt(now, t) <= Quarter
    PROVE  /\ Restart(now, t, c) \in Times
           /\ -c <= LateAt(now, Restart(now, t, c)) /\ LateAt(now, Restart(now, t, c)) <= 0
<1> DEFINE a == LateAt(now, t)
           u == Wrapped(t + c)
           v == Wrapped(now + c)
<1>1. a \in Int /\ 1 <= a /\ a <= Quarter
    BY LateIs
<1>2. u \in Times /\ LateAt(now, u) = a - c
    <2>1. -Quarter <= LateAt(now, t) - c
        BY <1>1, Quarters
    <2> QED BY <2>1, Postponed
<1>3. LateAt(now, now) = 0
    BY NowIsNow
<1>4. v \in Times /\ LateAt(now, v) = 0 - c
    <2>1. -Quarter <= LateAt(now, now) - c
        BY <1>3, Quarters
    <2> QED BY <1>3, <2>1, Postponed
<1>5. TIME_LESS_THAN(u, now) <=> 0 < a - c
    <2> HIDE DEF a, u
    <2>1. LateAt(now, u) - LateAt(now, now) < 2 * Quarter /\ LateAt(now, now) - LateAt(now, u) < 2 * Quarter
        BY <1>1, <1>2, <1>3, Quarters
    <2> QED BY <1>2, <1>3, <2>1, Earlier
<1>6. Restart(now, t, c) = IF 0 < a - c THEN v ELSE u
    BY <1>5 DEF Restart
<1> HIDE DEF a, u, v
<1> QED BY <1>1, <1>2, <1>4, <1>6

\* The first timer is taken off the list and comes back behind those that are due.
LEMMA ExpireInv == TimersInv /\ Expire => TimersInv'
<1> SUFFICES ASSUME TimersInv, Expire PROVE TimersInv'
    OBVIOUS
<1> DEFINE n == Len(Cyclic)
           now == fake_ticks
           tick == Wrapped(now + 1)
           list == next_timeout
           rest == Tail(list)
           h == list[1]
           c == Cyclic[h.timer]
           p == LateAt(now, checking)
           L(e) == LateAt(now, list[e].time)
           time == Restart(now, h.time, c)
           b == LateAt(now, time)
           new == sys_timeout_abs(rest, time, h.timer)
           M(e) == LateAt(now, new[e].time)
<1>1. /\ list \in Seq(Timers) /\ Len(list) = n /\ now \in Times /\ checking \in Times
      /\ Ordered(list, now) /\ Soon(list, now) /\ Listed(list, n)
      /\ Passing(list, now, p) /\ checking # Idle
    BY DEF TimersInv, Expire
<1>2. Head(list) = h /\ ~ (L(1) < p)
    BY <1>1, FirstDue DEF Expire
<1>3. /\ next_timeout' = new /\ fake_ticks' = tick /\ checking' = checking
    BY <1>2 DEF Expire, Wrapped, Restart
<1>4. 1 \in 1 .. n /\ n \in Nat
    BY Quarters
<1>5. /\ h \in Timers /\ h.time \in Times /\ h.timer \in 1 .. n /\ c \in 1 .. Quarter
    BY <1>1, <1>4, MemberOf, TimeoutsConstants
<1>6. /\ p \in 1 .. n + 1
      /\ \A e \in 1 .. n : L(e) \in Int /\ L(e) <= n + p
      /\ \A e \in 1 .. n : e > n - (p - 1) => L(e) < p
      /\ \A e \in 1 .. n : -Cyclic[list[e].timer] <= L(e) /\ Cyclic[list[e].timer] \in 1 .. Quarter
    BY <1>1, MemberOf, LateIs, TimeoutsConstants DEF Passing, Soon
<1>7. p \in 1 .. n
    <2> HIDE DEF p, L
    <2>1. ~ (1 > n - (p - 1))
        BY <1>2, <1>4, <1>6
    <2> QED BY <1>4, <1>6, <2>1
<1>8. \A e \in 1 .. n : L(e) < Quarter /\ -Quarter <= L(e)
    <2> HIDE DEF p, L
    <2>1. \A l, k \in Int : l <= n + p /\ -k <= l /\ k <= Quarter => l < Quarter /\ -Quarter <= l
        BY <1>4, <1>7, Quarters
    <2> TAKE e \in 1 .. n
    <2>2. /\ L(e) \in Int /\ Cyclic[list[e].timer] \in Int /\ Cyclic[list[e].timer] <= Quarter
          /\ L(e) <= n + p /\ -Cyclic[list[e].timer] <= L(e)
        BY <1>6, Quarters
    <2> QED BY <2>1, <2>2
<1>9. 1 <= LateAt(now, h.time) /\ LateAt(now, h.time) <= Quarter
    <2>1. 1 <= L(1) /\ L(1) <= Quarter
        <3> HIDE DEF L, p
        <3> QED BY <1>2, <1>4, <1>6, <1>7, <1>8, Quarters
    <2> QED BY <2>1
<1>10. time \in Times /\ b \in Int /\ -c <= b /\ b <= 0
    <2>1. time \in Times /\ -c <= b /\ b <= 0
        BY <1>1, <1>5, <1>9, Restarted
    <2> HIDE DEF time
    <2> QED BY <1>1, <2>1, LateIs
<1> HIDE DEF time
<1>11. /\ rest \in Seq(Timers) /\ Len(rest) = n - 1
       /\ \A e \in 1 .. n - 1 : rest[e] = list[e + 1]
    <2>1. list # <<>>
        BY <1>1, <1>4, EmptySeq
    <2> QED BY <1>1, <1>4, <2>1, HeadTailProperties
<1>12. \A e \in 1 .. n - 1 : e + 1 \in 1 .. n
    BY <1>4
<1>13. Ordered(rest, now)
    <2> SUFFICES ASSUME NEW d \in 1 .. n - 1, NEW e \in 1 .. n - 1, d <= e
                 PROVE  LateAt(now, rest[e].time) <= LateAt(now, rest[d].time)
        BY <1>11 DEF Ordered
    <2>1. d + 1 \in 1 .. n /\ e + 1 \in 1 .. n /\ d + 1 <= e + 1
        BY <1>4
    <2>2. L(e + 1) <= L(d + 1)
        BY <1>1, <2>1 DEF Ordered
    <2> QED BY <1>11, <2>2
<1>14. Near(rest, now, time)
    <2> SUFFICES ASSUME NEW e \in 1 .. n - 1
                 PROVE  L(e + 1) - b < 2 * Quarter /\ b - L(e + 1) < 2 * Quarter
        BY <1>11 DEF Near
    <2>1. L(e + 1) \in Int /\ L(e + 1) < Quarter /\ -Quarter <= L(e + 1)
        BY <1>6, <1>8, <1>12
    <2> HIDE DEF L, b, c
    <2> QED BY <1>5, <1>10, <2>1, Quarters
<1> HIDE DEF rest, new
<1>15. new \in Seq(Timers) /\ Len(new) = n /\ Ordered(new, now)
    <2>1. (n - 1) + 1 = n
        BY <1>4
    <2>2. new \in Seq(Timers) /\ Len(new) = Len(rest) + 1
        BY <1>5, <1>10, <1>11, Inserted DEF new
    <2>3. Ordered(new, now)
        BY <1>1, <1>5, <1>10, <1>11, <1>13, <1>14, InsertedOrder DEF new
    <2> QED BY <1>11, <2>1, <2>2, <2>3
<1>16. PICK at \in 1 .. n :
           /\ new[at] = [time |-> time, timer |-> h.timer]
           /\ \A e \in 1 .. at - 1 : new[e] = list[e + 1]
           /\ \A e \in at + 1 .. n : new[e] = list[e]
    <2>1. PICK at \in 1 .. Len(rest) + 1 : Placed(new, rest, time, h.timer, at)
        BY <1>5, <1>10, <1>11, Inserted DEF new
    <2>2. at \in 1 .. n /\ Len(rest) + 1 = n
        BY <1>4, <1>11, <2>1
    <2>3. \A e \in 1 .. at - 1 : new[e] = list[e + 1]
        <3> TAKE e \in 1 .. at - 1
        <3>1. e \in 1 .. n - 1
            BY <1>4, <2>2
        <3> QED BY <1>11, <2>1, <3>1 DEF Placed
    <2>4. \A e \in at + 1 .. n : new[e] = list[e]
        <3> TAKE e \in at + 1 .. n
        <3>1. e - 1 \in 1 .. n - 1 /\ (e - 1) + 1 = e /\ e \in at + 1 .. Len(rest) + 1
            BY <1>4, <2>2
        <3> QED BY <1>11, <2>1, <3>1 DEF Placed
    <2>5. new[at] = [time |-> time, timer |-> h.timer]
        BY <2>1 DEF Placed
    <2> QED BY <2>2, <2>3, <2>4, <2>5
<1>17. M(at) = b /\ new[at].timer = h.timer
    BY <1>16
<1>18. /\ \A e \in 1 .. at - 1 : M(e) = L(e + 1) /\ new[e].timer = list[e + 1].timer
       /\ \A e \in at + 1 .. n : M(e) = L(e) /\ new[e].timer = list[e].timer
    BY <1>16
<1>19. \A e \in 1 .. n : e \in 1 .. at - 1 \/ e = at \/ e \in at + 1 .. n
    BY <1>4
<1>20. \A e \in 1 .. at - 1 : e + 1 \in 1 .. n
    BY <1>4
<1>21. \A e \in at + 1 .. n : e \in 1 .. n
    BY <1>4
<1>22. Listed(new, n)
    <2> SUFFICES ASSUME NEW i \in 1 .. n PROVE \E e \in 1 .. n : new[e].timer = i
        BY <1>15 DEF Listed
    <2>1. PICK e \in 1 .. n : list[e].timer = i
        BY <1>1 DEF Listed
    <2>2. CASE e = 1
        BY <1>17, <2>1, <2>2
    <2>3. CASE e # 1 /\ e - 1 < at
        <3>1. e - 1 \in 1 .. at - 1 /\ e - 1 \in 1 .. n /\ (e - 1) + 1 = e
            BY <1>4, <2>3
        <3> QED BY <1>18, <2>1, <3>1
    <2>4. CASE e # 1 /\ ~ (e - 1 < at)
        <3>1. e \in at + 1 .. n
            BY <1>4, <2>4
        <3> QED BY <1>18, <2>1, <3>1
    <2> QED BY <2>2, <2>3, <2>4
<1>23. \A e \in 1 .. n : M(e) \in Int
    BY <1>1, <1>15, MemberOf, LateIs
<1> HIDE DEF M, L, p, b, c
<1>24. \A e \in 1 .. n : -Cyclic[new[e].timer] <= M(e) /\ M(e) <= n + p /\ M(e) <= Quarter
    <2> TAKE e \in 1 .. n
    <2>1. CASE e = at
        <3>1. b <= n + p /\ b <= Quarter
            BY <1>4, <1>7, <1>10, Quarters
        <3> QED BY <1>10, <1>17, <2>1, <3>1 DEF c
    <2>2. CASE e \in 1 .. at - 1
        <3>1. /\ -Cyclic[list[e + 1].timer] <= L(e + 1) /\ L(e + 1) <= n + p
              /\ L(e + 1) < Quarter /\ L(e + 1) \in Int
            BY <1>6, <1>8, <1>20, <2>2
        <3>2. L(e + 1) <= Quarter
            BY <3>1, Quarters
        <3> QED BY <1>18, <2>2, <3>1, <3>2
    <2>3. CASE e \in at + 1 .. n
        <3>1. /\ -Cyclic[list[e].timer] <= L(e) /\ L(e) <= n + p
              /\ L(e) < Quarter /\ L(e) \in Int
            BY <1>6, <1>8, <1>21, <2>3
        <3>2. L(e) <= Quarter
            BY <3>1, Quarters
        <3> QED BY <1>18, <2>3, <3>1, <3>2
    <2> QED BY <1>19, <2>1, <2>2, <2>3
<1>25. /\ \A e \in 1 .. n : LateAt(tick, new[e].time) = M(e) + 1
       /\ Ordered(new, tick) /\ Soon(new, tick)
    <2>1. Soon(new, now)
        BY <1>15, <1>24 DEF Soon, M
    <2>2. \A e \in 1 .. n : LateAt(now, new[e].time) <= Quarter
        BY <1>24 DEF M
    <2> QED BY <1>1, <1>15, <2>1, <2>2, TickList DEF M
<1>26. tick \in Times /\ LateAt(tick, checking) = p + 1
    <2>1. LateAt(now, checking) < 2 * Quarter - 1
        <3>1. p < 2 * Quarter - 1
            BY <1>4, <1>7, Quarters
        <3> QED BY <3>1 DEF p
    <2> QED BY <1>1, <2>1, Tick DEF p
<1>27. \A e \in 1 .. n : e > n - p => M(e) < p
    <2> SUFFICES ASSUME NEW e \in 1 .. n, e > n - p PROVE M(e) < p
        OBVIOUS
    <2>1. CASE e = at
        BY <1>7, <1>10, <1>17, <2>1
    <2>2. CASE e \in 1 .. at - 1
        <3>1. e + 1 \in 1 .. n /\ e + 1 > n - (p - 1)
            BY <1>4, <1>7, <1>20, <2>2
        <3> QED BY <1>6, <1>18, <2>2, <3>1
    <2>3. CASE e \in at + 1 .. n
        <3>1. at \in 1 .. n /\ at <= e
            BY <2>3
        <3>2. M(e) <= M(at)
            BY <1>15, <3>1 DEF Ordered, M
        <3> QED BY <1>7, <1>10, <1>17, <1>23, <3>2
    <2> QED BY <1>19, <2>1, <2>2, <2>3
<1> HIDE DEF tick
<1>28. Passing(new, tick, p + 1)
    <2>1. p + 1 \in 1 .. n + 1 /\ n - ((p + 1) - 1) = n - p
        BY <1>4, <1>7
    <2>2. \A e \in 1 .. n : M(e) + 1 <= n + (p + 1)
        <3>1. \A a \in Int : a <= n + p => a + 1 <= n + (p + 1)
            BY <1>4, <1>7
        <3> QED BY <1>23, <1>24, <3>1
    <2>3. \A e \in 1 .. n : e > n - p => M(e) + 1 < p + 1
        BY <1>7, <1>23, <1>27
    <2> QED BY <1>15, <1>25, <2>1, <2>2, <2>3 DEF Passing
<1> QED BY <1>1, <1>3, <1>15, <1>22, <1>25, <1>26, <1>28 DEF TimersInv

\* For every list of cyclic timers and every width of the clock: when
\* sys_check_timeouts returns, every timer is in the list, due within its
\* interval and late by no more than the readings of one pass, however often
\* the clock has wrapped.
THEOREM TimersAlwaysOnTime == TimeoutsSpec => []TimersOnTime
<1>1. TimersInv /\ [TimeoutsNext]_timeoutVars => TimersInv'
    <2>1. TimersInv /\ UNCHANGED timeoutVars => TimersInv'
        BY DEF TimersInv, timeoutVars
    <2> QED BY <2>1, CheckInv, CheckedInv, ExpireInv DEF TimeoutsNext
<1>2. TimersInv => TimersOnTime
    <2> SUFFICES ASSUME TimersInv, checking = Idle
                 PROVE  /\ Len(next_timeout) = Len(Cyclic)
                        /\ \A i \in DOMAIN Cyclic :
                               \E e \in DOMAIN next_timeout :
                                   /\ next_timeout[e].timer = i
                                   /\ Late(next_timeout[e].time) \in -Cyclic[i] .. Len(Cyclic)
        BY DEF TimersOnTime
    <2>1. /\ next_timeout \in Seq(Timers) /\ Len(next_timeout) = Len(Cyclic)
          /\ DOMAIN next_timeout = 1 .. Len(Cyclic) /\ DOMAIN Cyclic = 1 .. Len(Cyclic)
        BY LenProperties, TimeoutsConstants DEF TimersInv
    <2> SUFFICES ASSUME NEW i \in 1 .. Len(Cyclic)
                 PROVE  \E e \in 1 .. Len(Cyclic) :
                            /\ next_timeout[e].timer = i
                            /\ Late(next_timeout[e].time) \in -Cyclic[i] .. Len(Cyclic)
        BY <2>1
    <2>2. PICK e \in 1 .. Len(Cyclic) : next_timeout[e].timer = i
        BY <2>1 DEF TimersInv, Listed
    <2>3. /\ LateAt(fake_ticks, next_timeout[e].time) \in Int
          /\ -Cyclic[i] <= LateAt(fake_ticks, next_timeout[e].time)
          /\ LateAt(fake_ticks, next_timeout[e].time) <= Len(Cyclic)
        BY <2>1, <2>2, MemberOf, LateIs DEF TimersInv, Soon
    <2>4. Late(next_timeout[e].time) = LateAt(fake_ticks, next_timeout[e].time)
        BY DEF Late, LateAt
    <2>5. Cyclic[i] \in Int /\ Len(Cyclic) \in Int
        BY TimeoutsConstants
    <2> QED BY <2>2, <2>3, <2>4, <2>5
<1> QED BY TimersInit, <1>1, <1>2, PTL DEF TimeoutsSpec
=============================================================================
