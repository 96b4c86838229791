---------------------------- MODULE NetworkProofs ---------------------------
(***************************************************************************)
(* Proofs about two parts that keep count of what they send: the           *)
(* connectivity monitor of the main loop, and the ARP table of lwIP with   *)
(* the packets it holds back.                                              *)
(***************************************************************************)
EXTENDS Etharp, NetMonitor, FiniteSetTheorems, WellFoundedInduction, TLAPS

-----------------------------------------------------------------------------
(* The network monitor raises no false alarm, for every size of a batch,   *)
(* every time limit, every length of a frame and every point at which the  *)
(* tick counter wraps.                                                     *)

\* What holds on a network that has always answered: the replies of this
\* batch are counted or on their way, and there are no others.
Accounted ==
    /\ net = "up" /\ late = 0
    /\ pings_sent \in 0 .. Batch /\ pings_received \in Nat /\ pending \in Nat
    /\ pings_sent = 0 => pending = 0
    /\ pings_sent # 0 => pings_received + pending = pings_sent
    /\ current_net_status # "DISCONNECTED"

MonitorInv == clean => Accounted

\* The size of a batch is positive.
LEMMA BatchSize == Batch \in Nat /\ Batch >= 1
BY MonitorAssumption

\* Nothing has been sent at boot.
LEMMA MonitorInitInv == MonitorInit => MonitorInv
<1> SUFFICES ASSUME MonitorInit, clean PROVE Accounted
    BY DEF MonitorInv
<1>1. clean = (net = "up")
    BY DEF MonitorInit
<1>2. net = "up"
    BY <1>1, Zenon
<1> QED BY <1>2, BatchSize DEF MonitorInit, Accounted

\* A request that is sent on a network that answers is answered.
LEMMA SendAnswered ==
    ASSUME net = "up", NEW carried \in Nat, send_ping_packet(carried)
    PROVE  pings_sent' = pings_sent + 1 /\ pending' = carried + 1
BY DEF send_ping_packet

\* The verdict of a batch with all its replies in is never a lost connection.
LEMMA FrameInv == MonitorInv /\ update_network_monitor => MonitorInv'
<1> SUFFICES ASSUME Accounted, update_network_monitor, clean PROVE Accounted'
    BY DEF MonitorInv, update_network_monitor
<1> USE BatchSize
<1>1. net = "up" /\ net' = "up" /\ pending = 0 /\ 0 \in Nat
    BY DEF Accounted, update_network_monitor
<1>2. CASE StartBatch
    <2>1. CASE MsSinceLastBatch >= Threshold
        <3>1. /\ pings_received' = 0 /\ send_ping_packet(0) /\ pings_sent = 0
              /\ late' = IF late + pending > MaxLate THEN MaxLate ELSE late + pending
              /\ current_net_status' = current_net_status
            BY <1>2, <2>1 DEF StartBatch
        <3>2. pings_sent' = 1 /\ pending' = 1
            BY <1>1, <3>1, SendAnswered
        <3>3. late' = 0
            BY <1>1, <3>1, MonitorAssumption DEF Accounted
        <3> QED BY <1>1, <3>1, <3>2, <3>3 DEF Accounted
    <2>2. CASE ~(MsSinceLastBatch >= Threshold)
        <3>1. UNCHANGED <<pings_received, pings_sent, pending, late, current_net_status>>
            BY <1>2, <2>2 DEF StartBatch
        <3> QED BY <1>1, <3>1 DEF Accounted
    <2> QED BY <2>1, <2>2
<1>3. CASE NextPing
    <2>1. CASE Since(timer_ticks, last_packet_sent_tick) > Gap
        <3>1. /\ send_ping_packet(pending) /\ pings_sent \in 1 .. Batch - 1
              /\ UNCHANGED <<pings_received, late, current_net_status>>
            BY <1>3, <2>1 DEF NextPing
        <3>2. pings_sent' = pings_sent + 1 /\ pending' = 1
            BY <1>1, <3>1, SendAnswered
        <3> QED BY <1>1, <3>1, <3>2 DEF Accounted
    <2>2. CASE ~(Since(timer_ticks, last_packet_sent_tick) > Gap)
        <3>1. UNCHANGED <<pings_received, pings_sent, pending, late, current_net_status>>
            BY <1>3, <2>2 DEF NextPing
        <3> QED BY <1>1, <3>1 DEF Accounted
    <2> QED BY <2>1, <2>2
<1>4. CASE StartWait
    BY <1>1, <1>4 DEF StartWait, Accounted
<1>5. CASE Verdict
    <2>1. pings_received = Batch
        BY <1>1, <1>5 DEF Verdict, Accounted
    <2>2. Close("CONNECTED")
        BY <1>5, <2>1 DEF Verdict
    <2> QED BY <1>1, <2>2 DEF Close, Accounted
<1> QED BY <1>2, <1>3, <1>4, <1>5 DEF update_network_monitor

\* Every step keeps the account.
LEMMA MonitorStepInv == MonitorInv /\ [MonitorNext]_monitorVars => MonitorInv'
<1> SUFFICES ASSUME MonitorInv, [MonitorNext]_monitorVars PROVE MonitorInv'
    OBVIOUS
<1>1. CASE Tick
    BY <1>1 DEF Tick, monitor, MonitorInv, Accounted
<1>2. CASE Settle
    BY <1>2 DEF Settle, monitor, MonitorInv, Accounted
<1>3. CASE Lose
    BY <1>3 DEF Lose, monitor, MonitorInv, Accounted
<1>4. CASE Duplicate
    BY <1>4 DEF Duplicate, monitor, MonitorInv, Accounted
<1>5. CASE ping_recv_cb
    BY <1>5, BatchSize DEF ping_recv_cb, MonitorInv, Accounted
<1>6. CASE update_network_monitor
    BY <1>6, FrameInv
<1>7. CASE UNCHANGED monitorVars
    BY <1>7 DEF monitorVars, monitor, MonitorInv, Accounted
<1> QED BY <1>1, <1>2, <1>3, <1>4, <1>5, <1>6, <1>7 DEF MonitorNext

\* update_network_monitor never shows a lost connection on a network that
\* has always answered, however long frames take and wherever ticks wrap.
THEOREM NoFalseAlarmAlways == MonitorSpec => []NoFalseAlarm
<1>1. MonitorInv => NoFalseAlarm
    BY DEF MonitorInv, Accounted, NoFalseAlarm
<1> QED BY MonitorInitInv, MonitorStepInv, <1>1, PTL DEF MonitorSpec

-----------------------------------------------------------------------------
(* The ARP table, for every size of it, every set of hosts and packets and *)
(* every age limit.                                                        *)

\* The states of an entry.
States == {"EMPTY", "PENDING", "STABLE", "STABLE_REREQUESTING_1", "STABLE_REREQUESTING_2"}
Entries == [state : States, ipaddr : Hosts \cup {None}, ethaddr : Macs \cup {None},
            ctime : 0 .. ARP_MAXAGE - 1, q : Pbufs \cup {None}]

\* The table, the cached index, the references and the announcements have their types.
ArpTypeOK ==
    /\ arp_table \in [Index -> Entries]
    /\ etharp_cached_entry \in Index
    /\ refs \in [Pbufs -> Int]
    /\ heard \in [Hosts -> Macs \cup {None}]

\* An entry in use is for a host, and only a pending one holds a packet, to that host.
EntrySound(e) ==
    /\ e.state = "EMPTY" => e = EmptyEntry
    /\ e.state # "EMPTY" => e.ipaddr \in Hosts
    /\ e.q # None => e.state = "PENDING" /\ e.q.dst = e.ipaddr

\* No host has two entries.
OnePerHost ==
    \A i, j \in Index :
        arp_table[i].ipaddr = arp_table[j].ipaddr /\ arp_table[i].ipaddr # None => i = j

\* A packet is counted once while some entry holds it.
CountsQueues ==
    \A p \in Pbufs : refs[p] = IF \E i \in Index : arp_table[i].q = p THEN 1 ELSE 0

\* A stable entry has the address its host announced last.
NotesHeard ==
    \A i \in Index : arp_table[i].state \notin {"EMPTY", "PENDING"} =>
        arp_table[i].ethaddr = heard[arp_table[i].ipaddr]

ArpInv ==
    /\ ArpTypeOK /\ OnePerHost /\ CountsQueues /\ NotesHeard
    /\ \A i \in Index : EntrySound(arp_table[i])

\* The constants as the proofs use them.
LEMMA ArpConstants ==
    /\ None \notin Hosts /\ None \notin Macs /\ None \notin Pbufs
    /\ Gateway \in Hosts
    /\ ARP_TABLE_SIZE \in Nat \ {0} /\ ARP_MAXAGE \in Nat \ {0}
    /\ ARP_MAXPENDING \in Nat /\ RerequestAge \in Nat
    /\ 0 \in Index
BY EtharpAssumption DEF Pbufs, Index

\* A set of natural numbers has a least member, ...
LEMMA LeastMember ==
    ASSUME NEW S, S \subseteq Nat, S # {}
    PROVE  \E m \in S : \A n \in S : m <= n
<1> DEFINE R == OpToRel(<, Nat)
<1>1. IsWellFoundedOn(R, Nat)
    BY NatLessThanWellFounded
<1>2. PICK m \in S : \A n \in S : <<n, m>> \notin R
    <2> HIDE DEF R
    <2> QED BY <1>1, WFMin
<1>3. \A n \in S : ~ (n < m)
    BY <1>2 DEF OpToRel
<1> QED BY <1>3

\* ... and a greatest one if it is bounded.
LEMMA GreatestMember ==
    ASSUME NEW S, NEW b \in Nat, S \subseteq 0 .. b, S # {}
    PROVE  \E m \in S : \A n \in S : n <= m
<1> DEFINE T == {t \in Nat : b - t \in S}
<1>1. T \subseteq Nat /\ T # {}
    <2>1. PICK n \in S : TRUE
        OBVIOUS
    <2>2. n \in 0 .. b /\ b - n \in Nat /\ b - (b - n) = n
        OBVIOUS
    <2>3. b - n \in T
        BY <2>2
    <2> QED BY <2>3
<1>2. PICK t \in T : \A u \in T : t <= u
    <2> HIDE DEF T
    <2> QED BY <1>1, LeastMember
<1>3. ASSUME NEW n \in S PROVE n <= b - t
    <2>1. n \in 0 .. b /\ b - n \in Nat /\ b - (b - n) = n
        OBVIOUS
    <2>2. t <= b - n
        BY <1>2, <2>1
    <2> QED BY <2>1, <2>2
<1> QED BY <1>3

\* Some entry is the oldest of a non-empty set.
LEMMA OldestMember ==
    ASSUME ArpTypeOK, NEW S, S \subseteq Index, S # {}
    PROVE  Oldest(S) \in S
<1> USE ArpConstants
<1> DEFINE C == {arp_table[i].ctime : i \in S}
<1>0. \A i \in S : arp_table[i].ctime \in 0 .. ARP_MAXAGE - 1
    BY DEF ArpTypeOK, Entries
<1>1. C \subseteq 0 .. ARP_MAXAGE - 1 /\ C # {}
    BY <1>0
<1>2. PICK c \in C : \A d \in C : d <= c
    <2> HIDE DEF C
    <2>1. ARP_MAXAGE - 1 \in Nat
        OBVIOUS
    <2> QED BY <1>1, <2>1, GreatestMember
<1> DEFINE T == {i \in S : arp_table[i].ctime = c}
<1>3. T \subseteq 0 .. ARP_TABLE_SIZE - 1 /\ T # {}
    BY DEF Index
<1>4. PICK i \in T : \A j \in T : j <= i
    <2> HIDE DEF T
    <2>1. ARP_TABLE_SIZE - 1 \in Nat
        OBVIOUS
    <2> QED BY <1>3, <2>1, GreatestMember
<1>5. ASSUME NEW j \in S
      PROVE  \/ arp_table[j].ctime < arp_table[i].ctime
             \/ arp_table[j].ctime = arp_table[i].ctime /\ j <= i
    <2>1. arp_table[j].ctime <= c /\ arp_table[i].ctime = c
        BY <1>2, <1>4
    <2>2. CASE arp_table[j].ctime = c
        BY <2>1, <2>2, <1>4
    <2>3. CASE arp_table[j].ctime # c
        BY <2>1, <2>3, <1>0
    <2> QED BY <2>2, <2>3
<1>6. i \in S
    BY <1>4
<1> QED BY <1>5, <1>6 DEF Oldest

\* What etharp_find_entry returns: the entry of the address if there is one,
\* else any.
LEMMA FoundEntry ==
    ASSUME ArpInv, NEW a \in Hosts, NEW hard \in BOOLEAN, NEW i \in etharp_find_entry(a, hard)
    PROVE  /\ i \in Index
           /\ \A j \in Index : arp_table[j].ipaddr = a => j = i
<1> DEFINE match == {j \in Used : arp_table[j].ipaddr = a}
           empty == Index \ Used
           idle == {j \in Used \ Stable : arp_table[j].q = None}
<1>1. Used \subseteq Index /\ Stable \subseteq Used /\ Index \subseteq Nat
    BY ArpConstants DEF Used, Stable, Index
<1>2. \A j \in Index : arp_table[j].ipaddr = a => j \in match
    BY ArpConstants DEF ArpInv, EntrySound, Used, EmptyEntry
<1>3. CASE match # {}
    <2>1. i = CHOOSE k \in match : \A j \in match : k <= j
        BY <1>3 DEF etharp_find_entry
    <2>2. \E k \in match : \A j \in match : k <= j
        <3>1. match \subseteq Nat
            BY <1>1
        <3> HIDE DEF match
        <3> QED BY <1>3, <3>1, LeastMember
    <2>3. i \in match
        BY <2>1, <2>2
    <2> QED BY <1>1, <2>3, ArpConstants DEF ArpInv, OnePerHost
<1>4. CASE match = {}
    <2>1. i = IF empty # {} THEN CHOOSE k \in empty : \A j \in empty : k <= j
              ELSE IF Stable # {} THEN Oldest(Stable)
              ELSE IF idle # {} THEN Oldest(idle) ELSE Oldest(Used)
        BY <1>4 DEF etharp_find_entry
    <2>2. CASE empty # {}
        <3>1. \E k \in empty : \A j \in empty : k <= j
            <4>1. empty \subseteq Nat
                BY <1>1
            <4> HIDE DEF empty
            <4> QED BY <2>2, <4>1, LeastMember
        <3>2. i \in empty
            BY <2>1, <2>2, <3>1
        <3> QED BY <1>2, <1>4, <3>2
    <2>3. CASE empty = {}
        <3>1. Used # {}
            BY <1>1, <2>3, ArpConstants
        <3>2. i \in {Oldest(S) : S \in {T \in {Stable, idle, Used} : T # {}}}
            BY <2>1, <2>3, <3>1
        <3>3. PICK S \in {Stable, idle, Used} : S # {} /\ i = Oldest(S)
            BY <3>2
        <3>4. S \subseteq Index
            BY <1>1, <3>3
        <3>5. i \in Index
            BY <3>3, <3>4, OldestMember DEF ArpInv
        <3> QED BY <1>2, <1>4, <3>5
    <2> QED BY <2>2, <2>3
<1> QED BY <1>3, <1>4

\* No packet is in two entries.
LEMMA OneQueue ==
    ASSUME ArpInv, NEW i \in Index, NEW j \in Index,
           arp_table[i].q # None, arp_table[i].q = arp_table[j].q
    PROVE  i = j
<1>1. /\ arp_table[i].q.dst = arp_table[i].ipaddr
      /\ arp_table[j].q.dst = arp_table[j].ipaddr
      /\ arp_table[i].ipaddr \in Hosts
    BY DEF ArpInv, EntrySound
<1> QED BY <1>1, ArpConstants DEF ArpInv, OnePerHost

\* One entry is written, for a host that has no other.
LEMMA TableStep ==
    ASSUME ArpInv, NEW i \in Index, NEW e \in Entries,
           \A j \in Index : arp_table[j].ipaddr = e.ipaddr => j = i,
           EntrySound(e), arp_table' = [arp_table EXCEPT ![i] = e]
    PROVE  /\ arp_table' \in [Index -> Entries] /\ OnePerHost'
           /\ \A j \in Index : EntrySound(arp_table'[j])
<1>1. arp_table' \in [Index -> Entries]
    BY DEF ArpInv, ArpTypeOK
<1>2. \A j \in Index : arp_table'[j] = IF j = i THEN e ELSE arp_table[j]
    BY DEF ArpInv, ArpTypeOK
<1>3. OnePerHost'
    BY <1>2 DEF ArpInv, OnePerHost
<1> QED BY <1>1, <1>2, <1>3 DEF ArpInv

\* The packet of one entry is exchanged, and the counts with it.
LEMMA CountStep ==
    ASSUME ArpInv, NEW i \in Index, NEW new,
           new # arp_table[i].q /\ new \in Pbufs => refs[new] = 0,
           \A j \in Index : arp_table'[j].q = IF j = i THEN new ELSE arp_table[j].q,
           \A p \in Pbufs : refs'[p] = IF p = new THEN 1
                                       ELSE IF p = arp_table[i].q THEN 0 ELSE refs[p]
    PROVE  CountsQueues'
<1> SUFFICES ASSUME NEW p \in Pbufs
             PROVE  refs'[p] = IF \E j \in Index : arp_table'[j].q = p THEN 1 ELSE 0
    BY DEF CountsQueues
<1>1. CASE p = new
    BY <1>1
<1>2. CASE p # new /\ p = arp_table[i].q
    <2>1. \A j \in Index : arp_table[j].q = p => j = i
        BY <1>2, ArpConstants, OneQueue
    <2> QED BY <1>2, <2>1
<1>3. CASE p # new /\ p # arp_table[i].q
    <2>1. (\E j \in Index : arp_table'[j].q = p) <=> (\E j \in Index : arp_table[j].q = p)
        BY <1>3
    <2> QED BY <1>3, <2>1 DEF ArpInv, CountsQueues
<1> QED BY <1>1, <1>2, <1>3

\* heard follows the announcements.
LEMMA HeardStep ==
    ASSUME NEW h \in [Hosts -> Macs \cup {None}], heard' = Noted(h),
           \A j \in Index : arp_table'[j].state \notin {"EMPTY", "PENDING"} =>
               arp_table'[j].ipaddr \in Hosts /\ arp_table'[j].ethaddr = h[arp_table'[j].ipaddr]
    PROVE  heard' \in [Hosts -> Macs \cup {None}] /\ NotesHeard'
<1>1. heard' \in [Hosts -> Macs \cup {None}]
    BY DEF Noted
<1>2. ASSUME NEW j \in Index, arp_table'[j].state \notin {"EMPTY", "PENDING"}
      PROVE  arp_table'[j].ethaddr = heard'[arp_table'[j].ipaddr]
    <2>1. heard'[arp_table'[j].ipaddr] = h[arp_table'[j].ipaddr]
        BY <1>2 DEF Noted
    <2> QED BY <1>2, <2>1
<1> QED BY <1>1, <1>2 DEF NotesHeard

\* The entry that etharp_find_entry leaves, and the packet it gives back.
LEMMA EntryFound ==
    ASSUME ArpInv, NEW a \in Hosts, NEW hard \in BOOLEAN, NEW i \in etharp_find_entry(a, hard)
    PROVE  /\ Entry(i, a) \in Entries /\ Entry(i, a).ipaddr = a
           /\ Entry(i, a).q # None => Entry(i, a).q.dst = a
           /\ \/ arp_table[i].ipaddr = a /\ Entry(i, a) = arp_table[i] /\ Recycled(i, a) = refs
              \/ Entry(i, a).q = None /\ Recycled(i, a) = pbuf_free(refs, arp_table[i].q)
<1>1. i \in Index
    BY FoundEntry
<1>2. arp_table[i] \in Entries /\ EntrySound(arp_table[i])
    BY <1>1 DEF ArpInv, ArpTypeOK
<1>3. CASE arp_table[i].ipaddr = a
    BY <1>2, <1>3 DEF Entry, Recycled, EntrySound
<1>4. CASE arp_table[i].ipaddr # a
    <2>1. Entry(i, a) = [EmptyEntry EXCEPT !.ipaddr = a]
        BY <1>4 DEF Entry
    <2> QED BY <1>4, <2>1, ArpConstants DEF Entry, Recycled, EmptyEntry, Entries, States
<1> QED BY <1>3, <1>4

\* An announcement that is noted.
LEMMA UpdateStep ==
    ASSUME ArpInv, NEW a \in Hosts, NEW mac \in Macs, NEW hard \in BOOLEAN,
           etharp_input(a, mac, hard)
    PROVE  ArpInv' /\ SentToHost'
<1> DEFINE h == [heard EXCEPT ![a] = mac]
<1>1. /\ h \in [Hosts -> Macs \cup {None}] /\ heard' = Noted(h) /\ h[a] = mac
      /\ \A b \in Hosts \ {a} : h[b] = heard[b]
      /\ etharp_cached_entry' \in Index
    BY DEF etharp_input, ArpInv, ArpTypeOK
<1> HIDE DEF h
<1>2. CASE etharp_find_entry(a, hard) = {} /\ sent' = {} /\ UNCHANGED <<arp_table, refs>>
    <2>1. ASSUME NEW j \in Index, arp_table[j].ipaddr = a PROVE arp_table[j].state = "EMPTY"
        <3>1. CASE arp_table[j].state # "EMPTY"
            <4>1. {i \in Used : arp_table[i].ipaddr = a} # {}
                BY <2>1, <3>1 DEF Used
            <4>2. etharp_find_entry(a, hard) # {}
                BY <4>1, Zenon DEF etharp_find_entry
            <4> QED BY <1>2, <4>2
        <3> QED BY <3>1
    <2>2. \A j \in Index : arp_table'[j].state \notin {"EMPTY", "PENDING"} =>
              arp_table'[j].ipaddr \in Hosts /\ arp_table'[j].ethaddr = h[arp_table'[j].ipaddr]
        BY <1>1, <1>2, <2>1 DEF ArpInv, EntrySound, NotesHeard
    <2>3. heard' \in [Hosts -> Macs \cup {None}] /\ NotesHeard'
        BY <1>1, <2>2, HeardStep
    <2>4. OnePerHost' /\ CountsQueues' /\ (\A j \in Index : EntrySound(arp_table'[j]))
        BY <1>2 DEF ArpInv, OnePerHost, CountsQueues
    <2> QED BY <1>1, <1>2, <2>3, <2>4 DEF ArpInv, ArpTypeOK, SentToHost
<1>3. ASSUME NEW i \in etharp_find_entry(a, hard),
             arp_table' = [arp_table EXCEPT ![i] =
                 [Entry(i, a) EXCEPT !.state = "STABLE", !.ethaddr = mac, !.ctime = 0, !.q = None]],
             sent' = IF Entry(i, a).q = None THEN {} ELSE {<<Entry(i, a).q.dst, mac>>},
             refs' = pbuf_free(Recycled(i, a), Entry(i, a).q)
      PROVE  ArpInv' /\ SentToHost'
    <2> DEFINE e == [Entry(i, a) EXCEPT !.state = "STABLE", !.ethaddr = mac, !.ctime = 0, !.q = None]
    <2>1. i \in Index /\ \A j \in Index : arp_table[j].ipaddr = a => j = i
        BY FoundEntry
    <2>2. e \in Entries /\ e.ipaddr = a /\ e.q = None /\ e.state = "STABLE" /\ e.ethaddr = mac
        <3>1. Entry(i, a) \in Entries /\ Entry(i, a).ipaddr = a
            BY EntryFound
        <3>2. 0 \in 0 .. ARP_MAXAGE - 1 /\ "STABLE" \in States
            BY ArpConstants DEF States
        <3> QED BY <3>1, <3>2 DEF Entries
    <2>3. EntrySound(e)
        BY <2>2 DEF EntrySound
    <2>4. arp_table' = [arp_table EXCEPT ![i] = e]
        BY <1>3
    <2> HIDE DEF e
    <2>5. /\ arp_table' \in [Index -> Entries] /\ OnePerHost'
          /\ \A j \in Index : EntrySound(arp_table'[j])
        BY <2>1, <2>2, <2>3, <2>4, TableStep
    <2>6. \A j \in Index : arp_table'[j] = IF j = i THEN e ELSE arp_table[j]
        BY <2>4 DEF ArpInv, ArpTypeOK
    <2>7. refs' = pbuf_free(refs, arp_table[i].q)
        BY <1>3, EntryFound DEF pbuf_free
    <2>8. refs' \in [Pbufs -> Int] /\ CountsQueues'
        <3>1. arp_table[i].q \in Pbufs \cup {None} /\ refs \in [Pbufs -> Int]
            BY <2>1 DEF ArpInv, ArpTypeOK, Entries
        <3>2. \A p \in Pbufs : p = arp_table[i].q => refs[p] = 1
            BY <2>1 DEF ArpInv, CountsQueues
        <3>3. refs' \in [Pbufs -> Int]
            BY <2>7, <3>1 DEF pbuf_free
        <3>4. \A p \in Pbufs : refs'[p] = IF p = arp_table[i].q THEN 0 ELSE refs[p]
            BY <2>7, <3>1, <3>2, ArpConstants DEF pbuf_free
        <3>5. \A j \in Index : arp_table'[j].q = IF j = i THEN None ELSE arp_table[j].q
            BY <2>2, <2>6
        <3>6. \A p \in Pbufs : p # None
            BY ArpConstants
        <3>7. CountsQueues'
            BY <2>1, <3>4, <3>5, <3>6, CountStep
        <3> QED BY <3>3, <3>7
    <2>9. \A j \in Index : arp_table'[j].state \notin {"EMPTY", "PENDING"} =>
              arp_table'[j].ipaddr \in Hosts /\ arp_table'[j].ethaddr = h[arp_table'[j].ipaddr]
        BY <1>1, <2>1, <2>2, <2>6 DEF ArpInv, EntrySound, NotesHeard
    <2>10. heard' \in [Hosts -> Macs \cup {None}] /\ NotesHeard'
        BY <1>1, <2>9, HeardStep
    <2>11. heard'[a] = mac
        BY <2>1, <2>2, <2>6, <2>10 DEF NotesHeard
    <2>12. SentToHost'
        BY <1>3, <2>11, EntryFound DEF SentToHost
    <2> QED BY <1>1, <2>5, <2>8, <2>10, <2>12 DEF ArpInv, ArpTypeOK
<1> QED BY <1>2, <1>3 DEF etharp_input, etharp_update_arp_entry

\* A packet that goes out through entry i, the stable one of its host.
LEMMA OutputStep ==
    ASSUME ArpInv, NEW i \in Stable, NEW p \in Pbufs, p.dst = arp_table[i].ipaddr,
           etharp_output_to_arp_index(i, p), heard' = Noted(heard), etharp_cached_entry' \in Index
    PROVE  ArpInv' /\ SentToHost'
<1>1. i \in Index /\ arp_table[i].state \notin {"EMPTY", "PENDING"}
    BY DEF Stable, Used
<1>2. \A j \in Index : arp_table[j] \in Entries /\ EntrySound(arp_table[j])
    BY DEF ArpInv, ArpTypeOK
<1>3. /\ arp_table' \in [Index -> Entries]
      /\ \A j \in Index : /\ arp_table'[j].ipaddr = arp_table[j].ipaddr
                          /\ arp_table'[j].ethaddr = arp_table[j].ethaddr
                          /\ arp_table'[j].q = arp_table[j].q
                          /\ arp_table[j].state = arp_table'[j].state \/ j = i
      /\ arp_table'[i].state \in States \ {"EMPTY", "PENDING"}
    <2>1. CASE UNCHANGED arp_table
        BY <1>1, <1>2, <2>1 DEF ArpInv, ArpTypeOK, Entries
    <2>2. CASE arp_table' = [arp_table EXCEPT ![i].state = "STABLE_REREQUESTING_1"]
        <3> DEFINE e == [arp_table[i] EXCEPT !.state = "STABLE_REREQUESTING_1"]
        <3>1. /\ e \in Entries /\ e.ipaddr = arp_table[i].ipaddr /\ e.q = arp_table[i].q
              /\ e.ethaddr = arp_table[i].ethaddr /\ e.state = "STABLE_REREQUESTING_1"
            BY <1>1, <1>2 DEF Entries, States
        <3>2. arp_table' = [arp_table EXCEPT ![i] = e]
            BY <1>1, <2>2 DEF ArpInv, ArpTypeOK
        <3> HIDE DEF e
        <3>3. \A j \in Index : arp_table'[j] = IF j = i THEN e ELSE arp_table[j]
            BY <3>2 DEF ArpInv, ArpTypeOK
        <3>4. arp_table' \in [Index -> Entries]
            BY <3>1, <3>2 DEF ArpInv, ArpTypeOK
        <3> QED BY <1>1, <3>1, <3>3, <3>4 DEF States
    <2> QED BY <2>1, <2>2 DEF etharp_output_to_arp_index
<1>4. \A j \in Index : EntrySound(arp_table'[j])
    <2> SUFFICES ASSUME NEW j \in Index PROVE EntrySound(arp_table'[j])
        OBVIOUS
    <2>1. CASE j = i
        BY <1>1, <1>2, <1>3, <2>1 DEF EntrySound
    <2>2. CASE j # i
        <3>1. arp_table'[j] = arp_table[j]
            BY <2>2 DEF etharp_output_to_arp_index, ArpInv, ArpTypeOK
        <3> QED BY <1>2, <3>1
    <2> QED BY <2>1, <2>2
<1>5. OnePerHost'
    BY <1>3 DEF ArpInv, OnePerHost
<1>6. CountsQueues' /\ refs' \in [Pbufs -> Int]
    BY <1>3 DEF etharp_output_to_arp_index, ArpInv, ArpTypeOK, CountsQueues
<1>7. \A j \in Index : arp_table'[j].state \notin {"EMPTY", "PENDING"} =>
          arp_table'[j].ipaddr \in Hosts /\ arp_table'[j].ethaddr = heard[arp_table'[j].ipaddr]
    BY <1>1, <1>2, <1>3 DEF ArpInv, EntrySound, NotesHeard
<1>8. heard' \in [Hosts -> Macs \cup {None}] /\ NotesHeard'
    BY <1>7, HeardStep DEF ArpInv, ArpTypeOK
<1>9. SentToHost'
    <2>1. arp_table'[i].ethaddr = heard'[arp_table'[i].ipaddr]
        BY <1>1, <1>3, <1>8 DEF NotesHeard
    <2> QED BY <1>1, <1>3, <2>1 DEF etharp_output_to_arp_index, SentToHost
<1> QED BY <1>3, <1>4, <1>5, <1>6, <1>8, <1>9 DEF ArpInv, ArpTypeOK

\* One packet is taken and another given back, in either order.
LEMMA Exchange ==
    ASSUME NEW c \in [Pbufs -> Int], NEW p \in Pbufs, NEW q \in Pbufs \cup {None},
           c[p] = 0, q \in Pbufs => c[q] = 1,
           NEW f \in {pbuf_free(pbuf_ref(c, p), q), pbuf_ref(pbuf_free(c, q), p)}
    PROVE  /\ f \in [Pbufs -> Int]
           /\ \A x \in Pbufs : f[x] = IF x = p THEN 1 ELSE IF x = q THEN 0 ELSE c[x]
<1>1. CASE q = None
    <2>1. f = [c EXCEPT ![p] = @ + 1]
        BY <1>1 DEF pbuf_free, pbuf_ref
    <2> QED BY <1>1, <2>1, ArpConstants
<1>2. CASE q \in Pbufs
    <2>1. q # p /\ q # None
        BY <1>2, ArpConstants
    <2>2. CASE f = [[c EXCEPT ![q] = @ - 1] EXCEPT ![p] = @ + 1]
        BY <1>2, <2>1, <2>2
    <2>3. CASE f = [[c EXCEPT ![p] = @ + 1] EXCEPT ![q] = @ - 1]
        BY <1>2, <2>1, <2>3
    <2> QED BY <2>1, <2>2, <2>3 DEF pbuf_free, pbuf_ref
<1> QED BY <1>1, <1>2

\* A packet that has to wait for its host's address.
LEMMA QueryStep ==
    ASSUME ArpInv, NEW p \in Pbufs, refs[p] = 0, etharp_query(p.dst, p), heard' = Noted(heard)
    PROVE  ArpInv' /\ SentToHost'
<1> DEFINE a == p.dst
<1>0. a \in Hosts
    BY DEF Pbufs
<1>1. PICK i \in etharp_find_entry(a, TRUE), taken \in BOOLEAN :
          /\ arp_table' = [arp_table EXCEPT ![i] =
                 [Entry(i, a) EXCEPT !.state = "PENDING", !.q = IF taken THEN p ELSE @]]
          /\ refs' = IF taken THEN pbuf_free(pbuf_ref(Recycled(i, a), p), Entry(i, a).q)
                     ELSE Recycled(i, a)
          /\ sent' = {}
          /\ UNCHANGED etharp_cached_entry
    BY DEF etharp_query
<1> HIDE DEF a
<1> DEFINE new == IF taken THEN p ELSE Entry(i, a).q
           e == [Entry(i, a) EXCEPT !.state = "PENDING", !.q = new]
           old == arp_table[i].q
<1>2. i \in Index /\ \A j \in Index : arp_table[j].ipaddr = a => j = i
    BY <1>0, FoundEntry
<1>3. /\ Entry(i, a) \in Entries /\ Entry(i, a).ipaddr = a
      /\ Entry(i, a).q # None => Entry(i, a).q.dst = a
      /\ \/ arp_table[i].ipaddr = a /\ Entry(i, a) = arp_table[i] /\ Recycled(i, a) = refs
         \/ Entry(i, a).q = None /\ Recycled(i, a) = pbuf_free(refs, old)
    BY <1>0, EntryFound
<1>4. new \in Pbufs \cup {None} /\ (new # None => new.dst = a)
    BY <1>3 DEF Entries, a
<1>5. e \in Entries /\ e.ipaddr = a /\ e.q = new /\ e.state = "PENDING"
    BY <1>3, <1>4 DEF Entries, States
<1>6. EntrySound(e)
    BY <1>0, <1>4, <1>5 DEF EntrySound
<1>7. arp_table' = [arp_table EXCEPT ![i] = e]
    BY <1>1
<1>8. \A x \in Pbufs : refs[x] = 1 \/ refs[x] = 0
    BY DEF ArpInv, CountsQueues
<1>9. old \in Pbufs \cup {None} /\ refs \in [Pbufs -> Int] /\ (old \in Pbufs => refs[old] = 1)
    BY <1>2 DEF ArpInv, ArpTypeOK, Entries, CountsQueues
<1>10. /\ refs' \in [Pbufs -> Int]
       /\ \A x \in Pbufs : refs'[x] = IF x = new THEN 1 ELSE IF x = old THEN 0 ELSE refs[x]
    <2>1. CASE taken
        <3>1. refs' = pbuf_free(pbuf_ref(Recycled(i, a), p), Entry(i, a).q) /\ new = p
            BY <1>1, <2>1
        <3>2. refs' \in {pbuf_free(pbuf_ref(refs, p), old), pbuf_ref(pbuf_free(refs, old), p)}
            BY <1>3, <3>1 DEF pbuf_free
        <3> HIDE DEF old, new
        <3> QED BY <1>9, <3>1, <3>2, Exchange
    <2>2. CASE ~taken
        <3>1. refs' = Recycled(i, a) /\ new = Entry(i, a).q
            BY <1>1, <2>2
        <3>2. CASE Entry(i, a) = arp_table[i] /\ Recycled(i, a) = refs
            BY <1>9, <3>1, <3>2, ArpConstants
        <3>3. CASE Entry(i, a).q = None /\ Recycled(i, a) = pbuf_free(refs, old)
            BY <1>9, <3>1, <3>3, ArpConstants DEF pbuf_free
        <3> QED BY <1>3, <3>2, <3>3
    <2> QED BY <2>1, <2>2
<1>11. new # old /\ new \in Pbufs => refs[new] = 0
    BY <1>3, ArpConstants
<1> HIDE DEF e, new
<1>12. /\ arp_table' \in [Index -> Entries] /\ OnePerHost'
       /\ \A j \in Index : EntrySound(arp_table'[j])
    BY <1>2, <1>5, <1>6, <1>7, TableStep
<1>13. \A j \in Index : arp_table'[j] = IF j = i THEN e ELSE arp_table[j]
    BY <1>7 DEF ArpInv, ArpTypeOK
<1>14. CountsQueues'
    <2>1. \A j \in Index : arp_table'[j].q = IF j = i THEN new ELSE arp_table[j].q
        BY <1>5, <1>13
    <2> QED BY <1>2, <1>10, <1>11, <2>1, CountStep
<1>15. \A j \in Index : arp_table'[j].state \notin {"EMPTY", "PENDING"} =>
          arp_table'[j].ipaddr \in Hosts /\ arp_table'[j].ethaddr = heard[arp_table'[j].ipaddr]
    BY <1>5, <1>13 DEF ArpInv, EntrySound, NotesHeard
<1>16. heard' \in [Hosts -> Macs \cup {None}] /\ NotesHeard'
    BY <1>15, HeardStep DEF ArpInv, ArpTypeOK
<1> QED BY <1>1, <1>10, <1>12, <1>14, <1>16 DEF ArpInv, ArpTypeOK, SentToHost

\* etharp_output: through the cached entry, through the table, or later.
LEMMA OutputKeeps ==
    ASSUME ArpInv, NEW to \in Hosts \cup {Outside}, NEW id \in Ids, etharp_output(to, id)
    PROVE  ArpInv' /\ SentToHost'
<1> DEFINE a == dst_addr(to)
           p == [dst |-> a, id |-> id]
           match == {i \in Stable : arp_table[i].ipaddr = a}
           first == CHOOSE i \in match : \A j \in match : i <= j
<1>1. p \in Pbufs /\ p.dst = a /\ refs[p] = 0 /\ heard' = Noted(heard)
    BY ArpConstants DEF etharp_output, dst_addr, Pbufs
<1>2. etharp_cached_entry \in Index /\ Stable \subseteq Index
    BY DEF ArpInv, ArpTypeOK, Stable, Used
<1>3. CASE /\ Cached(a) /\ etharp_output_to_arp_index(etharp_cached_entry, p)
           /\ UNCHANGED etharp_cached_entry
    BY <1>1, <1>2, <1>3, OutputStep DEF Cached
<1>4. CASE /\ match # {} /\ etharp_cached_entry' = first
           /\ etharp_output_to_arp_index(first, p)
    <2>1. match \subseteq Nat
        <3>1. Index \subseteq Nat
            BY ArpConstants DEF Index
        <3> QED BY <1>2, <3>1
    <2>2. \E i \in match : \A j \in match : i <= j
        <3> HIDE DEF match
        <3> QED BY <1>4, <2>1, LeastMember
    <2>3. first \in Stable /\ arp_table[first].ipaddr = a
        BY <2>2
    <2> HIDE DEF first
    <2> QED BY <1>1, <1>2, <1>4, <2>3, OutputStep
<1>5. CASE etharp_query(a, p)
    BY <1>1, <1>5, QueryStep
<1> QED BY <1>3, <1>4, <1>5 DEF etharp_output

\* A tick empties an entry or keeps its host, address and packet.
LEMMA AgedEntry ==
    ASSUME NEW e \in Entries, EntrySound(e)
    PROVE  /\ Aged(e) \in Entries /\ EntrySound(Aged(e))
           /\ \/ Aged(e) = EmptyEntry
              \/ /\ Aged(e).ipaddr = e.ipaddr /\ Aged(e).ethaddr = e.ethaddr
                 /\ Aged(e).q = e.q
                 /\ Aged(e).state \in {"EMPTY", "PENDING"} <=> e.state \in {"EMPTY", "PENDING"}
<1>1. EmptyEntry \in Entries /\ EntrySound(EmptyEntry)
    BY ArpConstants DEF EmptyEntry, Entries, States, EntrySound
<1>2. CASE Aged(e) = EmptyEntry
    BY <1>1, <1>2
<1>3. CASE Aged(e) # EmptyEntry
    <2> DEFINE t == e.ctime + 1
               next == CASE e.state = "STABLE_REREQUESTING_1" -> "STABLE_REREQUESTING_2"
                         [] e.state = "STABLE_REREQUESTING_2" -> "STABLE"
                         [] OTHER -> e.state
    <2>1. /\ Aged(e) = [e EXCEPT !.ctime = t, !.state = next]
          /\ e.state # "EMPTY" /\ ~ (t >= ARP_MAXAGE)
        BY <1>3 DEF Aged
    <2>2. t \in 0 .. ARP_MAXAGE - 1
        BY <2>1, ArpConstants DEF Entries
    <2>3. /\ e.state \in States /\ next \in States \ {"EMPTY"}
          /\ next = "PENDING" <=> e.state = "PENDING"
        BY <2>1 DEF Entries, States
    <2> HIDE DEF t, next
    <2>4. /\ Aged(e) \in Entries
          /\ Aged(e).ipaddr = e.ipaddr /\ Aged(e).ethaddr = e.ethaddr /\ Aged(e).q = e.q
          /\ Aged(e).state = next
        BY <2>1, <2>2, <2>3 DEF Entries
    <2> QED BY <2>1, <2>3, <2>4 DEF EntrySound
<1> QED BY <1>2, <1>3

\* etharp_tmr gives back the packets of the entries it empties.
LEMMA TimerKeeps ==
    ASSUME ArpInv, etharp_tmr
    PROVE  ArpInv' /\ SentToHost'
<1>1. \A j \in Index : arp_table[j] \in Entries /\ EntrySound(arp_table[j])
    BY DEF ArpInv, ArpTypeOK
<1>2. \A j \in Index : arp_table'[j] = Aged(arp_table[j])
    BY DEF etharp_tmr
<1>3. \A j \in Index :
          /\ arp_table'[j] \in Entries /\ EntrySound(arp_table'[j])
          /\ \/ arp_table'[j] = EmptyEntry
             \/ /\ arp_table'[j].ipaddr = arp_table[j].ipaddr
                /\ arp_table'[j].ethaddr = arp_table[j].ethaddr
                /\ arp_table'[j].q = arp_table[j].q
                /\ arp_table'[j].state \in {"EMPTY", "PENDING"}
                       <=> arp_table[j].state \in {"EMPTY", "PENDING"}
    BY <1>1, <1>2, AgedEntry
<1>4. arp_table' \in [Index -> Entries]
    BY <1>2, <1>3 DEF etharp_tmr
<1>5. EmptyEntry.state = "EMPTY" /\ EmptyEntry.ipaddr = None /\ EmptyEntry.q = None
    BY DEF EmptyEntry
<1>6. OnePerHost'
    BY <1>3, <1>5 DEF ArpInv, OnePerHost
<1>7. ASSUME NEW p \in Pbufs
      PROVE  refs'[p] = IF \E i \in Index : arp_table'[i].q = p THEN 1 ELSE 0
    <2> DEFINE gone == {i \in Index : arp_table[i].q = p /\ arp_table'[i].q = None}
    <2>1. refs'[p] = refs[p] - Cardinality(gone)
        BY DEF etharp_tmr
    <2>2. p # None /\ refs[p] = IF \E i \in Index : arp_table[i].q = p THEN 1 ELSE 0
        BY ArpConstants DEF ArpInv, CountsQueues
    <2>3. \A i \in Index : arp_table'[i].q = p => arp_table[i].q = p
        BY <1>3, <1>5, <2>2
    <2>4. CASE \E i \in Index : arp_table[i].q = p
        <3>1. PICK i \in Index : arp_table[i].q = p
            BY <2>4
        <3>2. \A j \in Index : arp_table[j].q = p => j = i
            BY <2>2, <3>1, OneQueue
        <3>3. CASE arp_table'[i].q = p
            <4>1. gone = {}
                BY <2>2, <3>2, <3>3
            <4>2. Cardinality(gone) = 0
                BY <4>1, FS_EmptySet
            <4> HIDE DEF gone
            <4> QED BY <2>1, <2>2, <3>1, <3>3, <4>2
        <3>4. CASE arp_table'[i].q # p
            <4>1. arp_table'[i].q = None
                BY <1>3, <1>5, <3>1, <3>4
            <4>2. gone = {i}
                BY <3>1, <3>2, <4>1
            <4>3. Cardinality(gone) = 1
                BY <4>2, FS_Singleton
            <4>4. ~ \E j \in Index : arp_table'[j].q = p
                BY <2>3, <3>2, <3>4
            <4> HIDE DEF gone
            <4> QED BY <2>1, <2>2, <3>1, <4>3, <4>4
        <3> QED BY <3>3, <3>4
    <2>5. CASE ~ \E i \in Index : arp_table[i].q = p
        <3>1. gone = {}
            BY <2>5
        <3>2. Cardinality(gone) = 0
            BY <3>1, FS_EmptySet
        <3> HIDE DEF gone
        <3> QED BY <2>1, <2>2, <2>3, <2>5, <3>2
    <2> QED BY <2>4, <2>5
<1>8. refs' \in [Pbufs -> Int] /\ CountsQueues'
    BY <1>7 DEF etharp_tmr, CountsQueues
<1>9. \A j \in Index : arp_table'[j].state \notin {"EMPTY", "PENDING"} =>
          arp_table'[j].ipaddr \in Hosts /\ arp_table'[j].ethaddr = heard[arp_table'[j].ipaddr]
    <2> SUFFICES ASSUME NEW j \in Index, arp_table'[j].state \notin {"EMPTY", "PENDING"}
                 PROVE  /\ arp_table'[j].ipaddr \in Hosts
                        /\ arp_table'[j].ethaddr = heard[arp_table'[j].ipaddr]
        OBVIOUS
    <2>1. /\ arp_table'[j].ipaddr = arp_table[j].ipaddr
          /\ arp_table'[j].ethaddr = arp_table[j].ethaddr
          /\ arp_table[j].state \notin {"EMPTY", "PENDING"}
        BY <1>3, <1>5
    <2> QED BY <1>1, <2>1 DEF ArpInv, EntrySound, NotesHeard
<1>10. heard' \in [Hosts -> Macs \cup {None}] /\ NotesHeard'
    BY <1>9, HeardStep DEF etharp_tmr, ArpInv, ArpTypeOK
<1> QED BY <1>3, <1>4, <1>6, <1>8, <1>10 DEF ArpInv, ArpTypeOK, etharp_tmr, SentToHost

\* The table is sound at the start and after every step.
LEMMA ArpInductive ==
    /\ EtharpInit => ArpInv /\ SentToHost
    /\ ArpInv /\ SentToHost /\ [EtharpNext]_arpVars => ArpInv' /\ SentToHost'
<1>1. ASSUME EtharpInit PROVE ArpInv /\ SentToHost
    <2>1. EmptyEntry \in Entries /\ EntrySound(EmptyEntry)
        BY ArpConstants DEF EmptyEntry, Entries, States, EntrySound
    <2>2. /\ arp_table \in [Index -> Entries] /\ \A i \in Index : arp_table[i] = EmptyEntry
        BY <1>1, <2>1 DEF EtharpInit
    <2>3. CountsQueues
        BY <1>1, <2>2, ArpConstants DEF EtharpInit, CountsQueues, EmptyEntry
    <2>4. OnePerHost /\ NotesHeard
        <3>1. \A i \in Index : arp_table[i].state = "EMPTY" /\ arp_table[i].ipaddr = None
            BY <2>2 DEF EmptyEntry
        <3> QED BY <3>1 DEF OnePerHost, NotesHeard
    <2> QED BY <1>1, <2>1, <2>2, <2>3, <2>4, ArpConstants
            DEF EtharpInit, ArpInv, ArpTypeOK, SentToHost
<1>2. ASSUME ArpInv, SentToHost, [EtharpNext]_arpVars PROVE ArpInv' /\ SentToHost'
    <2>1. CASE etharp_tmr
        BY <1>2, <2>1, TimerKeeps
    <2>2. CASE \E a \in Hosts, mac \in Macs, for_us \in BOOLEAN : etharp_input(a, mac, for_us)
        BY <1>2, <2>2, UpdateStep
    <2>3. CASE \E to \in Hosts \cup {Outside}, id \in Ids : etharp_output(to, id)
        BY <1>2, <2>3, OutputKeeps
    <2>4. CASE UNCHANGED arpVars
        BY <1>2, <2>4 DEF arpVars, ArpInv, ArpTypeOK, OnePerHost, CountsQueues, NotesHeard,
                          SentToHost
    <2> QED BY <1>2, <2>1, <2>2, <2>3, <2>4 DEF EtharpNext
<1> QED BY <1>1, <1>2

\* The counts of CountsQueues are the cardinalities of PacketsAccounted.
LEMMA ArpAccounted == ArpInv => PacketsAccounted
<1> SUFFICES ASSUME ArpInv PROVE PacketsAccounted
    OBVIOUS
<1>1. ASSUME NEW p \in Pbufs PROVE refs[p] = Cardinality({i \in Index : arp_table[i].q = p})
    <2> DEFINE held == {i \in Index : arp_table[i].q = p}
    <2>1. p # None /\ refs[p] = IF \E i \in Index : arp_table[i].q = p THEN 1 ELSE 0
        BY ArpConstants DEF ArpInv, CountsQueues
    <2>2. CASE \E i \in Index : arp_table[i].q = p
        <3>1. PICK i \in Index : arp_table[i].q = p
            BY <2>2
        <3>2. held = {i}
            BY <2>1, <3>1, OneQueue
        <3>3. Cardinality(held) = 1
            BY <3>2, FS_Singleton
        <3> QED BY <2>1, <3>1, <3>3
    <2>3. CASE ~ \E i \in Index : arp_table[i].q = p
        <3>1. held = {}
            BY <2>3
        <3>2. Cardinality(held) = 0
            BY <3>1, FS_EmptySet
        <3> QED BY <2>1, <2>3, <3>2
    <2> QED BY <2>2, <2>3
<1> QED BY <1>1 DEF PacketsAccounted, ArpInv, EntrySound

\* For every size of the table, every set of hosts and packets: a packet has
\* one reference while an entry queues it and none otherwise, whatever is
\* recycled, replaced or aged out: etharp.c neither leaks nor frees twice.
THEOREM PacketsAlwaysAccounted == EtharpSpec => []PacketsAccounted
BY ArpInductive, ArpAccounted, PTL DEF EtharpSpec

\* A packet that etharp_output or etharp_update_arp_entry hands to the card
\* has the address its next hop announced last, for every size of the table
\* and every sequence of announcements.
THEOREM AlwaysSentToHost == EtharpSpec => []SentToHost
BY ArpInductive, PTL DEF EtharpSpec

=============================================================================
