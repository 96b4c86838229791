------------------------------- MODULE Etharp -------------------------------
(***************************************************************************)
(* The ARP table of lwIP (src/network/lwip/src/core/ipv4/etharp.c) as the  *)
(* kernel builds it: one packet waits per entry (ARP_QUEUEING is 0), no    *)
(* static entries, one Ethernet interface.  Packets are handed down and    *)
(* messages handled in the main loop, etharp_tmr runs in                   *)
(* sys_check_timeouts: each is one step.                                   *)
(*                                                                         *)
(* The network is external: any host may announce any hardware address at  *)
(* any time, in an answer or in a request of its own, to this host or to   *)
(* another.  A packet is known by its next hop.  Broadcasts are sent       *)
(* without a look at the table and left out.  A request that is sent       *)
(* changes nothing here, so only whether there was a pbuf for it counts.   *)
(***************************************************************************)
EXTENDS Integers, FiniteSets

CONSTANTS
    Hosts,         \* addresses on the local network
    Gateway,       \* one of them
    Outside,       \* an address beyond it
    Macs,          \* hardware addresses
    Ids,           \* tells packets to one host apart
    ARP_TABLE_SIZE,
    ARP_MAXAGE, ARP_MAXPENDING,
    RerequestAge,  \* ARP_AGE_REREQUEST_USED_UNICAST: ARP_MAXAGE - 30
    None           \* no packet, no hardware address

ASSUME EtharpAssumption ==
    /\ Gateway \in Hosts /\ Outside \notin Hosts
    /\ None \notin Hosts \cup Macs \cup [dst : Hosts, id : Ids]
    /\ {ARP_TABLE_SIZE, ARP_MAXAGE, ARP_MAXPENDING, RerequestAge} \subseteq Nat \ {0}
    /\ ARP_MAXPENDING <= ARP_MAXAGE /\ RerequestAge < ARP_MAXAGE

VARIABLES
    arp_table,
    etharp_cached_entry,
    refs,          \* the packets' reference counts
    sent,          \* the host and hardware address of a packet sent in this step
    heard          \* what each host announced last, since it has a stable entry

arpVars == <<arp_table, etharp_cached_entry, refs, sent, heard>>

Index == 0 .. ARP_TABLE_SIZE - 1
Pbufs == [dst : Hosts, id : Ids]

\* The fields of an empty entry are set before they are read again.
EmptyEntry == [state |-> "EMPTY", ipaddr |-> None, ethaddr |-> None, ctime |-> 0, q |-> None]

EtharpInit ==
    /\ arp_table = [i \in Index |-> EmptyEntry]
    /\ etharp_cached_entry = 0
    /\ refs = [p \in Pbufs |-> 0]
    /\ sent = {}
    /\ heard = [a \in Hosts |-> None]

Used == {i \in Index : arp_table[i].state # "EMPTY"}
Stable == Used \ {i \in Index : arp_table[i].state = "PENDING"}

pbuf_ref(counts, p) == [counts EXCEPT ![p] = @ + 1]
pbuf_free(counts, p) == IF p = None THEN counts ELSE [counts EXCEPT ![p] = @ - 1]

\* What h says of the hosts that have a stable entry after this step.
Noted(h) ==
    [a \in Hosts |->
        IF \E i \in Index : arp_table'[i].ipaddr = a /\ arp_table'[i].state \notin {"EMPTY", "PENDING"}
        THEN h[a] ELSE None]

-----------------------------------------------------------------------------
\* The oldest of some entries, the last of those of an age.
Oldest(S) ==
    CHOOSE i \in S : \A j \in S :
        \/ arp_table[j].ctime < arp_table[i].ctime
        \/ arp_table[j].ctime = arp_table[i].ctime /\ j <= i

\* The entry of an address, or the one to make for it: the first empty one,
\* else the oldest that is stable, that has nothing queued, or any.  No entry
\* at all (ERR_MEM) only if none is to be made.
etharp_find_entry(a, hard) ==
    LET match == {i \in Used : arp_table[i].ipaddr = a}
        empty == Index \ Used
        idle == {i \in Used \ Stable : arp_table[i].q = None}
    IN  CASE match # {} -> {CHOOSE i \in match : \A j \in match : i <= j}
          [] match = {} /\ ~hard -> {}
          [] OTHER -> {IF empty # {} THEN CHOOSE i \in empty : \A j \in empty : i <= j
                       ELSE IF Stable # {} THEN Oldest(Stable)
                       ELSE IF idle # {} THEN Oldest(idle) ELSE Oldest(Used)}

\* Mutant: a recycled entry keeps its packet.
Entry_KeepsQueue(i, a) ==
    IF arp_table[i].ipaddr = a THEN arp_table[i]
    ELSE [EmptyEntry EXCEPT !.ipaddr = a, !.q = arp_table[i].q]

\* The entry found, as etharp_find_entry leaves it, ...
Entry(i, a) ==
    IF arp_table[i].ipaddr = a THEN arp_table[i] ELSE [EmptyEntry EXCEPT !.ipaddr = a]

\* ... and what it has given back: etharp_free_entry frees the packet.
Recycled(i, a) == IF arp_table[i].ipaddr = a THEN refs ELSE pbuf_free(refs, arp_table[i].q)

-----------------------------------------------------------------------------
\* Mutant: an entry that asks again starts anew.
Aged_Restarts(e) ==
    LET t == e.ctime + 1
    IN  CASE e.state = "EMPTY" -> e
          [] e.state # "EMPTY" /\ t >= ARP_MAXAGE -> EmptyEntry
          [] e.state = "PENDING" /\ t < ARP_MAXAGE -> [e EXCEPT !.ctime = 0]
          [] OTHER -> [e EXCEPT !.ctime = t, !.state = "STABLE"]

\* An entry one tick later.
Aged(e) ==
    LET t == e.ctime + 1
        next == CASE e.state = "STABLE_REREQUESTING_1" -> "STABLE_REREQUESTING_2"
                  [] e.state = "STABLE_REREQUESTING_2" -> "STABLE"
                  [] OTHER -> e.state
    IN  IF \/ e.state = "EMPTY" \/ t >= ARP_MAXAGE
           \/ e.state = "PENDING" /\ t >= ARP_MAXPENDING
        THEN EmptyEntry ELSE [e EXCEPT !.ctime = t, !.state = next]

\* Entries grow old; a pending one is asked for again.
etharp_tmr ==
    /\ arp_table' = [i \in Index |-> Aged(arp_table[i])]
    /\ refs' = [p \in Pbufs |->
          refs[p] - Cardinality({i \in Index : arp_table[i].q = p /\ arp_table'[i].q = None})]
    /\ sent' = {}
    /\ heard' = Noted(heard)
    /\ UNCHANGED etharp_cached_entry

\* The address of a host is noted, and the packet that waits for it goes out.
etharp_update_arp_entry(a, mac, hard) ==
    \/ /\ etharp_find_entry(a, hard) = {}
       /\ sent' = {}
       /\ UNCHANGED <<arp_table, refs>>
    \/ \E i \in etharp_find_entry(a, hard) :
          LET e == Entry(i, a)
          IN  /\ arp_table' = [arp_table EXCEPT ![i] =
                     [e EXCEPT !.state = "STABLE", !.ethaddr = mac, !.ctime = 0, !.q = None]]
              /\ sent' = IF e.q = None THEN {} ELSE {<<e.q.dst, mac>>}
              /\ refs' = pbuf_free(Recycled(i, a), e.q)

\* A message from host a: only one for this host makes a new entry.
etharp_input(a, mac, for_us) ==
    /\ etharp_update_arp_entry(a, mac, for_us)
    /\ heard' = Noted([heard EXCEPT ![a] = mac])
    /\ UNCHANGED etharp_cached_entry

-----------------------------------------------------------------------------
\* The address a packet goes to on this network.
dst_addr(to) == IF to \in Hosts THEN to ELSE Gateway

\* With a pbuf to be had, an entry in use that is about to expire is asked
\* for again.
etharp_output_to_arp_index(i, p) ==
    /\ sent' = {<<p.dst, arp_table[i].ethaddr>>}
    /\ \/ UNCHANGED arp_table
       \/ /\ arp_table[i].state = "STABLE" /\ arp_table[i].ctime >= RerequestAge
          /\ arp_table' = [arp_table EXCEPT ![i].state = "STABLE_REREQUESTING_1"]
    /\ UNCHANGED refs

\* There is no stable entry: the packet waits in a pending one, in place of the
\* one before it, unless it has to be copied (a fragment) and cannot be.
etharp_query(a, p) ==
    \E i \in etharp_find_entry(a, TRUE), taken \in BOOLEAN :
        LET e == Entry(i, a)
        IN  /\ arp_table' = [arp_table EXCEPT ![i] =
                   [e EXCEPT !.state = "PENDING", !.q = IF taken THEN p ELSE @]]
            /\ refs' = IF taken THEN pbuf_free(pbuf_ref(Recycled(i, a), p), e.q)
                       ELSE Recycled(i, a)
            /\ sent' = {}
            /\ UNCHANGED etharp_cached_entry

\* Mutant: the cached entry is not compared with the address.
Cached_Any(a) == etharp_cached_entry \in Stable

\* The entry of the last packet will do.
Cached(a) == etharp_cached_entry \in Stable /\ arp_table[etharp_cached_entry].ipaddr = a

\* ip4_output hands down a packet of its own and frees it afterwards.
etharp_output(to, id) ==
    LET a == dst_addr(to)
        p == [dst |-> a, id |-> id]
        match == {i \in Stable : arp_table[i].ipaddr = a}
        first == CHOOSE i \in match : \A j \in match : i <= j
    IN  /\ refs[p] = 0
        /\ \/ /\ Cached(a)
              /\ etharp_output_to_arp_index(etharp_cached_entry, p)
              /\ UNCHANGED etharp_cached_entry
           \/ /\ ~ Cached(a) /\ match # {}
              /\ etharp_cached_entry' = first
              /\ etharp_output_to_arp_index(first, p)
           \/ /\ ~ Cached(a) /\ match = {}
              /\ etharp_query(a, p)
        /\ heard' = Noted(heard)

EtharpNext ==
    \/ etharp_tmr
    \/ \E a \in Hosts, mac \in Macs, for_us \in BOOLEAN : etharp_input(a, mac, for_us)
    \/ \E to \in Hosts \cup {Outside}, id \in Ids : etharp_output(to, id)

\* The timer list runs etharp_tmr.
EtharpSpec == EtharpInit /\ [][EtharpNext]_arpVars /\ WF_arpVars(etharp_tmr)

-----------------------------------------------------------------------------
(* A packet that was taken over is held by one entry, the pending one of   *)
(* its host, until it is sent, replaced, expired or recycled, and given    *)
(* back exactly once: reference counts and queues of etharp.c agree, and   *)
(* "no queued packets should exist on stable entries" (etharp.c:365).      *)
PacketsAccounted ==
    /\ \A p \in Pbufs : refs[p] = Cardinality({i \in Index : arp_table[i].q = p})
    /\ \A i \in Index : arp_table[i].q # None =>
          arp_table[i].state = "PENDING" /\ arp_table[i].q.dst = arp_table[i].ipaddr

(* A packet is sent to the hardware address its host announced last, and   *)
(* announced since its entry was made, whether it goes out through the     *)
(* cached entry, the table or the queue and however entries have been      *)
(* recycled in between.                                                    *)
SentToHost == \A s \in sent : s[2] = heard[s[1]]

(* No query stays open: it is answered, given up or recycled, although     *)
(* etharp_tmr keeps asking and packets keep coming.                        *)
QueryEnds ==
    \A a \in Hosts :
        (\E i \in Index : arp_table[i].state = "PENDING" /\ arp_table[i].ipaddr = a)
            ~> ~(\E i \in Index : arp_table[i].state = "PENDING" /\ arp_table[i].ipaddr = a)

=============================================================================
