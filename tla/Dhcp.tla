-------------------------------- MODULE Dhcp --------------------------------
(***************************************************************************)
(* The DHCP client of lwIP (src/network/lwip/src/core/ipv4/dhcp.c) as the  *)
(* kernel builds it: no address conflict detection, a link that stays up,  *)
(* so that the states are OFF, SELECTING, REQUESTING, BOUND, RENEWING and  *)
(* REBINDING.  Replies are handled in netif_driver_poll, timers run in     *)
(* sys_check_timeouts, both from the main loop: a handler is one step.     *)
(*                                                                         *)
(* The network is external: it may lose, duplicate and reorder messages,   *)
(* but none outlives a minute.  So are the servers, which may refuse what  *)
(* they offered.  At some time all this, and the lack of memory, may cease *)
(* for good.  A reply that is malformed, for another host or, if an        *)
(* offer, without a server id, is as good as lost.                         *)
(*                                                                         *)
(* sys_now (port/arch/cc.h) counts its own calls, so the coarse timer may  *)
(* run at any rate against the minutes of the servers.  request_timeout    *)
(* is reduced to whether it runs.  The transaction id only ever grows: a   *)
(* message is remembered by whether it carries the latest one.             *)
(***************************************************************************)
EXTENDS Integers, FiniteSets

CONSTANTS
    Addrs,         \* addresses the servers give out
    NoAddr,        \* 0.0.0.0
    Offers,        \* the lease times given: [t0, t1, t2] in seconds; t1 and
    NotGiven,      \* t2 may be this
    Minute,        \* DHCP_COARSE_TIMER_SECS: 60
    MaxTicks,      \* longest time in coarse ticks: 0xffff
    SelectTries,   \* requests for one offer, less one: 5
    MaxReq,        \* bound: messages on their way to the servers
    MaxRep         \* bound: and to the client

ASSUME DhcpAssumption ==
    /\ NoAddr \notin Addrs
    /\ {Minute, MaxTicks, SelectTries, MaxReq, MaxRep} \subseteq Nat \ {0}
    /\ \A o \in Offers : o.t0 \in Nat /\ {o.t1, o.t2} \subseteq Nat \cup {NotGiven}

VARIABLES
    state, tries, request_timeout, offered_ip_addr,
    t0_timeout, t2_timeout, lease_used, t1_renew_time, t2_rebind_time,
    synced,        \* dhcp->xid is the latest transaction id (0 if not)
    ip_addr,       \* of the netif
    req, rep,      \* messages on their way to the servers, to the client
    left,          \* minutes left of each address's lease, by the servers' clock
    calm           \* messages, servers and memory have ceased to fail

lease == <<t0_timeout, t2_timeout, lease_used, t1_renew_time, t2_rebind_time>>
client == <<state, tries, request_timeout, offered_ip_addr, lease, synced, ip_addr>>
protocol == <<client, req, rep, left>>
dhcpVars == <<protocol, calm>>

Supplied == {"BOUND", "RENEWING", "REBINDING"}

\* dhcp_supplied_address
dhcp_supplied_address == state \in Supplied

(***************************************************************************)
(* Messages.  fate: dhcp_create_msg got no pbuf, the message was lost, or  *)
(* it is on its way.  Past MaxReq or MaxRep of them, the older are lost.   *)
(***************************************************************************)
Fates == IF calm THEN {"sent"} ELSE {"nomem", "lost", "sent"}

\* S without m, or, when the network delivers it once more, with it.
Without(S, m) == IF calm THEN {S \ {m}} ELSE {S \ {m}, S}

Stale(S) == {[m EXCEPT !.cur = FALSE] : m \in S}
Add(S, m, max) == IF Cardinality(S) < max THEN S \cup {m} ELSE {m}
Sent(fate, S, m) == IF fate = "sent" THEN Add(S, m, MaxReq) ELSE S

\* The tries of dhcp_set_state(new), and one more; past SelectTries they are
\* all alike.
TriesIn(new) == IF state = new THEN tries ELSE 0
Tried(t) == IF t > SelectTries THEN t ELSE t + 1

-----------------------------------------------------------------------------
(* The steps of the client.  in, out: the messages on their way before.    *)

\* dhcp_discover, t tries after dhcp_set_state.  The first message of a
\* transaction makes the older ones stale.
dhcp_discover(t, sync, fate, out, in) ==
    LET new == t = 0 /\ fate # "nomem" IN
    /\ state' = "SELECTING"
    /\ offered_ip_addr' = NoAddr
    /\ tries' = Tried(t) /\ request_timeout' = 1
    /\ synced' = (sync \/ fate # "nomem")
    /\ req' = Sent(fate, IF new THEN Stale(out) ELSE out,
                   [type |-> "DISCOVER", cur |-> TRUE, ip |-> NoAddr])
    /\ rep' = IF new THEN Stale(in) ELSE in

\* dhcp_release_and_stop, then dhcp_start on the cleared structure.  The PCB
\* it needs has just been freed.  A release message takes a transaction id.
Restart(fate) ==
    \E released \in IF dhcp_supplied_address THEN BOOLEAN ELSE {FALSE} :
        /\ t0_timeout' = 0 /\ t2_timeout' = 0 /\ lease_used' = 0
        /\ t1_renew_time' = 0 /\ t2_rebind_time' = 0
        /\ ip_addr' = IF dhcp_supplied_address THEN NoAddr ELSE ip_addr
        /\ IF released THEN dhcp_discover(0, FALSE, fate, Stale(req), Stale(rep))
                       ELSE dhcp_discover(0, FALSE, fate, req, rep)

\* Mutant: the timer for the next attempt is not set.
Request_NoTimeout(new, ip, fate) ==
    /\ state' = new
    /\ tries' = Tried(TriesIn(new)) /\ request_timeout' = 0
    /\ req' = Sent(fate, req, [type |-> "REQUEST", cur |-> synced, ip |-> ip])
    /\ UNCHANGED <<synced, ip_addr>>

\* dhcp_select, dhcp_renew and dhcp_rebind: a request for ip in state new.
\* It reuses the transaction id.
Request(new, ip, fate) ==
    /\ state' = new
    /\ tries' = Tried(TriesIn(new)) /\ request_timeout' = 1
    /\ req' = Sent(fate, req, [type |-> "REQUEST", cur |-> synced, ip |-> ip])
    /\ UNCHANGED <<synced, ip_addr>>

\* Mutant: a time that rounds to 0 stays 0.
Ticks_Zero(s) ==
    LET n == (s + Minute \div 2) \div Minute IN IF n > MaxTicks THEN MaxTicks ELSE n

\* DHCP_SET_TIMEOUT_FROM_OFFERED: seconds to coarse ticks, rounded, never 0.
Ticks(s) ==
    LET n == (s + Minute \div 2) \div Minute
    IN  IF n = 0 THEN 1 ELSE IF n > MaxTicks THEN MaxTicks ELSE n

\* The times of a lease; those that are not given follow from the first.
dhcp_handle_ack(o) ==
    [t0 |-> o.t0,
     t1 |-> IF o.t1 = NotGiven THEN o.t0 \div 2 ELSE o.t1,
     t2 |-> IF o.t2 = NotGiven THEN (o.t0 * 7) \div 8 ELSE o.t2]

dhcp_bind(m) ==
    LET o == dhcp_handle_ack(m.offer) IN
    /\ state' = "BOUND" /\ ip_addr' = m.ip /\ offered_ip_addr' = m.ip
    /\ tries' = 0 /\ request_timeout' = 0
    /\ lease_used' = 0 /\ t0_timeout' = Ticks(o.t0)
    /\ t1_renew_time' = Ticks(o.t1)
    /\ t2_timeout' = Ticks(o.t2) /\ t2_rebind_time' = Ticks(o.t2)
    /\ UNCHANGED <<synced, req>>

\* The timers of the lease run on.
dhcp_handle_nak(fate, in) ==
    /\ ip_addr' = NoAddr
    /\ dhcp_discover(0, synced, fate, req, in)
    /\ UNCHANGED lease

dhcp_handle_offer(m, fate) ==
    /\ offered_ip_addr' = m.ip
    /\ Request("REQUESTING", m.ip, fate)
    /\ UNCHANGED lease

Asked == {"REQUESTING", "RENEWING", "REBINDING"}

Mine(m) == m.cur /\ synced

\* dhcp_recv of m, in the replies still on their way after it.
Ack(m, in) ==
    /\ m.type = "ACK" /\ Mine(m) /\ state \in Asked
    /\ dhcp_bind(m)
    /\ rep' = in
Nak(m, in, fate) ==
    /\ m.type = "NAK" /\ Mine(m) /\ state \in Asked
    /\ dhcp_handle_nak(fate, in)
Offer(m, in, fate) ==
    /\ m.type = "OFFER" /\ Mine(m) /\ state = "SELECTING"
    /\ dhcp_handle_offer(m, fate)
    /\ rep' = in

Ignored(m) ==
    \/ ~ Mine(m)
    \/ m.type \in {"ACK", "NAK"} /\ state \notin Asked
    \/ m.type = "OFFER" /\ state # "SELECTING"

\* dhcp_recv.  The network may deliver the reply once more.
dhcp_recv ==
    \E m \in rep, fate \in Fates : \E in \in Without(rep, m) :
        /\ UNCHANGED left
        /\ \/ fate = "sent" /\ Ack(m, in)
           \/ Nak(m, in, fate)
           \/ Offer(m, in, fate)
           \/ /\ fate = "sent" /\ Ignored(m) /\ rep' = rep \ {m}
              /\ UNCHANGED <<client, req>>

\* dhcp_start, from network_init.
dhcp_start ==
    /\ state = "OFF"
    /\ UNCHANGED left
    /\ \E fate \in Fates : Restart(fate)

\* dhcp_fine_tmr once request_timeout has run down, and dhcp_timeout.
dhcp_fine_tmr(fate) ==
    /\ request_timeout = 1
    /\ UNCHANGED left
    /\ \/ /\ state = "SELECTING"
          /\ dhcp_discover(tries, synced, fate, req, rep)
          /\ UNCHANGED <<lease, ip_addr>>
       \/ /\ state = "REQUESTING" /\ tries <= SelectTries
          /\ Request("REQUESTING", offered_ip_addr, fate)
          /\ UNCHANGED <<lease, offered_ip_addr, rep>>
       \/ /\ state = "REQUESTING" /\ tries > SelectTries
          /\ Restart(fate)
       \/ /\ state \in Supplied
          /\ request_timeout' = 0
          /\ UNCHANGED <<state, tries, offered_ip_addr, lease, synced, ip_addr, req, rep>>

Dec(n) == IF n = 0 THEN 0 ELSE n - 1

\* What is left of half the time to end, or 0 if that is under a tick.
Again(end, used) == IF end - used < 2 THEN 0 ELSE (end - used) \div 2

LeaseUsed == IF t0_timeout = 0 THEN lease_used ELSE lease_used + 1

\* dhcp_coarse_tmr, dhcp_t1_timeout and dhcp_t2_timeout.
dhcp_coarse_tmr(fate) ==
    LET used == LeaseUsed
        expired == t0_timeout # 0 /\ used = t0_timeout
    IN
    /\ state # "OFF"
    /\ UNCHANGED left
    /\ \/ expired /\ Restart(fate)
       \/ /\ ~ expired /\ t2_rebind_time = 1
          /\ lease_used' = used
          /\ UNCHANGED <<t0_timeout, t2_timeout, t1_renew_time, offered_ip_addr, rep>>
          /\ IF state = "SELECTING"
             THEN t2_rebind_time' = 0 /\ UNCHANGED <<state, tries, request_timeout, synced, ip_addr, req>>
             ELSE /\ Request("REBINDING", ip_addr, fate)
                  /\ t2_rebind_time' = Again(t0_timeout, used)
       \/ /\ ~ expired /\ t2_rebind_time # 1
          /\ lease_used' = used /\ t2_rebind_time' = Dec(t2_rebind_time)
          /\ UNCHANGED <<t0_timeout, t2_timeout, offered_ip_addr, rep>>
          /\ IF t1_renew_time = 1 /\ state \in {"REQUESTING", "BOUND", "RENEWING"}
             THEN /\ Request("RENEWING", ip_addr, fate)
                  /\ t1_renew_time' = Again(t2_timeout, used)
             ELSE /\ t1_renew_time' = Dec(t1_renew_time)
                  /\ UNCHANGED <<state, tries, request_timeout, synced, ip_addr, req>>

-----------------------------------------------------------------------------
(* The servers and the network.                                            *)

\* The client only reads the lease times of an ACK.
Reply(type, m, ip, o) == [type |-> type, cur |-> m.cur, ip |-> ip, offer |-> o]
NoOffer == [t0 |-> 0, t1 |-> 0, t2 |-> 0]

\* The minutes after which a lease of s seconds is over.
Minutes(s) == (s + Minute - 1) \div Minute

\* A server answers m, which the network may deliver once more.
Server(m, answer) ==
    /\ req' \in Without(req, m)
    /\ UNCHANGED client
    /\ \/ /\ answer = "OFFER" /\ m.type = "DISCOVER"
          /\ \E a \in Addrs : rep' = Add(rep, Reply("OFFER", m, a, NoOffer), MaxRep)
          /\ UNCHANGED left
       \/ /\ answer = "ACK" /\ m.type = "REQUEST" /\ m.ip \in Addrs
          /\ \E o \in Offers :
                /\ rep' = Add(rep, Reply("ACK", m, m.ip, o), MaxRep)
                /\ left' = [left EXCEPT ![m.ip] = Minutes(o.t0)]
       \/ /\ answer = "NAK" /\ m.type = "REQUEST" /\ (calm => m.ip \notin Addrs)
          /\ rep' = Add(rep, Reply("NAK", m, NoAddr, NoOffer), MaxRep)
          /\ UNCHANGED left

\* A minute passes by the servers' clock.
MinutePasses ==
    /\ calm => req = {} /\ rep = {}
    /\ left' = [a \in Addrs |-> Dec(left[a])]
    /\ req' = {} /\ rep' = {}
    /\ UNCHANGED client

-----------------------------------------------------------------------------
DhcpInit ==
    /\ state = "OFF" /\ tries = 0 /\ request_timeout = 0
    /\ offered_ip_addr = NoAddr /\ ip_addr = NoAddr /\ synced = FALSE
    /\ t0_timeout = 0 /\ t2_timeout = 0 /\ lease_used = 0
    /\ t1_renew_time = 0 /\ t2_rebind_time = 0
    /\ req = {} /\ rep = {} /\ left = [a \in Addrs |-> 0]
    /\ calm = FALSE

\* Once calm, the servers answer before the client asks again.
FineTimer ==
    /\ calm => req = {} /\ rep = {}
    /\ \E fate \in Fates : dhcp_fine_tmr(fate)
CoarseTimer == \E fate \in Fates : dhcp_coarse_tmr(fate)
Servers == \E m \in req, answer \in {"OFFER", "ACK", "NAK"} : Server(m, answer)

DhcpNext ==
    \/ /\ dhcp_start \/ dhcp_recv \/ FineTimer \/ CoarseTimer \/ Servers \/ MinutePasses
       /\ UNCHANGED calm
    \/ ~ calm /\ calm' = TRUE /\ UNCHANGED protocol

\* Frames go on, so that timers run and what the card has is read; servers
\* answer and time passes.
DhcpFairness ==
    /\ WF_protocol(dhcp_start) /\ WF_protocol(dhcp_recv) /\ WF_protocol(Servers)
    /\ WF_protocol(FineTimer) /\ WF_protocol(CoarseTimer) /\ WF_protocol(MinutePasses)

DhcpSpec == DhcpInit /\ [][DhcpNext]_dhcpVars /\ DhcpFairness

-----------------------------------------------------------------------------
(* The interface has an address only in the states that say so and only    *)
(* within the lease as the client counts it, and a client that is bound is *)
(* going to renew: whatever replies arrive late, twice or for an earlier   *)
(* attempt, and however short the times given are.                         *)
AddressLeased ==
    /\ ip_addr # NoAddr => state \in Supplied /\ lease_used < t0_timeout
    /\ state = "BOUND" => ip_addr # NoAddr /\ t1_renew_time > 0

(* Whatever state the failures have left it in, refused, unanswered or     *)
(* expired, the client comes back to BOUND, again and again, once they     *)
(* have ceased.                                                            *)
BoundAgain == <>[]calm => []<>(state = "BOUND")

(* "Returns time in milliseconds" (src/network/port/arch/cc.h:36), so that *)
(* dhcp_coarse_tmr is "called once a minute" (dhcp.c:507): the client's    *)
(* count of the lease is at most a minute behind that of the servers.      *)
LeaseKept ==
    \A a \in Addrs : ip_addr = a => t0_timeout - lease_used <= left[a] + 1
=============================================================================
