----------------------------- MODULE NetMonitor -----------------------------
(***************************************************************************)
(* The connectivity monitor of src/kernel.c: batches of Batch echo         *)
(* requests sent from the main loop, replies counted by the raw ICMP       *)
(* callback, and the verdict the taskbar icon shows.  The network is an    *)
(* external actor: it may lose, delay or duplicate replies while `net` is  *)
(* "lossy"; it then settles for good as "up" (every request is answered    *)
(* before the next frame polls the card) or "down" (nothing is answered).  *)
(*                                                                         *)
(* timer_ticks wraps modulo Wrap (2^32 in the code), and 0 stands for      *)
(* "not set" in last_ping_tick and wait_start, as in the code.             *)
(***************************************************************************)
EXTENDS Naturals

CONSTANTS
    Wrap,         \* timer_ticks, last_ping_tick and wait_start are modulo this
    Batch,        \* requests per batch: 4
    Gap,          \* ticks between two requests: more than 15
    WaitLimit,    \* ticks before a batch is given up: more than 100
    Hz,           \* ticks per second: 18
    Second,       \* milliseconds per second: 1000
    Threshold,    \* milliseconds between two batches: 15000
    FrameTicks,   \* bound: ticks that may pass between two frames
    MaxLate       \* bound: late or duplicate replies on their way

ASSUME MonitorAssumption ==
    /\ {Wrap, Batch, Gap, WaitLimit, Hz, Second, Threshold, FrameTicks} \subseteq Nat \ {0}
    /\ MaxLate \in Nat

VARIABLES
    timer_ticks, last_ping_tick, last_packet_sent_tick, wait_start,
    pings_sent, pings_received, current_net_status,
    net,          \* "lossy", "up" or "down"
    pending,      \* replies to this batch on their way
    late,         \* replies to earlier batches on their way
    elapsed,      \* ticks since the last frame
    clean         \* the network has always been "up"

monitor == <<last_ping_tick, last_packet_sent_tick, wait_start, pings_sent,
             pings_received, current_net_status>>
monitorVars == <<timer_ticks, monitor, net, pending, late, elapsed, clean>>

MonitorInit ==
    /\ timer_ticks = 1 /\ elapsed = 0
    /\ last_ping_tick = 0 /\ last_packet_sent_tick = 0 /\ wait_start = 0
    /\ pings_sent = 0 /\ pings_received = 0
    /\ current_net_status = "UNKNOWN"
    /\ net \in {"lossy", "up"} /\ clean = (net = "up")
    /\ pending = 0 /\ late = 0

\* Ticks from tick b to tick a, as unsigned subtraction.
Since(a, b) == (a + Wrap - b) % Wrap

\* The timer interrupt.
Tick ==
    /\ elapsed < FrameTicks
    /\ elapsed' = elapsed + 1
    /\ timer_ticks' = (timer_ticks + 1) % Wrap
    /\ UNCHANGED <<monitor, net, pending, late, clean>>

\* The network settles.
Settle ==
    /\ net = "lossy"
    /\ net' \in {"up", "down"}
    /\ UNCHANGED <<timer_ticks, monitor, pending, late, elapsed, clean>>

\* A reply, or the fate of a reply, that never reaches the callback.
Lose ==
    /\ \/ net # "up" /\ pending > 0 /\ pending' = pending - 1 /\ UNCHANGED late
       \/ late > 0 /\ late' = late - 1 /\ UNCHANGED pending
    /\ UNCHANGED <<timer_ticks, monitor, net, elapsed, clean>>

\* A lossy network delivers a reply twice.
Duplicate ==
    /\ net = "lossy" /\ pending > 0 /\ late < MaxLate
    /\ pings_received + pending + late < Batch + MaxLate
    /\ late' = late + 1
    /\ UNCHANGED <<timer_ticks, monitor, net, pending, elapsed, clean>>

\* netif_driver_poll hands lwIP a packet of the card, and an echo reply of
\* any batch, from any host, bumps the counter.
ping_recv_cb ==
    /\ \/ pending > 0 /\ pending' = pending - 1 /\ UNCHANGED late
       \/ late > 0 /\ late' = late - 1 /\ UNCHANGED pending
    /\ pings_received' = pings_received + 1
    /\ UNCHANGED <<timer_ticks, last_ping_tick, last_packet_sent_tick, wait_start,
                   pings_sent, current_net_status, net, elapsed, clean>>

\* send_ping_packet: without a pbuf (which the bad times include) nothing is
\* sent or counted.  A request that is sent is counted whatever raw_sendto
\* returns, and is answered unless the network loses it.  `carried` replies
\* were on their way.
send_ping_packet(carried) ==
    \/ /\ net = "lossy"
       /\ pending' = carried
       /\ UNCHANGED pings_sent
    \/ /\ pings_sent' = pings_sent + 1
       /\ pending' = IF net = "down" THEN carried ELSE carried + 1

\* The product stays far below 2^32: a batch starts within 270 ticks.
MsSinceLastBatch ==
    IF last_ping_tick = 0 THEN Threshold
    ELSE (Since(timer_ticks, last_ping_tick) * Second) \div Hz

\* Between two batches: nothing until the time has come.
StartBatch ==
    /\ pings_sent = 0
    /\ IF MsSinceLastBatch >= Threshold
       THEN /\ pings_received' = 0
            /\ send_ping_packet(0)
            /\ late' = IF late + pending > MaxLate THEN MaxLate ELSE late + pending
       ELSE UNCHANGED <<pings_received, pings_sent, pending, late>>
    /\ UNCHANGED <<last_ping_tick, last_packet_sent_tick, wait_start,
                   current_net_status>>

\* Within a batch: the next request once Gap ticks have passed.
NextPing ==
    /\ pings_sent \in 1 .. Batch - 1
    /\ IF Since(timer_ticks, last_packet_sent_tick) > Gap
       THEN /\ send_ping_packet(pending)
            /\ last_packet_sent_tick' = timer_ticks
       ELSE UNCHANGED <<pings_sent, pending, last_packet_sent_tick>>
    /\ UNCHANGED <<last_ping_tick, wait_start, pings_received,
                   current_net_status, late>>

\* All sent: the first frame only notes the time (a tick of 0 is not noted).
StartWait ==
    /\ pings_sent = Batch /\ wait_start = 0
    /\ wait_start' = timer_ticks
    /\ UNCHANGED <<last_ping_tick, last_packet_sent_tick, pings_sent,
                   pings_received, current_net_status, pending, late>>

Close(verdict) ==
    /\ current_net_status' = verdict
    /\ pings_sent' = 0 /\ wait_start' = 0
    /\ last_ping_tick' = timer_ticks
    /\ UNCHANGED <<last_packet_sent_tick, pings_received, pending, late>>

\* Mutant: the time limit is looked at before the count.
Verdict_TimeFirst ==
    /\ pings_sent = Batch /\ wait_start # 0
    /\ IF Since(timer_ticks, wait_start) > WaitLimit THEN Close("DISCONNECTED")
       ELSE IF pings_received = Batch THEN Close("CONNECTED")
       ELSE UNCHANGED <<monitor, pending, late>>

\* Mutant: more replies than requests keep the batch open.
Verdict_NoLimit ==
    /\ pings_sent = Batch /\ wait_start # 0
    /\ IF pings_received = Batch THEN Close("CONNECTED")
       ELSE IF pings_received < Batch /\ Since(timer_ticks, wait_start) > WaitLimit
       THEN Close("DISCONNECTED")
       ELSE UNCHANGED <<monitor, pending, late>>

\* Then: exactly Batch replies, or the time is up.
Verdict ==
    /\ pings_sent = Batch /\ wait_start # 0
    /\ IF pings_received = Batch THEN Close("CONNECTED")
       ELSE IF Since(timer_ticks, wait_start) > WaitLimit THEN Close("DISCONNECTED")
       ELSE UNCHANGED <<monitor, pending, late>>

\* update_network_monitor(timer_ticks), once per frame, after the poll; a
\* network that is up has its replies polled by then.
update_network_monitor ==
    /\ net = "up" => pending = 0
    /\ \/ StartBatch
       \/ NextPing
       \/ StartWait
       \/ Verdict
    /\ elapsed' = 0
    /\ UNCHANGED <<timer_ticks, net, clean>>

MonitorNext == Tick \/ Settle \/ Lose \/ Duplicate \/ ping_recv_cb \/ update_network_monitor

\* The timer and the main loop keep running; a packet in the card of a working
\* network is polled.
MonitorSpec ==
    /\ MonitorInit /\ [][MonitorNext]_monitorVars
    /\ WF_monitorVars(Tick)
    /\ WF_monitorVars(update_network_monitor)
    /\ WF_monitorVars(net = "up" /\ pending > 0 /\ ping_recv_cb)

-----------------------------------------------------------------------------

\* On a network that has always answered, the icon never shows a lost
\* connection, however long the frames take and wherever the counter wraps.
NoFalseAlarm == clean => current_net_status # "DISCONNECTED"

\* Once the network answers, the icon settles on CONNECTED, whatever replies
\* of the bad times still arrive, and once it is silent on DISCONNECTED.
IconSettles ==
    /\ <>[](net = "up") => <>[](current_net_status = "CONNECTED")
    /\ <>[](net = "down") => <>[](current_net_status = "DISCONNECTED")

=============================================================================
