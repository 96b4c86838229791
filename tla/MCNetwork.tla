------------------------------ MODULE MCNetwork ------------------------------
(***************************************************************************)
(* The parts of the network: the card's two rings, the timers of lwIP, its *)
(* ARP table and DHCP client, and the monitor in the taskbar.  As modelled *)
(* they share no state, so each behaviour is one of a single part, chosen  *)
(* in the beginning, with the others at rest.                              *)
(***************************************************************************)
EXTENDS MCNicRx, NicTx, NetMonitor, MCDhcp, Timeouts, Etharp

VARIABLE side

networkVars == <<side, rxVars, txVars, monitorVars, dhcpVars, timeoutVars, arpVars>>

\* Short timers and a long one; every value of the clock is met.
MCCyclic == <<4, 4, 24, 2>>

NetworkInit ==
    /\ side \in {"rx", "tx", "monitor", "dhcp", "timers", "arp"}
    /\ RxInit /\ TxInit /\ MonitorInit /\ DhcpInit /\ TimeoutsInit /\ EtharpInit
    /\ side # "monitor" => net = "lossy"
    /\ side # "tx" => tx_io_base = 0

NetworkNext ==
    /\ UNCHANGED side
    /\ \/ /\ side = "rx" /\ RxNext
          /\ UNCHANGED <<txVars, monitorVars, dhcpVars, timeoutVars, arpVars>>
       \/ /\ side = "tx" /\ TxNext
          /\ UNCHANGED <<rxVars, monitorVars, dhcpVars, timeoutVars, arpVars>>
       \/ /\ side = "monitor" /\ MonitorNext
          /\ UNCHANGED <<rxVars, txVars, dhcpVars, timeoutVars, arpVars>>
       \/ /\ side = "dhcp" /\ DhcpNext
          /\ UNCHANGED <<rxVars, txVars, monitorVars, timeoutVars, arpVars>>
       \/ /\ side = "timers" /\ TimeoutsNext
          /\ UNCHANGED <<rxVars, txVars, monitorVars, dhcpVars, arpVars>>
       \/ /\ side = "arp" /\ EtharpNext
          /\ UNCHANGED <<rxVars, txVars, monitorVars, dhcpVars, timeoutVars>>

\* The fairness of each specification, on its own side.
NetworkSpec ==
    /\ NetworkInit /\ [][NetworkNext]_networkVars
    /\ WF_rxVars(side = "rx" /\ Driver)
    /\ WF_rxVars(side = "rx" /\ RxPublish)
    /\ WF_txVars(side = "tx" /\ Start)
    /\ WF_txVars(side = "tx" /\ CardSends)
    /\ WF_monitorVars(side = "monitor" /\ Tick)
    /\ WF_monitorVars(side = "monitor" /\ update_network_monitor)
    /\ WF_monitorVars(side = "monitor" /\ net = "up" /\ pending > 0 /\ ping_recv_cb)
    /\ WF_protocol(side = "dhcp" /\ dhcp_start)
    /\ WF_protocol(side = "dhcp" /\ dhcp_recv)
    /\ WF_protocol(side = "dhcp" /\ Servers)
    /\ WF_protocol(side = "dhcp" /\ FineTimer)
    /\ WF_protocol(side = "dhcp" /\ CoarseTimer)
    /\ WF_protocol(side = "dhcp" /\ MinutePasses)
    /\ WF_arpVars(side = "arp" /\ etharp_tmr)

=============================================================================
