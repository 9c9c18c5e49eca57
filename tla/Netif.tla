------------------------------- MODULE Netif -------------------------------
(***************************************************************************)
(* The network interface of lwIP on the ARM9 and the way to an address:    *)
(* src/source/arm9/lwip/netif.c, wifi_update_thread in lwip/sys.c, the     *)
(* calls of ipc.c and access_point.c that change reqMode and               *)
(* reqLibraryMode, how the ARM7 follows them (ntr/update.c), and of lwIP   *)
(* the DHCP client (src/lwip/source/core/ipv4/dhcp.c).                     *)
(*                                                                         *)
(* The threads of the ARM9 are cooperative, so that a function of the      *)
(* library is one action; the ARM7 changes its modes at any time.  A       *)
(* wake-up of wifi_update_thread handles received packets, follows the     *)
(* modes and runs expired timers; here these are actions of their own.     *)
(* lwIP's own thread sleeps in a fetch that nothing ends, so that timers   *)
(* expire only in wifi_update_thread.  How the ARM7 joins a network is     *)
(* abstract (see Station and TwlStation), as is which access points a scan *)
(* finds (see AccessPointList); the networks and their servers are         *)
(* external.                                                               *)
(***************************************************************************)
EXTENDS Naturals, Sequences

CONSTANTS
  Net,         \* the networks and hosts; also the address each of them leases
  NoAddr,      \* 0.0.0.0
  Manual,      \* an address that the application or the WFC settings give
  Silent,      \* the networks and hosts without a DHCP server
  NoDns,       \* the networks whose server gives no DNS server
  V6,          \* the networks with an IPv6 router
  Wfc,         \* the networks saved in the WFC settings
  Static,      \* those of them saved with an address
  SelectTries, \* requests before the DHCP client starts all over; 6 in lwIP
  MaxInputs    \* bound on the calls of the application and on faults: lost
               \* packets, late answers, lost connections, lease times over

ASSUME NetifAssumption ==
  /\ NoAddr \notin Net /\ Manual \notin Net /\ Manual # NoAddr
  /\ Silent \subseteq Net /\ NoDns \subseteq Net /\ V6 \subseteq Net
  /\ Wfc \subseteq Net /\ Static \subseteq Wfc
  /\ SelectTries \in Nat \ {0}
  /\ MaxInputs \in Nat

VARIABLES
  wifi_connect_state, wifi_connect_point,
  reqMode, curMode,  \* curMode: connecting is still "normal"
  reqLibraryMode, curLibraryMode,
  curAp,             \* the network that is asked for
  net,               \* the network the ARM7 is, or was last, connected to
  fresh,             \* history: the link went down before this connection began
  wifi_lwip_enabled, dswifi_link_is_up, dswifi_use_dhcp,
  ip, dns, ip6,      \* of dswifi_netif, and lwIP's first DNS server
  dhcp, tries,       \* state of the DHCP client, requests sent in it
  asked,             \* its last message, until the server answers it
  rx,                \* answers in rxbufData; live: the transaction is still on
  inputs

appVars == <<wifi_connect_state, wifi_connect_point>>
reqVars == <<reqMode, reqLibraryMode, curAp>>
arm7Vars == <<curMode, curLibraryMode, net, fresh>>
linkVars == <<wifi_lwip_enabled, dswifi_link_is_up, dswifi_use_dhcp>>
addrVars == <<ip, dns, ip6>>
dhcpVars == <<dhcp, tries, asked, rx>>
netifVars == <<appVars, reqVars, arm7Vars, linkVars, addrVars, dhcpVars, inputs>>

(* What a program finds before its first call *)
NetifInit ==
  /\ wifi_connect_state = "searching"
  /\ wifi_connect_point = NoAddr
  /\ reqMode = "disabled" /\ curMode = "disabled"
  /\ reqLibraryMode = "internet" /\ curLibraryMode = "internet"
  /\ curAp = NoAddr /\ net = NoAddr
  /\ wifi_lwip_enabled = FALSE
  /\ dswifi_link_is_up = FALSE /\ dswifi_use_dhcp = TRUE
  /\ ip = NoAddr /\ dns = NoAddr /\ ip6 = NoAddr
  /\ dhcp = "off" /\ tries = 0 /\ asked = "none" /\ rx = <<>>
  /\ fresh = TRUE
  /\ inputs = 0

Input == inputs < MaxInputs /\ inputs' = inputs + 1

(* wifi_update_thread looks after the netif in this case only *)
Online == wifi_lwip_enabled /\ curLibraryMode = "internet" /\ curMode = "connected"

-----------------------------------------------------------------------------
(* lwIP's DHCP client *)

dhcp_supplied_address == dhcp \in {"bound", "renewing", "rebinding"}

(* A message to the server, heard only where there is one *)
Send(k) == asked' = IF curMode = "connected" /\ net \notin Silent THEN k ELSE "none"

(* A new xid: answers under the old one are not for us any more *)
Dead(q) == [i \in DOMAIN q |-> [q[i] EXCEPT !.live = FALSE]]

(* dhcp_discover; the xid is kept for a repetition *)
dhcp_discover ==
  /\ dhcp' = "selecting"
  /\ tries' = 0
  /\ Send("discover")

(* dhcp_release_and_stop *)
dhcp_stop ==
  /\ dhcp' = "off"
  /\ tries' = 0
  /\ asked' = "none"
  /\ rx' = Dead(rx)

AfterStop == IF dhcp_supplied_address THEN NoAddr ELSE ip

(* Faulty variant: requests are not repeated *)
OnlyDiscover == {"selecting"}

(* The states in which dhcp_timeout does anything *)
Repeats == {"selecting", "requesting", "rebooting"}

(* dhcp_fine_tmr and dhcp_timeout.  A server answers in time; an answer     *)
(* that is still on its way is a late one.                                  *)
DhcpTimeout ==
  /\ Online
  /\ dhcp \in Repeats
  /\ IF asked = "none" /\ rx = <<>> THEN UNCHANGED inputs ELSE Input
  /\ CASE dhcp = "selecting" ->
            /\ dhcp_discover
            /\ UNCHANGED rx
       [] dhcp = "requesting" /\ tries < SelectTries ->
            /\ tries' = tries + 1
            /\ Send("request")
            /\ UNCHANGED <<dhcp, rx>>
       [] OTHER ->  \* release and start, or give up rebooting
            /\ dhcp_discover
            /\ rx' = Dead(rx)
  /\ UNCHANGED <<appVars, reqVars, arm7Vars, linkVars, addrVars>>

(* dhcp_coarse_tmr: the times to renew and to rebind a lease, and its end *)
LeaseTimer ==
  /\ Online
  /\ dhcp_supplied_address
  /\ Input
  /\ \/ /\ dhcp \in {"bound", "renewing"}
        /\ dhcp' = "renewing"
        /\ Send("request")
        /\ UNCHANGED <<ip, tries, rx>>
     \/ /\ dhcp' = "rebinding"
        /\ Send("request")
        /\ UNCHANGED <<ip, tries, rx>>
     \/ /\ dhcp_discover
        /\ ip' = NoAddr
        /\ rx' = Dead(rx)
  /\ UNCHANGED <<appVars, reqVars, arm7Vars, linkVars, dns, ip6>>

(* Faulty variant: the transaction is not compared *)
TakenAnyXid(m) == TRUE

(* What dhcp_recv asks of a message before it looks at the state *)
Taken(m) == m.live

(* Faulty variant: the option is ignored *)
DnsKept(m) == dns

(* dhcp_handle_ack sets the servers that the message names *)
DnsAfter(m) == IF m.from \in NoDns THEN dns ELSE m.from

(* Wifi_Update passes packets on only in Internet mode and while the netif  *)
(* is up; dhcp_recv                                                         *)
Receive ==
  /\ wifi_lwip_enabled
  /\ rx # <<>>
  /\ LET m == Head(rx)
         rest == Tail(rx)
         heard == curLibraryMode = "internet" /\ dswifi_link_is_up /\ dhcp # "off" /\ Taken(m) IN
       CASE heard /\ m.k = "offer" /\ dhcp = "selecting" ->
              /\ dhcp' = "requesting"
              /\ tries' = 1
              /\ Send("request")
              /\ rx' = rest
              /\ UNCHANGED <<ip, dns>>
         [] heard /\ m.k = "ack" /\ dhcp \in {"requesting", "rebooting", "renewing", "rebinding"} ->
              /\ dhcp' = "bound"
              /\ ip' = m.from
              /\ dns' = DnsAfter(m)
              /\ rx' = rest
              /\ UNCHANGED <<tries, asked>>
         [] heard /\ m.k = "nak" /\ dhcp \in {"requesting", "rebooting", "renewing", "rebinding"} ->
              /\ dhcp_discover
              /\ ip' = NoAddr
              /\ rx' = Dead(rest)
              /\ UNCHANGED dns
         [] OTHER ->
              /\ rx' = rest
              /\ UNCHANGED <<ip, dns, dhcp, tries, asked>>
  /\ UNCHANGED <<appVars, reqVars, arm7Vars, linkVars, ip6, inputs>>

-----------------------------------------------------------------------------
(* The netif *)

(* dhcp_network_changed_link_up, when netif_set_link_up has set the flag *)
LinkChanged ==
  CASE dhcp = "off" -> "off"
    [] dhcp_supplied_address \/ dhcp = "rebooting" -> "rebooting"
    [] OTHER -> "selecting"

wifi_netif_set_up ==
  IF dswifi_link_is_up
    THEN UNCHANGED <<dswifi_link_is_up, dhcpVars>>
    ELSE /\ dswifi_link_is_up' = TRUE
         /\ IF dswifi_use_dhcp
              THEN dhcp_discover /\ rx' = Dead(rx)
              ELSE dhcp' = LinkChanged /\ UNCHANGED <<tries, asked, rx>>

(* The DHCP client is stopped only if it is in use *)
StopWhenDown ==
  IF dswifi_use_dhcp /\ dhcp # "off" THEN dhcp_stop /\ ip' = AfterStop
  ELSE UNCHANGED <<dhcpVars, ip>>

(* wifi_update_thread *)
ThreadSetsUp ==
  /\ Online /\ ~ dswifi_link_is_up
  /\ wifi_netif_set_up
  /\ UNCHANGED <<appVars, reqVars, arm7Vars, wifi_lwip_enabled, dswifi_use_dhcp, addrVars, inputs>>

ThreadSetsDown ==
  /\ wifi_lwip_enabled /\ curLibraryMode = "internet" /\ curMode # "connected"
  /\ dswifi_link_is_up
  /\ dswifi_link_is_up' = FALSE
  /\ StopWhenDown
  /\ UNCHANGED <<appVars, reqVars, arm7Vars, wifi_lwip_enabled, dswifi_use_dhcp, dns, ip6, inputs>>

(* Faulty variant: the address is set while DHCP goes on *)
ManualIpOnly ==
  /\ ip' = Manual
  /\ dswifi_use_dhcp' = FALSE
  /\ UNCHANGED dhcpVars

wifi_set_manual_ip ==
  /\ dhcp_stop
  /\ ip' = Manual
  /\ dswifi_use_dhcp' = FALSE

(* Wifi_SetIP *)
SetIP(addr) ==
  CASE ~ wifi_lwip_enabled -> UNCHANGED <<dhcpVars, addrVars, dswifi_use_dhcp>>
    [] wifi_lwip_enabled /\ addr = NoAddr ->
         dswifi_use_dhcp' = TRUE /\ UNCHANGED <<dhcpVars, addrVars>>
    [] wifi_lwip_enabled /\ addr = Manual ->
         wifi_set_manual_ip /\ dns' = Manual /\ UNCHANGED ip6

-----------------------------------------------------------------------------
(* The application *)

netVars == <<arm7Vars, linkVars, addrVars, dhcpVars>>

AppSetsIP(addr) ==
  /\ Input
  /\ SetIP(addr)
  /\ UNCHANGED <<appVars, reqVars, arm7Vars, wifi_lwip_enabled, dswifi_link_is_up>>

(* Wifi_ScanMode does nothing while the library acts as a host *)
Scan(mode) == reqMode' = IF curLibraryMode = "host" THEN mode ELSE "scan"

(* Wifi_ConnectSecureAP and Wifi_ConnectWfcAP *)
ConnectAP(n) ==
  /\ Input
  /\ Scan("normal")
  /\ wifi_connect_state' = "searching"
  /\ wifi_connect_point' = n
  /\ UNCHANGED <<reqLibraryMode, curAp, netVars>>

(* Wifi_AutoConnect, Wifi_InternetMode included *)
AutoConnect ==
  /\ Input
  /\ reqLibraryMode' = IF wifi_lwip_enabled THEN "internet" ELSE reqLibraryMode
  /\ LET mode == IF wifi_lwip_enabled THEN "normal" ELSE reqMode IN
       IF Wfc = {} THEN reqMode' = mode ELSE Scan(mode)
  /\ wifi_connect_state' = IF Wfc = {} THEN "error" ELSE "searching_wfc"
  /\ UNCHANGED <<wifi_connect_point, curAp, netVars>>

DisconnectAP ==
  /\ Input
  /\ reqMode' = "normal"
  /\ wifi_connect_state' = "error"
  /\ UNCHANGED <<wifi_connect_point, reqLibraryMode, curAp, netVars>>

(* Wifi_InternetMode, Wifi_MultiplayerClientMode, Wifi_MultiplayerHostMode *)
LibraryMode(mode) ==
  /\ Input
  /\ mode = "internet" => wifi_lwip_enabled
  /\ reqLibraryMode' = mode
  /\ reqMode' = IF mode = "host" THEN "accesspoint" ELSE "normal"
  /\ UNCHANGED <<appVars, curAp, netVars>>

DisableWifi ==
  /\ Input
  /\ reqMode' = "disabled"
  /\ UNCHANGED <<appVars, reqLibraryMode, curAp, netVars>>

(* Wifi_AssocStatus: one action for each state it acts in *)
FoundAP ==
  /\ wifi_connect_state = "searching"
  /\ wifi_connect_point # NoAddr
  /\ curAp' = wifi_connect_point
  /\ reqMode' = "connected"
  /\ wifi_connect_state' = "associating"
  /\ UNCHANGED <<wifi_connect_point, reqLibraryMode, netVars, inputs>>

FoundWfcAP(n) ==
  /\ wifi_connect_state = "searching_wfc"
  /\ SetIP(IF n \in Static THEN Manual ELSE NoAddr)
  /\ curAp' = n
  /\ reqMode' = "connected"
  /\ wifi_connect_state' = "associating"
  /\ UNCHANGED <<wifi_connect_point, reqLibraryMode, arm7Vars, wifi_lwip_enabled, dswifi_link_is_up, inputs>>

StatusConnected ==
  /\ wifi_connect_state = "associating"
  /\ curMode = "connected"
  /\ IF Online THEN wifi_netif_set_up ELSE UNCHANGED <<dswifi_link_is_up, dhcpVars>>
  /\ wifi_connect_state' = IF Online /\ dswifi_use_dhcp THEN "dhcping" ELSE "done"
  /\ UNCHANGED <<wifi_connect_point, reqVars, arm7Vars, wifi_lwip_enabled, dswifi_use_dhcp, addrVars, inputs>>

StatusCannotConnect ==
  /\ wifi_connect_state = "associating"
  /\ curMode = "cannotconnect"
  /\ wifi_connect_state' = "error"
  /\ UNCHANGED <<wifi_connect_point, reqVars, netVars, inputs>>

StatusAddress ==
  /\ wifi_connect_state = "dhcping"
  /\ (ip # NoAddr /\ dns # NoAddr) \/ ip6 # NoAddr
  /\ wifi_connect_state' = "done"
  /\ UNCHANGED <<wifi_connect_point, reqVars, netVars, inputs>>

-----------------------------------------------------------------------------
(* The ARM7.  A question that it has not answered by the time the console   *)
(* leaves is out of the server's reach.                                     *)

moved == <<appVars, reqVars, linkVars, addrVars, dhcp, tries, rx>>

(* Wifi_NTR_Update in WIFIMODE_DISABLED *)
Enable ==
  /\ curMode = "disabled" /\ reqMode # "disabled"
  /\ curMode' = "normal"
  /\ UNCHANGED <<moved, curLibraryMode, net, fresh, asked, inputs>>

(* Wifi_NTR_Update in WIFIMODE_NORMAL; the whole of a connection's beginning *)
FromNormal ==
  /\ curMode = "normal"
  /\ curLibraryMode # reqLibraryMode \/ reqMode # "normal"
  /\ curLibraryMode' = reqLibraryMode
  /\ curMode' = reqMode
  /\ net' = IF reqMode = "connected" THEN curAp ELSE net
  /\ fresh' = IF reqMode = "connected" THEN ~ dswifi_link_is_up ELSE fresh
  /\ UNCHANGED <<moved, asked, inputs>>

(* Faulty variant: a new library mode alone ends nothing *)
EndsByModeOnly(mode) == reqMode # mode

(* What ends WIFIMODE_SCAN, CONNECTED, CANNOTCONNECT and ACCESSPOINT *)
Ends(mode) == reqMode # mode \/ curLibraryMode # reqLibraryMode

BackToNormal ==
  /\ curMode \notin {"disabled", "normal"}
  /\ Ends(IF curMode = "cannotconnect" THEN "connected" ELSE curMode)
  /\ curMode' = "normal"
  /\ asked' = "none"
  /\ UNCHANGED <<moved, curLibraryMode, net, fresh, inputs>>

(* The access point refuses, or the connection is lost *)
Lost ==
  /\ reqMode = "connected" /\ curMode \in {"normal", "connected"}
  /\ Input
  /\ curMode' = "cannotconnect"
  /\ curLibraryMode' = IF curMode = "normal" THEN reqLibraryMode ELSE curLibraryMode
  /\ asked' = "none"
  /\ UNCHANGED <<moved, net, fresh>>

-----------------------------------------------------------------------------
(* External: the networks and their servers *)

Answer ==
  /\ asked # "none"
  /\ asked' = "none"
  /\ \/ /\ rx' = Append(rx, [k |-> IF asked = "discover" THEN "offer" ELSE "ack",
                             from |-> net, live |-> TRUE])
        /\ UNCHANGED inputs
     \/ /\ Input
        /\ asked = "request"
        /\ rx' = Append(rx, [k |-> "nak", from |-> net, live |-> TRUE])
     \/ /\ Input  \* the question or the answer is lost
        /\ UNCHANGED rx
  /\ UNCHANGED <<appVars, reqVars, arm7Vars, linkVars, addrVars, dhcp, tries>>

(* A router advertisement gives an IPv6 address to the first free slot; it  *)
(* stays there when the link goes down.                                     *)
Advertise ==
  /\ Online /\ dswifi_link_is_up
  /\ net \in V6 /\ ip6 = NoAddr
  /\ ip6' = net
  /\ UNCHANGED <<appVars, reqVars, arm7Vars, linkVars, ip, dns, dhcpVars, inputs>>

-----------------------------------------------------------------------------

Found == FoundAP \/ \E n \in Wfc : FoundWfcAP(n)

Status == StatusConnected \/ StatusCannotConnect \/ StatusAddress

UpdateThread == ThreadSetsUp \/ ThreadSetsDown

Arm7 == Enable \/ FromNormal \/ BackToNormal

Requests ==
  \/ \E n \in Net : ConnectAP(n)
  \/ AutoConnect \/ DisconnectAP \/ DisableWifi
  \/ \E mode \in {"internet", "client", "host"} : LibraryMode(mode)
  \/ \E addr \in {NoAddr, Manual} : AppSetsIP(addr)

-----------------------------------------------------------------------------

DhcpStates == {"off", "selecting", "requesting", "bound", "renewing", "rebinding", "rebooting"}

NetifTypeOK ==
  /\ wifi_connect_state \in {"searching", "searching_wfc", "associating", "dhcping", "done", "error"}
  /\ wifi_connect_point \in Net \cup {NoAddr}
  /\ reqMode \in {"disabled", "normal", "scan", "connected", "accesspoint"}
  /\ curMode \in {"disabled", "normal", "scan", "connected", "cannotconnect", "accesspoint"}
  /\ reqLibraryMode \in {"internet", "client", "host"}
  /\ curLibraryMode \in {"internet", "client", "host"}
  /\ curAp \in Net \cup {NoAddr} /\ net \in Net \cup {NoAddr}
  /\ fresh \in BOOLEAN
  /\ wifi_lwip_enabled \in BOOLEAN
  /\ dswifi_link_is_up \in BOOLEAN /\ dswifi_use_dhcp \in BOOLEAN
  /\ ip \in Net \cup {NoAddr, Manual} /\ dns \in Net \cup {NoAddr, Manual}
  /\ ip6 \in Net \cup {NoAddr}
  /\ dhcp \in DhcpStates
  /\ tries \in 0 .. SelectTries
  /\ asked \in {"none", "discover", "request"}
  /\ rx \in Seq([k : {"offer", "ack", "nak"}, from : Net, live : BOOLEAN])
  /\ inputs \in 0 .. MaxInputs

(* The lease of one network is never used in another, whatever answers were *)
(* still in the buffer when the console moved and whatever modes it went    *)
(* through, and none survives the link: with the link down the DHCP client  *)
(* is off and no leased address is left, so that it never believes it may   *)
(* reboot with an old lease.  (A console that moves before                  *)
(* wifi_update_thread has run once does keep the lease.)                    *)
LeaseOfThisNetwork ==
  /\ NetifTypeOK
  /\ (ip \in Net /\ curMode = "connected" /\ fresh) => ip = net
  /\ ip \in Net => dhcp_supplied_address /\ dswifi_link_is_up
  /\ ~ dswifi_link_is_up => dhcp = "off"

(* No late answer, timer or new connection replaces an address that was set *)
(* by hand, as long as DHCP is not asked for again.                         *)
ManualIsKept ==
  [][(ip = Manual /\ ~ dswifi_use_dhcp) => ip' = Manual]_netifVars

DhcpHere == dhcp # "off" /\ Online /\ fresh

(* In a network with a server the console gets a lease, however many        *)
(* answers are lost, late or negative before, and wherever DHCP was when    *)
(* the last connection ended.                                               *)
AddressObtained == (DhcpHere /\ net \notin Silent) ~> (ip = net \/ ~ DhcpHere)

(* Wifi_AssocStatus does not say ACQUIRINGDHCP for ever where a server      *)
(* gives an address and a DNS server.                                       *)
AcquiringEnds ==
  (wifi_connect_state = "dhcping" /\ DhcpHere /\ net \notin Silent \cup NoDns)
    ~> (wifi_connect_state # "dhcping" \/ ~ DhcpHere)

(* A change of the library mode is carried out, whatever the ARM7 is doing: *)
(* the documentation waits for Wifi_LibraryModeReady in a loop.             *)
ModeReached ==
  (reqLibraryMode # curLibraryMode /\ reqMode # "disabled")
    ~> (reqLibraryMode = curLibraryMode \/ reqMode = "disabled")

=============================================================================
