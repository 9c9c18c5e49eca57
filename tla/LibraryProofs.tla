--------------------------- MODULE LibraryProofs ---------------------------
(***************************************************************************)
(* Proofs about Library and the Netif in it, for every set of networks,    *)
(* every number of starts and frames, and every sequence of calls and      *)
(* faults: both processors use one struct, the lease of one network is     *)
(* never used in another, and an address set by hand stays.                *)
(***************************************************************************)
EXTENDS Library, TLAPS

-----------------------------------------------------------------------------
(* One struct.  The invariant says what may be in the FIFO in each phase of *)
(* the application: it is empty when the library is off, holds the address  *)
(* or nothing while it starts, requests for updates while it is on, and the *)
(* request to stop behind them while it stops.                              *)

OnlySyncs(n) == \A i \in 1 .. n : fifo[i].m = "sync"

Unstarted == ~ active /\ (arm7 = "forget" \/ (arm7 = "idle" /\ WifiData7 = 0))

OffInv == app = "off" =>
  /\ WifiDataCached = 0
  /\ fifo = <<>>
  /\ Unstarted

StartingInv == app = "starting" =>
  /\ WifiDataCached = starts
  /\ \/ Unstarted /\ fifo = <<[m |-> "address", of |-> starts]>>
     \/ ~ active /\ arm7 = "init" /\ WifiData7 = starts /\ fifo = <<>>
     \/ active /\ arm7 = "idle" /\ WifiData7 = starts /\ fifo = <<>>

OnInv == app = "on" =>
  /\ WifiDataCached = starts /\ WifiData7 = starts
  /\ active /\ arm7 = "idle"
  /\ OnlySyncs(Len(fifo))

StoppingInv == app = "stopping" =>
  /\ WifiDataCached = starts
  /\ \/ /\ active /\ arm7 = "idle" /\ WifiData7 = starts
        /\ fifo # <<>> /\ fifo[Len(fifo)].m = "deinit" /\ OnlySyncs(Len(fifo) - 1)
     \/ active /\ arm7 = "deinit" /\ WifiData7 = starts /\ fifo = <<>>
     \/ Unstarted /\ (arm7 = "forget" => WifiData7 = starts) /\ fifo = <<>>

LifeInv ==
  /\ TypeOK
  /\ app # "off" => starts # 0
  /\ OffInv /\ StartingInv /\ OnInv /\ StoppingInv

USE DEF lifeVars, frameVars

(* Nothing is on its way before the first start.                            *)
LEMMA LifeInit == Init => LifeInv
<1> SUFFICES ASSUME Init PROVE LifeInv
  OBVIOUS
<1>1. handler \in BOOLEAN /\ active \in BOOLEAN
  BY DEF Init
<1>2. fifo \in Seq([m : {"address", "sync", "deinit"}, of : 0 .. MaxStarts])
  BY DEF Init
<1>3. TypeOK
  BY <1>1, <1>2, LibraryAssumption DEF Init, TypeOK
<1> QED
  BY <1>3 DEF Init, LifeInv, OffInv, StartingInv, OnInv, StoppingInv, Unstarted

(* A message taken in front of others leaves what is behind it.             *)
LEMMA AfterTail ==
  ASSUME NEW S, NEW q \in Seq(S), q # <<>>
  PROVE  /\ Tail(q) \in Seq(S)
         /\ Len(Tail(q)) = Len(q) - 1
         /\ \A i \in 1 .. Len(q) - 1 : Tail(q)[i] = q[i + 1]
         /\ Head(q) = q[1] /\ Len(q) \in Nat \ {0}
         /\ Len(q) = 1 => Tail(q) = <<>>
  OBVIOUS

(* A message sent behind others leaves them.                                *)
LEMMA AfterAppend ==
  ASSUME NEW S, NEW q \in Seq(S), NEW x \in S
  PROVE  /\ Append(q, x) \in Seq(S)
         /\ Len(Append(q, x)) = Len(q) + 1 /\ Len(q) \in Nat
         /\ \A i \in 1 .. Len(q) : Append(q, x)[i] = q[i]
         /\ Append(q, x)[Len(q) + 1] = x
         /\ Append(q, x) # <<>>
  OBVIOUS

(* Every step of either processor keeps what the phases promise.            *)
LEMMA LifeStep == LifeInv /\ [Next]_vars => LifeInv'
<1> SUFFICES ASSUME LifeInv, [Next]_vars PROVE LifeInv'
  OBVIOUS
<1> USE LibraryAssumption
    DEF LifeInv, TypeOK, OffInv, StartingInv, OnInv, StoppingInv, Unstarted, OnlySyncs
<1> DEFINE M == [m : {"address", "sync", "deinit"}, of : 0 .. MaxStarts]
           After(x) == /\ fifo' \in Seq(M)
                       /\ Len(fifo') = Len(fifo) + 1 /\ Len(fifo) \in Nat
                       /\ \A i \in 1 .. Len(fifo) : fifo'[i] = fifo[i]
                       /\ fifo'[Len(fifo) + 1] = x
                       /\ fifo' # <<>>
<1>1. CASE UNCHANGED own
  BY <1>1 DEF own
<1>2. ASSUME NEW local \in BOOLEAN, InitIPC(local) PROVE LifeInv'
  <2>1. app = "off" /\ fifo = <<>> /\ ~ active /\ starts \in Nat /\ starts < MaxStarts
    BY <1>2 DEF InitIPC
  <2>2. fifo' = <<[m |-> "address", of |-> starts']>>
    BY <1>2, <2>1 DEF InitIPC
  <2>3. [m |-> "address", of |-> starts'] \in M
    BY <1>2, <2>1 DEF InitIPC
  <2>4. fifo' \in Seq(M)
    BY <2>2, <2>3
  <2>5. TypeOK'
    <3>1. starts' \in 0 .. MaxStarts /\ WifiData7' \in 0 .. starts'
      BY <1>2, <2>1 DEF InitIPC
    <3>2. /\ WifiDataCached' = starts' /\ app' = "starting" /\ active' = FALSE /\ frames' = 0
          /\ UNCHANGED <<build, handler, arm7, received, syncs>>
      BY <1>2 DEF InitIPC
    <3>3. handler' \in BOOLEAN /\ active' \in BOOLEAN
      BY <3>2
    <3> QED
      BY <2>4, <3>1, <3>2, <3>3
  <2>6. StartingInv'
    BY <1>2, <2>1, <2>2 DEF InitIPC
  <2> QED
    BY <1>2, <2>1, <2>5, <2>6 DEF InitIPC
<1>3. CASE InitDefault
  BY <1>3 DEF InitDefault, Arm7Ready
<1>4. CASE Deinit
  <2>1. [m |-> "deinit", of |-> 0] \in M
    OBVIOUS
  <2>2. After([m |-> "deinit", of |-> 0])
    BY <1>4, <2>1, AfterAppend DEF Deinit
  <2>3. fifo' # <<>> /\ fifo'[Len(fifo')].m = "deinit" /\ OnlySyncs(Len(fifo) - 1)'
    <3>1. \A i \in 1 .. Len(fifo) : fifo[i].m = "sync"
      BY <1>4 DEF Deinit
    <3> HIDE DEF LifeInv, TypeOK, OffInv, StartingInv, OnInv, StoppingInv, Unstarted
    <3>2. Len(fifo') = Len(fifo) + 1 /\ Len(fifo) \in Nat /\ fifo' # <<>>
      BY <2>2
    <3>3. fifo'[Len(fifo')].m = "deinit"
      BY <2>2, <3>2
    <3>4. \A i \in 1 .. Len(fifo') - 1 : fifo'[i].m = "sync"
      BY <2>2, <3>1, <3>2
    <3> QED
      BY <3>2, <3>3, <3>4
  <2>4. TypeOK'
    BY <1>4, <2>2 DEF Deinit
  <2> QED
    BY <1>4, <2>3, <2>4 DEF Deinit
<1>5. CASE Free
  BY <1>5 DEF Free, Arm7Stopped
<1>6. CASE CallSync
  <2>1. [m |-> "sync", of |-> 0] \in M
    OBVIOUS
  <2>2. After([m |-> "sync", of |-> 0])
    BY <1>6, <2>1, AfterAppend DEF CallSync
  <2> QED
    BY <1>6, <2>2 DEF CallSync
<1>7. CASE TakeMessage
  <2>1. /\ Tail(fifo) \in Seq(M)
        /\ Len(Tail(fifo)) = Len(fifo) - 1
        /\ \A i \in 1 .. Len(fifo) - 1 : Tail(fifo)[i] = fifo[i + 1]
        /\ Head(fifo) = fifo[1] /\ Len(fifo) \in Nat \ {0}
        /\ Len(fifo) = 1 => Tail(fifo) = <<>>
    BY <1>7, AfterTail DEF TakeMessage
  <2>2. CASE app = "starting"
    <3>1. /\ Unstarted /\ arm7 = "idle"
          /\ fifo = <<[m |-> "address", of |-> starts]>>
      BY <1>7, <2>2 DEF TakeMessage
    <3>2. Len(fifo) = 1 /\ Head(fifo).m = "address" /\ Head(fifo).of = starts
      BY <3>1
    <3>3. fifo' = <<>> /\ WifiData7' = starts /\ arm7' = "init"
      BY <1>7, <2>1, <3>2 DEF TakeMessage
    <3> QED
      BY <1>7, <2>1, <2>2, <3>1, <3>3 DEF TakeMessage, arm9Vars
  <2>3. CASE app = "on"
    <3>1. Head(fifo).m = "sync"
      BY <2>1, <2>3
    <3>2. \A i \in 1 .. Len(fifo) : fifo[i].m = "sync"
      BY <2>3
    <3>3. fifo' = Tail(fifo)
      BY <1>7 DEF TakeMessage
    <3>4. \A i \in 1 .. Len(fifo') : fifo'[i].m = "sync"
      <4> HIDE DEF LifeInv, TypeOK, OffInv, StartingInv, OnInv, StoppingInv, Unstarted
      <4>1. Len(fifo') = Len(fifo) - 1
        BY <2>1, <3>3
      <4>2. \A i \in 1 .. Len(fifo') : fifo'[i] = fifo[i + 1] /\ i + 1 \in 1 .. Len(fifo)
        BY <2>1, <3>3, <4>1
      <4> QED
        BY <3>2, <4>2
    <3> QED
      BY <1>7, <2>1, <2>3, <3>1, <3>4 DEF TakeMessage, arm9Vars
  <2>4. CASE app = "stopping"
    <3>1. /\ active /\ arm7 = "idle" /\ WifiData7 = starts
          /\ fifo[Len(fifo)].m = "deinit"
          /\ \A i \in 1 .. Len(fifo) - 1 : fifo[i].m = "sync"
      BY <1>7, <2>4 DEF TakeMessage
    <3>2. CASE Len(fifo) = 1
      <4>1. fifo' = <<>> /\ arm7' = "deinit" /\ WifiData7' = WifiData7
        BY <1>7, <2>1, <3>1, <3>2 DEF TakeMessage
      <4> QED
        BY <1>7, <2>1, <2>4, <3>1, <4>1 DEF TakeMessage, arm9Vars
    <3>3. CASE Len(fifo) # 1
      <4> HIDE DEF LifeInv, TypeOK, OffInv, StartingInv, OnInv, StoppingInv, Unstarted
      <4>0. Head(fifo).m = "sync" /\ fifo' = Tail(fifo)
        BY <1>7, <2>1, <3>1, <3>3 DEF TakeMessage
      <4>1. arm7' = arm7 /\ WifiData7' = WifiData7
        BY <1>7, <4>0 DEF TakeMessage
      <4>2. /\ fifo' # <<>> /\ fifo'[Len(fifo')].m = "deinit"
            /\ \A i \in 1 .. Len(fifo') - 1 : fifo'[i].m = "sync"
        <5>1. Len(fifo') = Len(fifo) - 1 /\ Len(fifo') \in Nat \ {0}
          BY <2>1, <3>3, <4>0
        <5>2. fifo'[Len(fifo')] = fifo[Len(fifo)]
          BY <2>1, <4>0, <5>1
        <5>3. \A i \in 1 .. Len(fifo') - 1 : fifo'[i] = fifo[i + 1]
          BY <2>1, <4>0, <5>1
        <5>4. \A i \in 1 .. Len(fifo') - 1 : fifo'[i].m = "sync"
          BY <3>1, <5>1, <5>3
        <5> QED
          BY <3>1, <5>1, <5>2, <5>4
      <4> USE DEF LifeInv, TypeOK, OffInv, StartingInv, OnInv, StoppingInv, Unstarted
      <4> QED
        BY <1>7, <2>1, <2>4, <3>1, <4>1, <4>2 DEF TakeMessage, arm9Vars
    <3> QED
      BY <3>2, <3>3
  <2> QED
    BY <1>7, <2>2, <2>3, <2>4 DEF TakeMessage
<1>8. CASE Arm7Init
  BY <1>8 DEF Arm7Init, arm9Vars
<1>9. CASE Arm7Deinit
  BY <1>9 DEF Arm7Deinit, arm9Vars
<1>10. CASE Forget
  BY <1>10 DEF Forget, arm9Vars
<1>11. CASE FrameReceived
  BY <1>11 DEF FrameReceived
<1>12. CASE SyncReceived
  BY <1>12 DEF SyncReceived, Update
<1>13. CASE ThreadUpdates
  BY <1>13 DEF ThreadUpdates, Update
<1> QED
  BY <1>1, <1>2, <1>3, <1>4, <1>5, <1>6, <1>7, <1>8, <1>9, <1>10, <1>11, <1>12, <1>13
  DEF Next, vars, own

(* The struct the ARM7 works on is the one that is allocated, through any   *)
(* number of starts and stops, if the ARM7 takes no interrupt between the   *)
(* two stores of its Wifi_Deinit.                                           *)
THEOREM LibrarySameStruct == ASSUME NestedIrq = FALSE PROVE Spec => []SameStruct
<1>1. LifeInv => SameStruct
  BY DEF LifeInv, SameStruct, TypeOK, OffInv, StartingInv, OnInv, StoppingInv, Unstarted
<1> QED
  BY <1>1, LifeInit, LifeStep, PTL DEF Spec

-----------------------------------------------------------------------------
(* The address.  What the DHCP client may still hear decides which lease it *)
(* can take, so that the invariant speaks of questions and answers as well: *)
(* none is open while the client is off or the console is not connected,    *)
(* and answers that still count come from the network of this connection.   *)

ClientOff ==
  /\ ~ dswifi_use_dhcp => dhcp = "off"
  /\ ~ dswifi_link_is_up => dhcp = "off"
  /\ ~ wifi_lwip_enabled => ~ dswifi_link_is_up
  /\ dhcp = "off" => asked = "none" /\ \A i \in DOMAIN rx : ~ rx[i].live

LeaseInv ==
  /\ ip \in Net => dhcp_supplied_address
  /\ curMode = "connected" /\ fresh =>
       /\ ip \in Net => ip = net
       /\ \A i \in DOMAIN rx : rx[i].live => rx[i].from = net

ModeInv ==
  /\ reqMode = "connected" => curAp \in Net
  /\ curMode = "connected" => net \in Net
  /\ curMode # "connected" => asked = "none"

NetifInv == NetifTypeOK /\ ClientOff /\ LeaseInv /\ ModeInv

Answers == [k : {"offer", "ack", "nak"}, from : Net, live : BOOLEAN]

USE DEF appVars, reqVars, arm7Vars, linkVars, addrVars, dhcpVars, netVars, moved

(* A new transaction leaves the answers in the buffer but none that counts. *)
LEMMA DeadAnswers ==
  ASSUME NEW q \in Seq(Answers)
  PROVE  /\ Dead(q) \in Seq(Answers)
         /\ \A i \in DOMAIN Dead(q) : ~ Dead(q)[i].live
<1>1. DOMAIN q = 1 .. Len(q) /\ Len(q) \in Nat
  OBVIOUS
<1>2. \A i \in 1 .. Len(q) : [q[i] EXCEPT !.live = FALSE] \in Answers
  <2> TAKE i \in 1 .. Len(q)
  <2>1. q[i] \in Answers
    BY <1>1
  <2> QED
    BY <2>1 DEF Answers
<1>3. Dead(q) \in [1 .. Len(q) -> Answers]
  BY <1>1, <1>2 DEF Dead
<1>4. \A i \in 1 .. Len(q) : ~ Dead(q)[i].live
  <2> TAKE i \in 1 .. Len(q)
  <2>1. Dead(q)[i] = [q[i] EXCEPT !.live = FALSE]
    BY <1>1 DEF Dead
  <2> QED
    BY <2>1 DEF Answers
<1> QED
  BY <1>1, <1>3, <1>4

(* The ARM7 follows the requests.                                           *)
LEMMA Arm7Keeps == ASSUME NetifInv, Arm7 \/ Lost PROVE NetifInv'
<1> USE NetifAssumption DEF NetifInv, NetifTypeOK, ClientOff, LeaseInv, ModeInv, dhcp_supplied_address, Input
<1>1. CASE Enable
  BY <1>1 DEF Enable
<1>2. CASE FromNormal
  <2>1. NetifTypeOK'
    <3>1. fresh' \in BOOLEAN
      BY <1>2 DEF FromNormal
    <3>2. net' \in Net \cup {NoAddr} /\ curMode' = reqMode /\ curLibraryMode' = reqLibraryMode
      BY <1>2 DEF FromNormal
    <3>3. UNCHANGED <<appVars, reqVars, linkVars, addrVars, dhcpVars, inputs>>
      BY <1>2 DEF FromNormal
    <3> QED
      BY <3>1, <3>2, <3>3
  <2>2. ClientOff' /\ ModeInv'
    BY <1>2 DEF FromNormal
  <2>3. fresh' => reqMode # "connected" \/ ~ dswifi_link_is_up
    BY <1>2 DEF FromNormal
  <2>4. LeaseInv'
    BY <1>2, <2>3 DEF FromNormal
  <2> QED
    BY <2>1, <2>2, <2>4
<1>3. CASE BackToNormal
  BY <1>3 DEF BackToNormal, Ends
<1>4. CASE Lost
  BY <1>4 DEF Lost
<1> QED
  BY <1>1, <1>2, <1>3, <1>4 DEF Arm7

(* Setting an address by hand stops the DHCP client.                        *)
LEMMA SetIPKeeps ==
  ASSUME NetifInv, NEW addr \in {NoAddr, Manual}, SetIP(addr),
         UNCHANGED <<arm7Vars, wifi_lwip_enabled, dswifi_link_is_up>>
  PROVE  /\ ClientOff' /\ LeaseInv'
         /\ dswifi_use_dhcp' \in BOOLEAN /\ dhcp' \in DhcpStates
         /\ ip' \in Net \cup {NoAddr, Manual} /\ dns' \in Net \cup {NoAddr, Manual}
         /\ ip6' = ip6 /\ tries' \in 0 .. SelectTries /\ asked' \in {asked, "none"}
         /\ rx' \in Seq(Answers)
<1> USE NetifAssumption DEF NetifInv, NetifTypeOK, ClientOff, LeaseInv, dhcp_supplied_address, Answers
<1>1. CASE ~ wifi_lwip_enabled
  BY <1>1 DEF SetIP
<1>2. CASE wifi_lwip_enabled /\ addr = NoAddr
  BY <1>2 DEF SetIP
<1>3. CASE wifi_lwip_enabled /\ addr = Manual
  <2>1. /\ dhcp' = "off" /\ tries' = 0 /\ asked' = "none" /\ rx' = Dead(rx)
        /\ ip' = Manual /\ dns' = Manual /\ dswifi_use_dhcp' = FALSE /\ ip6' = ip6
    BY <1>3 DEF SetIP, wifi_set_manual_ip, dhcp_stop
  <2>2. rx' \in Seq(Answers) /\ \A i \in DOMAIN rx' : ~ rx'[i].live
    BY <2>1, DeadAnswers
  <2>3. ClientOff'
    BY <2>1, <2>2
  <2>4. ip' \notin Net
    BY <2>1
  <2>5. LeaseInv'
    BY <2>2, <2>4
  <2>6. 0 \in 0 .. SelectTries /\ "off" \in DhcpStates /\ FALSE \in BOOLEAN
    BY DEF DhcpStates
  <2> QED
    BY <2>1, <2>2, <2>3, <2>5, <2>6
<1> QED
  BY <1>1, <1>2, <1>3

(* The calls of the application.                                            *)
LEMMA RequestsKeep == ASSUME NetifInv, Requests PROVE NetifInv'
<1> USE NetifAssumption DEF NetifInv, NetifTypeOK, ClientOff, LeaseInv, ModeInv, dhcp_supplied_address, Input
<1>1. ASSUME NEW n \in Net, ConnectAP(n) PROVE NetifInv'
  BY <1>1 DEF ConnectAP, Scan
<1>2. CASE AutoConnect
  BY <1>2 DEF AutoConnect, Scan
<1>3. CASE DisconnectAP
  BY <1>3 DEF DisconnectAP
<1>4. CASE DisableWifi
  BY <1>4 DEF DisableWifi
<1>5. ASSUME NEW mode \in {"internet", "client", "host"}, LibraryMode(mode) PROVE NetifInv'
  BY <1>5 DEF LibraryMode
<1>6. ASSUME NEW addr \in {NoAddr, Manual}, AppSetsIP(addr) PROVE NetifInv'
  <2>1. SetIP(addr) /\ UNCHANGED <<appVars, reqVars, arm7Vars, wifi_lwip_enabled, dswifi_link_is_up>>
    BY <1>6 DEF AppSetsIP
  <2>2. /\ ClientOff' /\ LeaseInv'
        /\ dswifi_use_dhcp' \in BOOLEAN /\ dhcp' \in DhcpStates
        /\ ip' \in Net \cup {NoAddr, Manual} /\ dns' \in Net \cup {NoAddr, Manual}
        /\ ip6' = ip6 /\ tries' \in 0 .. SelectTries /\ asked' \in {asked, "none"}
        /\ rx' \in Seq(Answers)
    BY <2>1, SetIPKeeps
  <2>3. inputs' \in 0 .. MaxInputs
    BY <1>6 DEF AppSetsIP
  <2> QED
    BY <2>1, <2>2, <2>3 DEF Answers
<1> QED
  BY <1>1, <1>2, <1>3, <1>4, <1>5, <1>6 DEF Requests

(* The link goes up with the DHCP client looking for a server, or off.      *)
LEMMA SetUpKeeps ==
  ASSUME NetifInv, Online, wifi_netif_set_up,
         UNCHANGED <<reqVars, arm7Vars, wifi_lwip_enabled, dswifi_use_dhcp, addrVars>>
  PROVE  /\ ClientOff' /\ LeaseInv' /\ ModeInv'
         /\ dswifi_link_is_up' = TRUE
         /\ dhcp' \in DhcpStates /\ tries' \in 0 .. SelectTries
         /\ asked' \in {"none", "discover", "request"} /\ rx' \in Seq(Answers)
<1> USE NetifAssumption DEF NetifInv, NetifTypeOK, ClientOff, LeaseInv, ModeInv, DhcpStates, Answers
<1>1. CASE dswifi_link_is_up
  <2>1. UNCHANGED <<dswifi_link_is_up, dhcpVars>>
    BY <1>1 DEF wifi_netif_set_up
  <2>2. dswifi_link_is_up' = TRUE
    BY <1>1, <2>1
  <2>3. ClientOff' /\ LeaseInv' /\ ModeInv'
    BY <2>1 DEF dhcp_supplied_address
  <2> QED
    BY <2>1, <2>2, <2>3
<1>2. CASE ~ dswifi_link_is_up /\ dswifi_use_dhcp
  <2>1. /\ dswifi_link_is_up' = TRUE /\ dhcp' = "selecting" /\ tries' = 0
        /\ asked' \in {"none", "discover"} /\ rx' = Dead(rx)
    BY <1>2 DEF wifi_netif_set_up, dhcp_discover, Send
  <2>2. rx' \in Seq(Answers) /\ \A i \in DOMAIN rx' : ~ rx'[i].live
    BY <2>1, DeadAnswers
  <2>3. ip \notin Net
    BY <1>2 DEF dhcp_supplied_address
  <2>4. ClientOff' /\ ModeInv'
    BY <2>1, <2>2, <1>2 DEF Online
  <2>5. LeaseInv'
    BY <2>2, <2>3
  <2> QED
    BY <2>1, <2>2, <2>4, <2>5
<1>3. CASE ~ dswifi_link_is_up /\ ~ dswifi_use_dhcp
  <2>1. dhcp = "off"
    BY <1>3
  <2>2. dswifi_link_is_up' = TRUE /\ dhcp' = LinkChanged /\ UNCHANGED <<tries, asked, rx>>
    BY <1>3 DEF wifi_netif_set_up
  <2>3. LinkChanged = "off"
    BY <2>1 DEF LinkChanged, dhcp_supplied_address
  <2>4. dswifi_link_is_up' = TRUE /\ dhcp = "off" /\ UNCHANGED dhcpVars
    BY <2>1, <2>2, <2>3 DEF dhcpVars
  <2>5. ClientOff' /\ LeaseInv' /\ ModeInv'
    BY <1>3, <2>4 DEF Online, dhcp_supplied_address
  <2> QED
    BY <2>4, <2>5
<1> QED
  BY <1>1, <1>2, <1>3

(* Wifi_AssocStatus.                                                        *)
LEMMA StatusKeeps == ASSUME NetifInv, Found \/ Status PROVE NetifInv'
<1> USE NetifAssumption DEF NetifInv, NetifTypeOK
<1>1. CASE FoundAP
  BY <1>1 DEF FoundAP, ClientOff, LeaseInv, ModeInv, dhcp_supplied_address
<1>2. ASSUME NEW n \in Wfc, FoundWfcAP(n) PROVE NetifInv'
  <2>1. PICK addr \in {NoAddr, Manual} : SetIP(addr)
    BY <1>2 DEF FoundWfcAP
  <2>2. UNCHANGED <<wifi_connect_point, reqLibraryMode, arm7Vars, wifi_lwip_enabled,
                    dswifi_link_is_up, inputs>>
    BY <1>2 DEF FoundWfcAP
  <2>3. /\ ClientOff' /\ LeaseInv'
        /\ dswifi_use_dhcp' \in BOOLEAN /\ dhcp' \in DhcpStates
        /\ ip' \in Net \cup {NoAddr, Manual} /\ dns' \in Net \cup {NoAddr, Manual}
        /\ ip6' = ip6 /\ tries' \in 0 .. SelectTries /\ asked' \in {asked, "none"}
        /\ rx' \in Seq(Answers)
    BY <2>1, <2>2, SetIPKeeps
  <2>4. curAp' \in Net /\ reqMode' = "connected" /\ wifi_connect_state' = "associating"
    BY <1>2 DEF FoundWfcAP
  <2> QED
    BY <2>2, <2>3, <2>4 DEF Answers, ModeInv
<1>3. CASE StatusConnected
  <2>1. UNCHANGED <<wifi_connect_point, reqVars, arm7Vars, wifi_lwip_enabled, dswifi_use_dhcp,
                    addrVars, inputs>>
    BY <1>3 DEF StatusConnected
  <2>2. wifi_connect_state' \in {"dhcping", "done"}
    BY <1>3 DEF StatusConnected
  <2>3. CASE Online
    <3>1. wifi_netif_set_up
      BY <1>3, <2>3 DEF StatusConnected
    <3>2. /\ ClientOff' /\ LeaseInv' /\ ModeInv'
          /\ dswifi_link_is_up' = TRUE
          /\ dhcp' \in DhcpStates /\ tries' \in 0 .. SelectTries
          /\ asked' \in {"none", "discover", "request"} /\ rx' \in Seq(Answers)
      BY <2>1, <2>3, <3>1, SetUpKeeps
    <3> QED
      BY <2>1, <2>2, <3>2 DEF Answers
  <2>4. CASE ~ Online
    <3>1. UNCHANGED <<dswifi_link_is_up, dhcpVars>>
      BY <1>3, <2>4 DEF StatusConnected
    <3> QED
      BY <2>1, <2>2, <3>1 DEF ClientOff, LeaseInv, ModeInv, dhcp_supplied_address
  <2> QED
    BY <2>3, <2>4
<1>4. CASE StatusCannotConnect
  BY <1>4 DEF StatusCannotConnect, ClientOff, LeaseInv, ModeInv, dhcp_supplied_address
<1>5. CASE StatusAddress
  BY <1>5 DEF StatusAddress, ClientOff, LeaseInv, ModeInv, dhcp_supplied_address
<1> QED
  BY <1>1, <1>2, <1>3, <1>4, <1>5 DEF Found, Status

(* wifi_update_thread takes the link up and down.                           *)
LEMMA UpdateThreadKeeps == ASSUME NetifInv, UpdateThread PROVE NetifInv'
<1> USE NetifAssumption DEF NetifInv, NetifTypeOK
<1>1. CASE ThreadSetsUp
  <2>1. /\ Online /\ wifi_netif_set_up
        /\ UNCHANGED <<appVars, reqVars, arm7Vars, wifi_lwip_enabled, dswifi_use_dhcp, addrVars, inputs>>
    BY <1>1 DEF ThreadSetsUp
  <2>2. /\ ClientOff' /\ LeaseInv' /\ ModeInv'
        /\ dswifi_link_is_up' = TRUE
        /\ dhcp' \in DhcpStates /\ tries' \in 0 .. SelectTries
        /\ asked' \in {"none", "discover", "request"} /\ rx' \in Seq(Answers)
    BY <2>1, SetUpKeeps
  <2> QED
    BY <2>1, <2>2 DEF Answers
<1>2. CASE ThreadSetsDown
  <2>1. /\ dswifi_link_is_up' = FALSE /\ curMode # "connected"
        /\ UNCHANGED <<appVars, reqVars, arm7Vars, wifi_lwip_enabled, dswifi_use_dhcp, dns, ip6, inputs>>
    BY <1>2 DEF ThreadSetsDown
  <2>2. CASE dswifi_use_dhcp /\ dhcp # "off"
    <3>1. /\ dhcp' = "off" /\ tries' = 0 /\ asked' = "none" /\ rx' = Dead(rx)
          /\ ip' = IF dhcp_supplied_address THEN NoAddr ELSE ip
      BY <1>2, <2>2 DEF ThreadSetsDown, StopWhenDown, dhcp_stop, AfterStop
    <3>2. rx' \in Seq(Answers) /\ \A i \in DOMAIN rx' : ~ rx'[i].live
      BY <3>1, DeadAnswers DEF Answers
    <3>3. ip' \notin Net /\ ip' \in Net \cup {NoAddr, Manual}
      BY <3>1 DEF LeaseInv
    <3>4. ClientOff' /\ ModeInv'
      BY <2>1, <3>1, <3>2 DEF ClientOff, ModeInv
    <3>5. LeaseInv'
      BY <3>2, <3>3 DEF LeaseInv
    <3>6. dswifi_link_is_up' \in BOOLEAN
      BY <2>1
    <3> QED
      BY <2>1, <3>1, <3>2, <3>3, <3>4, <3>5, <3>6 DEF Answers, DhcpStates
  <2>3. CASE ~ (dswifi_use_dhcp /\ dhcp # "off")
    <3>1. UNCHANGED <<dhcpVars, ip>> /\ dhcp = "off"
      BY <1>2, <2>3 DEF ThreadSetsDown, StopWhenDown, ClientOff
    <3>2. dswifi_link_is_up' \in BOOLEAN
      BY <2>1
    <3>3. NetifTypeOK'
      BY <2>1, <3>1, <3>2
    <3>4. ClientOff' /\ LeaseInv' /\ ModeInv'
      BY <2>1, <3>1 DEF ClientOff, LeaseInv, ModeInv, dhcp_supplied_address
    <3> QED
      BY <3>3, <3>4
  <2> QED
    BY <2>2, <2>3
<1> QED
  BY <1>1, <1>2 DEF UpdateThread

(* The timers of the DHCP client: it is running, so that the link is up and *)
(* DHCP in use, and it keeps running.                                       *)
LEMMA TimersKeep == ASSUME NetifInv, DhcpTimeout \/ LeaseTimer PROVE NetifInv'
<1> USE NetifAssumption DEF NetifInv, NetifTypeOK
<1>1. /\ dhcp # "off" /\ dswifi_use_dhcp /\ dswifi_link_is_up /\ wifi_lwip_enabled
      /\ curMode = "connected"
  BY DEF DhcpTimeout, LeaseTimer, Repeats, dhcp_supplied_address, ClientOff, Online
<1>2. UNCHANGED <<appVars, reqVars, arm7Vars, linkVars, dns, ip6>> /\ inputs' \in 0 .. MaxInputs
  BY DEF DhcpTimeout, LeaseTimer, Input
<1>3. Dead(rx) \in Seq(Answers) /\ \A i \in DOMAIN Dead(rx) : ~ Dead(rx)[i].live
  BY DeadAnswers DEF Answers
<1>4. /\ dhcp' \in DhcpStates \ {"off"} /\ tries' \in 0 .. SelectTries
      /\ asked' \in {"none", "discover", "request"}
      /\ rx' \in {rx, Dead(rx)}
  <2>1. ASSUME NEW k \in {"discover", "request"}, Send(k)
        PROVE  asked' \in {"none", "discover", "request"}
    BY <2>1 DEF Send
  <2>2. ASSUME dhcp_discover
        PROVE  dhcp' = "selecting" /\ tries' = 0 /\ asked' \in {"none", "discover", "request"}
    BY <2>2, <2>1 DEF dhcp_discover
  <2>3. CASE DhcpTimeout
    <3>1. CASE dhcp = "selecting"
      BY <2>2, <2>3, <3>1 DEF DhcpTimeout, DhcpStates
    <3>2. CASE dhcp = "requesting" /\ tries < SelectTries
      BY <2>1, <2>3, <3>2 DEF DhcpTimeout, DhcpStates
    <3>3. CASE dhcp # "selecting" /\ ~ (dhcp = "requesting" /\ tries < SelectTries)
      BY <2>2, <2>3, <3>3 DEF DhcpTimeout, DhcpStates
    <3> QED
      BY <3>1, <3>2, <3>3
  <2>4. CASE LeaseTimer
    BY <2>1, <2>2, <2>4 DEF LeaseTimer, DhcpStates
  <2> QED
    BY <2>3, <2>4
<1>5. \/ ip' = ip /\ (dhcp_supplied_address => dhcp_supplied_address')
      \/ ip' = NoAddr
  BY DEF DhcpTimeout, LeaseTimer, Repeats, dhcp_supplied_address
<1>6. rx' \in Seq(Answers) /\ \A i \in DOMAIN rx' : rx'[i].live => rx' = rx
  BY <1>3, <1>4 DEF Answers
<1>7. ClientOff' /\ ModeInv'
  BY <1>1, <1>2, <1>4 DEF ClientOff, ModeInv
<1>8. LeaseInv'
  BY <1>2, <1>5, <1>6 DEF LeaseInv, dhcp_supplied_address
<1> QED
  BY <1>2, <1>4, <1>5, <1>6, <1>7, <1>8 DEF Answers

(* An answer is handled.  One that counts comes from this network, and one  *)
(* that meets a client that is off does nothing.                            *)
LEMMA ReceiveKeeps == ASSUME NetifInv, Receive PROVE NetifInv'
<1> USE NetifAssumption DEF NetifInv, NetifTypeOK
<1> DEFINE m == Head(rx)
           rest == Tail(rx)
<1>1. /\ rest \in Seq(Answers)
      /\ Len(rest) = Len(rx) - 1
      /\ \A i \in 1 .. Len(rx) - 1 : rest[i] = rx[i + 1]
      /\ m = rx[1] /\ Len(rx) \in Nat \ {0}
  BY AfterTail DEF Receive, Answers
<1>2. m \in Answers /\ 1 \in DOMAIN rx
  <2>1. rx \in Seq(Answers)
    BY DEF Answers
  <2> QED
    BY <1>1, <2>1
<1>3. \A i \in DOMAIN rest : i + 1 \in DOMAIN rx /\ rest[i] = rx[i + 1]
  BY <1>1
<1>4. Dead(rest) \in Seq(Answers) /\ \A i \in DOMAIN Dead(rest) : ~ Dead(rest)[i].live
  BY <1>1, DeadAnswers
<1>5. UNCHANGED <<appVars, reqVars, arm7Vars, linkVars, ip6, inputs>>
  BY DEF Receive
<1>6. rx' \in Seq(Answers) /\ \A i \in DOMAIN rx' : rx'[i].live => rx' = rest
  BY <1>1, <1>4 DEF Receive
<1>7. CASE dhcp = "off"
  <2>1. rx' = rest /\ UNCHANGED <<ip, dns, dhcp, tries, asked>>
    BY <1>7 DEF Receive
  <2> QED
    BY <1>1, <1>3, <1>5, <1>7, <2>1
    DEF Answers, ClientOff, LeaseInv, ModeInv, dhcp_supplied_address
<1>8. CASE dhcp # "off"
  <2>1. /\ dhcp' \in DhcpStates \ {"off"} /\ tries' \in 0 .. SelectTries
        /\ asked' \in {"none", "discover", "request"}
        /\ curMode # "connected" => asked' = "none"
        /\ dns' \in Net \cup {NoAddr, Manual}
    BY <1>2, <1>8 DEF Receive, dhcp_discover, Send, DhcpStates, DnsAfter, Answers, ModeInv
  <2>2. \/ ip' = ip /\ (dhcp_supplied_address => dhcp_supplied_address')
        \/ ip' = NoAddr
        \/ ip' = m.from /\ m.live /\ dhcp' = "bound"
    BY DEF Receive, Taken, dhcp_supplied_address
  <2>3. ClientOff' /\ ModeInv'
    BY <1>5, <1>8, <2>1 DEF ClientOff, ModeInv
  <2>4. LeaseInv'
    <3>1. ip' \in Net => dhcp_supplied_address'
      BY <2>2 DEF LeaseInv, dhcp_supplied_address
    <3>2. ASSUME curMode = "connected", fresh, ip' \in Net PROVE ip' = net
      BY <1>2, <2>2, <3>2 DEF LeaseInv
    <3>3. ASSUME curMode = "connected", fresh, NEW i \in DOMAIN rx', rx'[i].live
          PROVE  rx'[i].from = net
      BY <1>3, <1>6, <3>3 DEF LeaseInv
    <3> QED
      BY <1>5, <3>1, <3>2, <3>3 DEF LeaseInv
  <2>5. ip' \in Net \cup {NoAddr, Manual}
    BY <1>2, <2>2 DEF Answers
  <2> QED
    BY <1>5, <1>6, <2>1, <2>3, <2>4, <2>5 DEF Answers
<1> QED
  BY <1>7, <1>8

(* A server answers a question of this connection.                          *)
LEMMA NetworkKeeps == ASSUME NetifInv, Network PROVE NetifInv'
<1> USE NetifAssumption DEF NetifInv, NetifTypeOK
<1>1. CASE Answer
  <2>1. /\ asked # "none" /\ asked' = "none" /\ inputs' \in 0 .. MaxInputs
        /\ UNCHANGED <<appVars, reqVars, arm7Vars, linkVars, addrVars, dhcp, tries>>
    BY <1>1 DEF Answer, Input
  <2>2. curMode = "connected" /\ net \in Net /\ dhcp # "off"
    BY <2>1 DEF ModeInv, ClientOff
  <2>3. CASE rx' = rx
    BY <2>1, <2>2, <2>3 DEF ClientOff, LeaseInv, ModeInv, dhcp_supplied_address
  <2>4. ASSUME NEW k \in {"offer", "ack", "nak"},
               rx' = Append(rx, [k |-> k, from |-> net, live |-> TRUE])
        PROVE  NetifInv'
    <3> DEFINE a == [k |-> k, from |-> net, live |-> TRUE]
    <3>1. a \in Answers
      BY <2>2 DEF Answers
    <3>2. /\ rx' \in Seq(Answers)
          /\ Len(rx') = Len(rx) + 1 /\ Len(rx) \in Nat
          /\ \A i \in 1 .. Len(rx) : rx'[i] = rx[i]
          /\ rx'[Len(rx) + 1] = a
      BY <2>4, <3>1, AfterAppend DEF Answers
    <3>3. \A i \in DOMAIN rx' : (i \in DOMAIN rx /\ rx'[i] = rx[i]) \/ rx'[i].from = net
      BY <3>2 DEF Answers
    <3>4. LeaseInv'
      BY <2>1, <3>3 DEF LeaseInv, dhcp_supplied_address
    <3>5. ClientOff' /\ ModeInv'
      BY <2>1, <2>2 DEF ClientOff, ModeInv
    <3> QED
      BY <2>1, <3>2, <3>4, <3>5 DEF Answers
  <2> QED
    BY <1>1, <2>3, <2>4 DEF Answer
<1>2. CASE Advertise
  BY <1>2 DEF Advertise, ClientOff, LeaseInv, ModeInv, dhcp_supplied_address
<1> QED
  BY <1>1, <1>2 DEF Network

(* lwIP runs only in a library that is on. *)
LibInv == NetifInv /\ (app # "on" => ~ wifi_lwip_enabled)

(* A program begins without address, link or questions.                     *)
LEMMA LibInit == Init => LibInv
<1> SUFFICES ASSUME Init PROVE LibInv
  OBVIOUS
<1>1. rx \in Seq([k : {"offer", "ack", "nak"}, from : Net, live : BOOLEAN]) /\ rx = <<>>
  BY DEF Init, NetifInit
<1>2. fresh \in BOOLEAN /\ wifi_lwip_enabled \in BOOLEAN /\ dswifi_link_is_up \in BOOLEAN
      /\ dswifi_use_dhcp \in BOOLEAN
  BY DEF Init, NetifInit
<1>3. NetifTypeOK
  BY <1>1, <1>2, NetifAssumption DEF Init, NetifInit, NetifTypeOK, DhcpStates
<1>4. ClientOff /\ ModeInv
  BY <1>1 DEF Init, NetifInit, ClientOff, ModeInv
<1>5. LeaseInv
  BY <1>1, NetifAssumption DEF Init, NetifInit, LeaseInv
<1> QED
  BY <1>3, <1>4, <1>5 DEF LibInv, NetifInv, Init, NetifInit

(* Starting and stopping the library keep what is known of the address:     *)
(* without lwIP there is no link, and so no DHCP client.                    *)
LEMMA LibStep == LibInv /\ [Next]_vars => LibInv'
<1> SUFFICES ASSUME LibInv, [Next]_vars PROVE LibInv'
  OBVIOUS
<1> USE DEF LibInv
<1>1. CASE UNCHANGED netifVars /\ (app' = app \/ ~ wifi_lwip_enabled)
  BY <1>1 DEF netifVars, NetifInv, NetifTypeOK, ClientOff, LeaseInv, ModeInv, dhcp_supplied_address
<1>2. ASSUME NEW local \in BOOLEAN, InitIPC(local) PROVE LibInv'
  <2>1. ~ wifi_lwip_enabled /\ dhcp = "off" /\ asked = "none" /\ ip \notin Net
    BY <1>2 DEF InitIPC, NetifInv, ClientOff, LeaseInv, dhcp_supplied_address
  <2>2. /\ reqMode' = "disabled" /\ curMode' = "disabled"
        /\ reqLibraryMode' \in {"client", "internet"} /\ curLibraryMode' = "internet"
        /\ curAp' = NoAddr /\ rx' = <<>>
        /\ UNCHANGED <<appVars, net, fresh, linkVars, addrVars, dhcp, tries, asked, inputs>>
    BY <1>2 DEF InitIPC
  <2>3. rx' \in Seq(Answers) /\ DOMAIN rx' = {}
    BY <2>2
  <2>4. ClientOff' /\ LeaseInv' /\ ModeInv'
    BY <2>1, <2>2, <2>3 DEF NetifInv, ClientOff, LeaseInv, ModeInv, dhcp_supplied_address
  <2>5. NetifTypeOK'
    BY <2>2, <2>3 DEF NetifInv, NetifTypeOK, Answers
  <2> QED
    BY <2>1, <2>2, <2>4, <2>5 DEF NetifInv
<1>3. CASE InitDefault
  <2>1. ~ wifi_lwip_enabled /\ dhcp = "off" /\ ip \notin Net
    BY <1>3 DEF InitDefault, NetifInv, ClientOff, LeaseInv, dhcp_supplied_address
  <2>2. /\ wifi_lwip_enabled' \in BOOLEAN /\ dswifi_link_is_up' = FALSE
        /\ dswifi_use_dhcp' = TRUE /\ app' = "on"
        /\ UNCHANGED <<appVars, reqVars, arm7Vars, addrVars, dhcpVars, inputs>>
    BY <1>3 DEF InitDefault
  <2>3. dswifi_link_is_up' \in BOOLEAN /\ dswifi_use_dhcp' \in BOOLEAN
    BY <2>2
  <2>4. NetifTypeOK'
    BY <2>2, <2>3 DEF NetifInv, NetifTypeOK
  <2>5. ClientOff' /\ LeaseInv' /\ ModeInv'
    BY <2>1, <2>2 DEF NetifInv, ClientOff, LeaseInv, ModeInv, dhcp_supplied_address
  <2> QED
    BY <2>2, <2>4, <2>5 DEF NetifInv
<1>4. CASE CallSync
  <2>1. inputs' \in 0 .. MaxInputs
    BY <1>4, NetifAssumption DEF CallSync, Input, NetifInv, NetifTypeOK
  <2> QED
    BY <1>4, <2>1 DEF CallSync, NetifInv, NetifTypeOK, ClientOff, LeaseInv, ModeInv, dhcp_supplied_address
<1>5. CASE app = "on" /\ Application /\ UNCHANGED own
  BY <1>5, RequestsKeep, StatusKeeps DEF Application, own
<1>6. CASE (Arm7 \/ Lost) /\ UNCHANGED own
  BY <1>6, Arm7Keeps DEF own, Arm7, Lost, Enable, FromNormal, BackToNormal
<1>7. CASE (Network \/ Thread) /\ UNCHANGED own
  <2>1. NetifInv'
    BY <1>7, NetworkKeeps, TimersKeep, ReceiveKeeps, UpdateThreadKeeps DEF Thread
  <2>2. UNCHANGED <<wifi_lwip_enabled, app>>
    BY <1>7 DEF own, Network, Thread, Answer, Advertise, DhcpTimeout, LeaseTimer, Receive,
                UpdateThread, ThreadSetsUp, ThreadSetsDown
  <2> QED
    BY <2>1, <2>2
<1>8. CASE Deinit \/ Free \/ TakeMessage \/ Arm7Init \/ Arm7Deinit \/ Forget
            \/ FrameReceived \/ SyncReceived \/ ThreadUpdates
  BY <1>1, <1>8 DEF Deinit, Free, TakeMessage, Arm7Init, Arm7Deinit, Forget, FrameReceived,
                    SyncReceived, ThreadUpdates, arm9Vars
<1> QED
  BY <1>1, <1>2, <1>3, <1>4, <1>5, <1>6, <1>7, <1>8 DEF Next, vars

(* For every set of networks, and whatever is lost, late or refused: no     *)
(* lease of another network is used in a connection that began with the     *)
(* link down, and none survives the link.                                   *)
THEOREM LibraryLease == Spec => []LeaseOfThisNetwork
<1>1. LibInv => LeaseOfThisNetwork
  BY DEF LibInv, NetifInv, ClientOff, LeaseInv, LeaseOfThisNetwork, dhcp_supplied_address
<1> QED
  BY <1>1, LibInit, LibStep, PTL DEF Spec

(* With the DHCP client off, which LibInv says of an address set by hand,   *)
(* no step of the client, of a timer or of a connection replaces it.        *)
LEMMA ManualStep ==
  LibInv /\ [Next]_vars => [(ip = Manual /\ ~ dswifi_use_dhcp) => ip' = Manual]_netifVars
<1> SUFFICES ASSUME LibInv, [Next]_vars, ip = Manual, ~ dswifi_use_dhcp PROVE ip' = Manual
  OBVIOUS
<1>1. dhcp = "off"
  BY DEF LibInv, NetifInv, ClientOff
<1>2. CASE Application
  BY <1>2 DEF Application, Requests, Found, Status, ConnectAP, AutoConnect, DisconnectAP, DisableWifi,
              LibraryMode, AppSetsIP, FoundAP, FoundWfcAP, SetIP, wifi_set_manual_ip, StatusConnected,
              StatusCannotConnect, StatusAddress
<1>3. CASE Arm7 \/ Lost
  BY <1>3 DEF Arm7, Lost, Enable, FromNormal, BackToNormal
<1>4. CASE Network \/ Thread
  BY <1>1, <1>4 DEF Network, Thread, Answer, Advertise, DhcpTimeout, LeaseTimer, Receive, UpdateThread,
                    ThreadSetsUp, ThreadSetsDown, StopWhenDown, Repeats, dhcp_supplied_address
<1>5. CASE (\E local \in BOOLEAN : InitIPC(local)) \/ InitDefault \/ CallSync
  BY <1>5 DEF InitIPC, InitDefault, CallSync
<1>6. CASE Deinit \/ Free \/ TakeMessage \/ Arm7Init \/ Arm7Deinit \/ Forget
            \/ FrameReceived \/ SyncReceived \/ ThreadUpdates \/ UNCHANGED vars
  BY <1>6 DEF Deinit, Free, TakeMessage, Arm7Init, Arm7Deinit, Forget, FrameReceived,
              SyncReceived, ThreadUpdates, arm9Vars, netifVars, vars
<1> QED
  BY <1>2, <1>3, <1>4, <1>5, <1>6 DEF Next

(* An address set by hand stays until DHCP is asked for again, for every    *)
(* set of networks and every sequence of calls and faults.                  *)
THEOREM LibraryManual == Spec => ManualIsKept
<1> QED
  BY LibInit, LibStep, ManualStep, PTL DEF Spec, ManualIsKept

=============================================================================
