----------------------------- MODULE TwlStation -----------------------------
(***************************************************************************)
(* A DSi in DSi mode joins an access point.  The ARM7 follows the          *)
(* requested mode in Wifi_TWL_Update (src/source/arm7/twl/update.twl.c)    *)
(* and talks to the WiFi card in WMI commands and events                   *)
(* (src/source/arm7/twl/ath/wmi.twl.c).  The card associates by itself;    *)
(* the WPA2 handshake and the calculation of the PMK are the ARM7's.       *)
(* The calculation takes seconds and runs with interrupts enabled inside   *)
(* Wifi_TWL_Update, so that events and further calls of Wifi_TWL_Update    *)
(* are nested in it.  The card and the access points are external.         *)
(*                                                                         *)
(* One action is one call of Wifi_TWL_Update (timer interrupt, WIFI_SYNC), *)
(* one card interrupt, one block of the PMK, or one step of the ARM9 or of *)
(* the card.                                                               *)
(***************************************************************************)
EXTENDS Naturals, Sequences

CONSTANTS
  Ap,           \* the access points in range, all willing
  NoAp,         \* none; also a field of zeroes
  BadKey,       \* half a PMK, of the password of one AP and the name of another
  Wpa2,         \* the access points with AP_SECURITY_WPA2; the others are open
  Wfc,          \* the access points saved in the WFC settings
  NumChannels,  \* what the card answers to WMI_GET_CHANNEL_LIST_CMD
  Off,          \* the application may disable and enable WiFi
  MaxInputs     \* bound on the calls of the application and the faults (losses on
                \* the air, connections that fail, new group keys) together

ASSUME TwlAssumption ==
  /\ NoAp \notin Ap /\ BadKey \notin Ap /\ BadKey # NoAp
  /\ Wpa2 \subseteq Ap
  /\ Wfc \subseteq Ap
  /\ NumChannels \in Nat \ {0}
  /\ Off \in BOOLEAN
  /\ MaxInputs \in Nat

VARIABLES
  pc9,            \* ARM9: "app", or Wifi_ScanMode() is still to be called
  connect_point,  \* ARM9: wifi_connect_point while it searches, else NoAp
  unseen,         \* history: the ARM9 asked for a connection while the ARM7 was
                  \* still busy with one, and had not seen the request to end it
  reqMode, curMode, curAp, aplist,
  loadWfcKey,     \* WFLAG_REQ_LOAD_WFC_KEY
  pass,           \* curApSecurity.pass: whose password it is
  pmk,            \* curApSecurity.pmk: whose key its two blocks are
  calc,           \* the running calls of wpa_calc_pmk, the innermost last
  wmi_bIsReady, wmi_is_scanning, ap_connected, ap_connecting, has_sent_hs4,
  ptk,            \* device_ptk is the one of the card's current connection
  device_num_channels, device_cur_channel_idx,
  mhz,            \* the channel the card was told to scan, 0 if it scans none
  irq,            \* the card's interrupt and wifi_card_bInitted
  cmdq, evq,      \* the mailbox, from and to the ARM7
  link, trying,   \* card: the access point it is connected, or connects, to
  keyed,          \* card: it has the pairwise key of this connection
  told,           \* access point: how far the WPA2 handshake is
  inputs          \* calls of the application and faults so far

arm9Vars == <<pc9, connect_point, unseen>>
shared == <<reqMode, curAp, loadWfcKey, pass>>
scanVars == <<wmi_is_scanning, device_num_channels, device_cur_channel_idx, mhz, aplist>>
linkVars == <<ap_connected, ap_connecting, has_sent_hs4, ptk>>
cardVars == <<link, trying, keyed, told, inputs>>
vars == <<arm9Vars, shared, curMode, pmk, calc, wmi_bIsReady, scanVars, linkVars, irq,
          cmdq, evq, cardVars>>

NoPmk == <<NoAp, NoAp>>
PmkOf(ap) == <<ap, ap>>

Init ==
  /\ pc9 = "app"
  /\ connect_point = NoAp
  /\ unseen = FALSE
  /\ reqMode = "normal"
  /\ curMode = "disabled"
  /\ curAp = NoAp
  /\ aplist = {}
  /\ loadWfcKey = FALSE
  /\ pass = NoAp
  /\ pmk = NoPmk
  /\ calc = <<>>
  /\ wmi_bIsReady = FALSE
  /\ wmi_is_scanning = FALSE
  /\ ap_connected = FALSE
  /\ ap_connecting = FALSE
  /\ has_sent_hs4 = FALSE
  /\ ptk = FALSE
  /\ device_num_channels = 0
  /\ device_cur_channel_idx = 0
  /\ mhz = 0
  /\ irq = FALSE
  /\ cmdq = <<>>
  /\ evq = <<>>
  /\ link = NoAp
  /\ trying = NoAp
  /\ keyed = FALSE
  /\ told = "none"
  /\ inputs = 0

-----------------------------------------------------------------------------
(* Messages.  What belongs to a WPA2 handshake is live as long as the       *)
(* connection of the card it belongs to; ok says that the key in it, or the *)
(* key its MIC was made with, is the right one.                             *)

Command(k, ap, ok) == [k |-> k, ap |-> ap, live |-> TRUE, ok |-> ok]
Event(k, ap) == [k |-> k, ap |-> ap, live |-> TRUE]

Handshake == {"m1", "m2", "m3", "m4", "key", "group"}
Dead(q) == [i \in DOMAIN q |->
             IF q[i].k \in Handshake THEN [q[i] EXCEPT !.live = FALSE] ELSE q[i]]
Input == inputs < MaxInputs /\ inputs' = inputs + 1
Has(q, kinds) == \E i \in DOMAIN q : q[i].k \in kinds /\ q[i].live

-----------------------------------------------------------------------------
(* The state of WMI *)

wmi_is_ap_connected == ap_connected /\ (curAp \in Wpa2 => has_sent_hs4)

wmi_is_ap_connecting ==
  ap_connecting \/ (curAp \in Wpa2 /\ ap_connected /\ ~ has_sent_hs4)

wmi_disconnect_cmd ==
  /\ ap_connecting' = FALSE
  /\ cmdq' = Append(cmdq, Command("disconnect", NoAp, TRUE))

(* The end of wmi_connect: commands to the card, the last one is            *)
(* wmi_connect_cmd(), which reads curAp.                                    *)
SendConnect == cmdq' = Append(cmdq, Command("connect", curAp, TRUE))

-----------------------------------------------------------------------------
(* Wifi_TWL_Update, one action for each way through its switch *)

(* WIFIMODE_DISABLED: Wifi_TWL_Start() starts the firmware of the card anew *)
Start ==
  /\ curMode = "disabled"
  /\ reqMode # "disabled"
  /\ curMode' = "initializing"
  /\ irq' = TRUE
  /\ wmi_bIsReady' = FALSE
  /\ wmi_is_scanning' = FALSE
  /\ mhz' = 0
  /\ ap_connected' = FALSE
  /\ ap_connecting' = FALSE
  /\ cmdq' = <<>>
  /\ evq' = <<Event("regdomain", NoAp)>>
  /\ link' = NoAp
  /\ trying' = NoAp
  /\ keyed' = FALSE
  /\ told' = "none"
  /\ ptk' = FALSE
  /\ UNCHANGED <<arm9Vars, shared, pmk, calc, device_num_channels, device_cur_channel_idx,
                 aplist, has_sent_hs4, inputs>>

(* WIFIMODE_INITIALIZING: wifi_card_initted() *)
Initialized ==
  /\ curMode = "initializing"
  /\ irq /\ wmi_bIsReady
  /\ curMode' = "normal"
  /\ UNCHANGED <<arm9Vars, shared, pmk, calc, wmi_bIsReady, scanVars, linkVars, irq, cmdq, evq, cardVars>>

(* WIFIMODE_NORMAL, WIFIMODE_DISABLED requested: Wifi_TWL_Stop() *)
Stop ==
  /\ curMode = "normal"
  /\ reqMode = "disabled"
  /\ irq' = FALSE
  /\ curMode' = "disabled"
  /\ UNCHANGED <<arm9Vars, shared, pmk, calc, wmi_bIsReady, scanVars, linkVars, cmdq, evq, cardVars>>

(* WIFIMODE_NORMAL, WIFIMODE_SCAN requested: Wifi_AccessPointClearAll() and *)
(* wmi_scan_mode_start()                                                    *)
StartScan ==
  /\ curMode = "normal"
  /\ reqMode = "scan"
  /\ aplist' = {}
  /\ curMode' = "scan"
  /\ UNCHANGED <<arm9Vars, shared, pmk, calc, wmi_bIsReady, wmi_is_scanning, device_num_channels,
                 device_cur_channel_idx, mhz, linkVars, irq, cmdq, evq, cardVars>>

(* WIFIMODE_NORMAL, WIFIMODE_CONNECTED requested.  loaded is what is in pmk *)
(* after the WFC settings have been copied, if they were asked for.         *)
loaded == IF loadWfcKey THEN (IF curAp \in Wpa2 THEN PmkOf(curAp) ELSE NoPmk) ELSE pmk

NoWfcKey ==
  /\ curMode = "normal"
  /\ reqMode = "connected"
  /\ loadWfcKey /\ curAp \notin Wfc
  /\ curMode' = "cannotconnect"
  /\ UNCHANGED <<arm9Vars, shared, pmk, calc, wmi_bIsReady, scanVars, linkVars, irq, cmdq, evq, cardVars>>

Connectable ==
  /\ curMode = "normal"
  /\ reqMode = "connected"
  /\ ~ (loadWfcKey /\ curAp \notin Wfc)
  /\ pmk' = loaded

(* wmi_connect() returns at once: an outer call is calculating the PMK, or  *)
(* the access point has not answered yet                                    *)
ConnectAgain ==
  /\ Connectable
  /\ ap_connecting
  /\ curMode' = "connecting"
  /\ UNCHANGED <<arm9Vars, shared, calc, wmi_bIsReady, scanVars, linkVars, irq, cmdq, evq, cardVars>>

(* wmi_connect() without a calculation *)
Connect ==
  /\ Connectable
  /\ ~ ap_connecting
  /\ ~ (curAp \in Wpa2 /\ loaded = NoPmk)
  /\ ap_connecting' = TRUE
  /\ has_sent_hs4' = IF curAp \in Wpa2 THEN FALSE ELSE has_sent_hs4
  /\ SendConnect
  /\ curMode' = "connecting"
  /\ UNCHANGED <<arm9Vars, shared, calc, wmi_bIsReady, scanVars, ap_connected, ptk, irq, evq, cardVars>>

(* wmi_connect() begins to calculate the PMK: the password is read once *)
ConnectCalculates ==
  /\ Connectable
  /\ ~ ap_connecting
  /\ curAp \in Wpa2 /\ loaded = NoPmk
  /\ ap_connecting' = TRUE
  /\ calc' = Append(calc, [block |-> 1, pass |-> pass, ssid |-> curAp])
  /\ UNCHANGED <<arm9Vars, shared, curMode, wmi_bIsReady, scanVars, ap_connected, has_sent_hs4, ptk,
                 irq, cmdq, evq, cardVars>>

(* pkcs5_pbkdf2_hmac: each block of the key is stored when it is ready, and *)
(* the name of the network is read anew for the next one                    *)
Block(c) == IF c.pass = c.ssid THEN c.ssid ELSE BadKey

PmkFirstBlock ==
  /\ calc # <<>>
  /\ LET c == calc[Len(calc)] IN
       /\ c.block = 1
       /\ pmk' = [pmk EXCEPT ![1] = Block(c)]
       /\ calc' = [calc EXCEPT ![Len(calc)] = [c EXCEPT !.block = 2, !.ssid = curAp]]
  /\ UNCHANGED <<arm9Vars, shared, curMode, wmi_bIsReady, scanVars, linkVars, irq, cmdq, evq, cardVars>>

(* The second block; wmi_connect() goes on and Wifi_TWL_Update sets curMode *)
PmkReady ==
  /\ calc # <<>>
  /\ LET c == calc[Len(calc)] IN
       /\ c.block = 2
       /\ pmk' = [pmk EXCEPT ![2] = Block(c)]
  /\ calc' = SubSeq(calc, 1, Len(calc) - 1)
  /\ has_sent_hs4' = FALSE
  /\ SendConnect
  /\ curMode' = "connecting"
  /\ UNCHANGED <<arm9Vars, shared, wmi_bIsReady, scanVars, ap_connected, ap_connecting, ptk, irq, evq,
                 cardVars>>

(* WIFIMODE_SCAN: another mode is requested *)
StopScan ==
  /\ curMode = "scan"
  /\ reqMode # "scan"
  /\ curMode' = "normal"
  /\ UNCHANGED <<arm9Vars, shared, pmk, calc, wmi_bIsReady, scanVars, linkVars, irq, cmdq, evq, cardVars>>

(* Faulty variant: the index is set back one entry early *)
LastIsSkipped == IF device_cur_channel_idx + 1 >= device_num_channels - 1 THEN 0
                 ELSE device_cur_channel_idx + 1

(* wmi_scan_mode_tick compares with > and so visits the entry behind the    *)
(* last channel as well.                                                    *)
NextIndex == IF device_cur_channel_idx + 1 > device_num_channels THEN 0
             ELSE device_cur_channel_idx + 1

(* The card's list, the channels in MHz by number; the entry behind it is 0 *)
channel_freqs(idx) == IF idx < device_num_channels THEN idx + 1 ELSE 0

(* WIFIMODE_SCAN: wmi_scan_mode_tick(); Wifi_AccessPointTick() may drop an  *)
(* entry.                                                                   *)
ScanTick ==
  /\ curMode = "scan"
  /\ reqMode = "scan"
  /\ device_num_channels # 0
  /\ ~ wmi_is_scanning
  /\ \E gone \in {{}} \cup {{ap} : ap \in aplist} : aplist' = aplist \ gone
  /\ mhz' = channel_freqs(device_cur_channel_idx)
  /\ device_cur_channel_idx' = NextIndex
  /\ wmi_is_scanning' = (mhz' # 0)
  /\ UNCHANGED <<arm9Vars, shared, curMode, pmk, calc, wmi_bIsReady, device_num_channels, linkVars, irq,
                 cmdq, evq, cardVars>>

(* WIFIMODE_CONNECTING *)
ConnectionMade ==
  /\ curMode = "connecting"
  /\ wmi_is_ap_connected
  /\ curMode' = "connected"
  /\ UNCHANGED <<arm9Vars, shared, pmk, calc, wmi_bIsReady, scanVars, linkVars, irq, cmdq, evq, cardVars>>

(* Faulty variant: no command to the card *)
FailsSilently ==
  /\ curMode = "connecting"
  /\ ~ wmi_is_ap_connected
  /\ ~ wmi_is_ap_connecting
  /\ curMode' = "cannotconnect"
  /\ UNCHANGED <<arm9Vars, shared, pmk, calc, wmi_bIsReady, scanVars, linkVars, irq, cmdq, evq, cardVars>>

ConnectionFails ==
  /\ curMode = "connecting"
  /\ ~ wmi_is_ap_connected
  /\ ~ wmi_is_ap_connecting
  /\ wmi_disconnect_cmd
  /\ curMode' = "cannotconnect"
  /\ UNCHANGED <<arm9Vars, shared, pmk, calc, wmi_bIsReady, scanVars, ap_connected, has_sent_hs4, ptk, irq, evq, cardVars>>

StopConnecting ==
  /\ curMode = "connecting"
  /\ ~ wmi_is_ap_connected
  /\ wmi_is_ap_connecting
  /\ reqMode # "connected"
  /\ wmi_disconnect_cmd
  /\ curMode' = "disconnecting"
  /\ UNCHANGED <<arm9Vars, shared, pmk, calc, wmi_bIsReady, scanVars, ap_connected, has_sent_hs4, ptk, irq, evq, cardVars>>

(* WIFIMODE_CONNECTED *)
ConnectionLost ==
  /\ curMode = "connected"
  /\ reqMode = "connected"
  /\ ~ wmi_is_ap_connected
  /\ wmi_disconnect_cmd
  /\ curMode' = "cannotconnect"
  /\ UNCHANGED <<arm9Vars, shared, pmk, calc, wmi_bIsReady, scanVars, ap_connected, has_sent_hs4, ptk, irq, evq, cardVars>>

Disconnect ==
  /\ curMode = "connected"
  /\ reqMode # "connected"
  /\ wmi_disconnect_cmd
  /\ curMode' = "disconnecting"
  /\ UNCHANGED <<arm9Vars, shared, pmk, calc, wmi_bIsReady, scanVars, ap_connected, has_sent_hs4, ptk, irq, evq, cardVars>>

(* WIFIMODE_DISCONNECTING, WIFIMODE_CANNOTCONNECT *)
BackToNormal ==
  /\ \/ curMode = "disconnecting" /\ ~ wmi_is_ap_connected
     \/ curMode = "cannotconnect" /\ reqMode # "connected"
  /\ curMode' = "normal"
  /\ UNCHANGED <<arm9Vars, shared, pmk, calc, wmi_bIsReady, scanVars, linkVars, irq, cmdq, evq, cardVars>>

-----------------------------------------------------------------------------
(* wifi_card_irq: one packet from the mailbox *)

e == Head(evq)
Take(k) == irq /\ evq # <<>> /\ e.k = k /\ evq' = Tail(evq)

OnRegDomain ==
  /\ Take("regdomain")
  /\ wmi_bIsReady' = TRUE
  /\ UNCHANGED <<arm9Vars, shared, curMode, pmk, calc, scanVars, linkVars, irq, cmdq, cardVars>>

(* The answers and events of a scan change nothing that the others read, so *)
(* they need no place in evq.                                               *)
scanRest == <<arm9Vars, shared, curMode, pmk, calc, wmi_bIsReady, device_cur_channel_idx, linkVars, irq,
              cmdq, evq, cardVars>>

(* The answer to the WMI_GET_CHANNEL_LIST_CMD of wmi_scan_mode_start; those *)
(* of later scans are the same.                                             *)
OnChannelList ==
  /\ irq
  /\ curMode = "scan" /\ device_num_channels = 0
  /\ device_num_channels' = NumChannels
  /\ UNCHANGED <<wmi_is_scanning, mhz, aplist, scanRest>>

(* WMI_SCAN_COMPLETE_EVENT *)
OnScanComplete ==
  /\ irq
  /\ wmi_is_scanning
  /\ wmi_is_scanning' = FALSE
  /\ mhz' = 0
  /\ UNCHANGED <<device_num_channels, aplist, scanRest>>

(* WMI_BSS_INFO_EVENT *)
OnBssInfo(ap) ==
  /\ irq
  /\ wmi_is_scanning
  /\ ap \notin aplist
  /\ aplist' = aplist \cup {ap}
  /\ UNCHANGED <<wmi_is_scanning, device_num_channels, mhz, scanRest>>

OnConnect ==
  /\ Take("connect")
  /\ ap_connected' = TRUE
  /\ ap_connecting' = FALSE
  /\ UNCHANGED <<arm9Vars, shared, curMode, pmk, calc, wmi_bIsReady, scanVars, has_sent_hs4, ptk, irq,
                 cmdq, cardVars>>

(* Faulty variant: an attempt to connect is thought to go on *)
OnDisconnectHalf ==
  /\ Take("disconnect")
  /\ ap_connected' = FALSE
  /\ UNCHANGED <<arm9Vars, shared, curMode, pmk, calc, wmi_bIsReady, scanVars, ap_connecting, has_sent_hs4,
                 ptk, irq, cmdq, cardVars>>

OnDisconnect ==
  /\ Take("disconnect")
  /\ ap_connected' = FALSE
  /\ ap_connecting' = FALSE
  /\ UNCHANGED <<arm9Vars, shared, curMode, pmk, calc, wmi_bIsReady, scanVars, has_sent_hs4, ptk, irq,
                 cmdq, cardVars>>

(* WMI_TARGET_ERROR_REPORT_EVENT, error 8 *)
OnTargetError ==
  /\ Take("error")
  /\ wmi_disconnect_cmd
  /\ UNCHANGED <<arm9Vars, shared, curMode, pmk, calc, wmi_bIsReady, scanVars, ap_connected, has_sent_hs4,
                 ptk, irq, cardVars>>

(* Message 1: data_send_wpa_handshake2() makes the PTK from whatever PMK    *)
(* there is                                                                 *)
OnMessage1 ==
  /\ Take("m1")
  /\ ptk' = (e.live /\ pmk = PmkOf(e.ap))
  /\ cmdq' = Append(cmdq, [Command("m2", e.ap, pmk = PmkOf(e.ap)) EXCEPT !.live = e.live])
  /\ UNCHANGED <<arm9Vars, shared, curMode, pmk, calc, wmi_bIsReady, scanVars, ap_connected, ap_connecting,
                 has_sent_hs4, irq, cardVars>>

(* wmi_post_handshake: the keys go to the card if what is now in curAp is   *)
(* an access point with WPA2                                                *)
PostHandshake ==
  IF curAp \in Wpa2 THEN <<[Command("key", e.ap, ptk) EXCEPT !.live = e.live]>> ELSE <<>>

(* Faulty variant: no keys *)
OnMessage3NoKeys ==
  /\ Take("m3")
  /\ has_sent_hs4' = TRUE
  /\ cmdq' = Append(cmdq, [Command("m4", e.ap, TRUE) EXCEPT !.live = e.live])
  /\ UNCHANGED <<arm9Vars, shared, curMode, pmk, calc, wmi_bIsReady, scanVars, ap_connected, ap_connecting,
                 ptk, irq, cardVars>>

(* Message 3: "Send our OK before we actually load keys" *)
OnMessage3 ==
  /\ Take("m3")
  /\ has_sent_hs4' = TRUE
  /\ cmdq' = Append(cmdq, [Command("m4", e.ap, TRUE) EXCEPT !.live = e.live]) \o PostHandshake
  /\ UNCHANGED <<arm9Vars, shared, curMode, pmk, calc, wmi_bIsReady, scanVars, ap_connected, ap_connecting,
                 ptk, irq, cardVars>>

(* Group message: data_send_wpa_gtkrenew() and the same keys *)
OnGroupMessage ==
  /\ Take("group")
  /\ has_sent_hs4' = TRUE
  /\ cmdq' = cmdq \o PostHandshake
  /\ UNCHANGED <<arm9Vars, shared, curMode, pmk, calc, wmi_bIsReady, scanVars, ap_connected, ap_connecting,
                 ptk, irq, cardVars>>

-----------------------------------------------------------------------------
(* External: the card and the access points *)

cc == Head(cmdq)
Serve(k) == cmdq # <<>> /\ cc.k = k /\ cmdq' = Tail(cmdq)
cardRest == <<arm9Vars, shared, curMode, pmk, calc, wmi_bIsReady, scanVars, ap_connected, ap_connecting,
              has_sent_hs4, irq>>

(* The connection ends: nothing of its handshake means anything any more.   *)
LinkEnds(commands) ==
  /\ link' = NoAp
  /\ keyed' = FALSE
  /\ told' = "none"
  /\ ptk' = FALSE
  /\ cmdq' = Dead(commands)
  /\ evq' = Append(Dead(evq), Event("disconnect", NoAp))

(* WMI_CONNECT_CMD: leaves the access point it is connected to *)
CardConnect ==
  /\ cmdq # <<>> /\ cc.k = "connect"
  /\ trying' = cc.ap
  /\ IF link # NoAp THEN LinkEnds(Tail(cmdq))
     ELSE cmdq' = Tail(cmdq) /\ UNCHANGED <<evq, link, keyed, told, ptk>>
  /\ UNCHANGED <<cardRest, inputs>>

(* WMI_DISCONNECT_CMD *)
CardDisconnect ==
  /\ cmdq # <<>> /\ cc.k = "disconnect"
  /\ trying' = NoAp
  /\ IF link # NoAp \/ trying # NoAp THEN LinkEnds(Tail(cmdq))
     ELSE cmdq' = Tail(cmdq) /\ UNCHANGED <<evq, link, keyed, told, ptk>>
  /\ UNCHANGED <<cardRest, inputs>>

(* The keys of the connection, or others *)
CardKey ==
  /\ Serve("key")
  /\ keyed' = (cc.live /\ cc.ok)
  /\ UNCHANGED <<cardRest, ptk, evq, link, trying, told, inputs>>

(* A frame of the handshake reaches the access point, or is lost *)
CardSends ==
  /\ Serve("m2") \/ Serve("m4")
  /\ \/ /\ cc.live
        /\ told' = CASE cc.k = "m4" -> "done"
                     [] cc.k = "m2" /\ cc.ok -> IF told = "done" THEN "done" ELSE "sent3"
                     [] cc.k = "m2" /\ ~ cc.ok -> IF told = "done" THEN "done" ELSE "refused"
        /\ UNCHANGED inputs
     \/ /\ cc.live => Input
        /\ ~ cc.live => UNCHANGED inputs
        /\ UNCHANGED told
  /\ UNCHANGED <<cardRest, ptk, evq, link, trying, keyed>>

CardLinks ==
  /\ trying # NoAp
  /\ link' = trying
  /\ trying' = NoAp
  /\ evq' = Append(evq, Event("connect", NoAp))
  /\ UNCHANGED <<cardRest, ptk, cmdq, keyed, told, inputs>>

(* The access point is not found or refuses *)
CardFails ==
  /\ trying # NoAp
  /\ Input
  /\ trying' = NoAp
  /\ evq' = Append(evq, Event("disconnect", NoAp))
  /\ UNCHANGED <<cardRest, ptk, cmdq, link, keyed, told>>

(* The connection breaks, or the access point ends it because the handshake *)
(* fails.  The card may try again by itself.                                *)
LinkLost(again) ==
  /\ link # NoAp
  /\ IF told = "refused" THEN UNCHANGED inputs ELSE Input
  /\ trying' = IF again THEN link ELSE NoAp
  /\ LinkEnds(cmdq)
  /\ UNCHANGED cardRest

CardError ==
  /\ link # NoAp
  /\ Input
  /\ evq' = Append(evq, Event("error", NoAp))
  /\ UNCHANGED <<cardRest, ptk, cmdq, link, trying, keyed, told>>

(* The access point sends its part of the handshake until it is answered *)
ApMessage(k) ==
  /\ link \in Wpa2
  /\ \/ k = "m1" /\ told \in {"none", "refused"}
     \/ k = "m3" /\ told = "sent3"
  /\ ~ Has(evq, {"m1", "m3"}) /\ ~ Has(cmdq, {"m2", "m4"})
  /\ evq' = Append(evq, Event(k, link))
  /\ UNCHANGED <<cardRest, ptk, cmdq, cardVars>>

(* A new group key *)
ApGroup ==
  /\ link \in Wpa2 /\ told = "done"
  /\ Input
  /\ evq' = Append(evq, Event("group", link))
  /\ UNCHANGED <<cardRest, ptk, cmdq, link, trying, keyed, told>>

-----------------------------------------------------------------------------
(* The ARM9 *)

Call == pc9 = "app" /\ Input
arm7Busy == <<curMode, calc, wmi_bIsReady, scanVars, linkVars, irq, cmdq, evq, link, trying, keyed, told>>
arm7Rest == <<arm7Busy, inputs>>

(* Wifi_ConnectSecureAP (the application knows the password) and            *)
(* Wifi_ConnectWfcAP, up to Wifi_ScanMode()                                 *)
ConnectAP(ap, wfc) ==
  /\ Call
  /\ reqMode' = "normal"
  /\ pass' = IF wfc \/ ap \notin Wpa2 THEN NoAp ELSE ap
  /\ pmk' = NoPmk
  /\ loadWfcKey' = wfc
  /\ connect_point' = ap
  /\ pc9' = "scan"
  /\ UNCHANGED <<unseen, curAp, arm7Busy>>

ScanMode ==
  /\ pc9 = "scan"
  /\ reqMode' = "scan"
  /\ pc9' = "app"
  /\ UNCHANGED <<connect_point, unseen, curAp, loadWfcKey, pass, pmk, arm7Rest>>

(* Wifi_AssocStatus finds the access point *)
FoundAp ==
  /\ pc9 = "app"
  /\ connect_point \in aplist
  /\ curAp' = connect_point
  /\ reqMode' = "connected"
  /\ connect_point' = NoAp
  /\ unseen' = (curMode \in {"connecting", "connected"})
  /\ UNCHANGED <<pc9, loadWfcKey, pass, pmk, arm7Rest>>

(* Wifi_DisconnectAP, Wifi_EnableWifi and Wifi_DisableWifi *)
Request(mode) ==
  /\ Call
  /\ reqMode' = mode
  /\ connect_point' = NoAp
  /\ UNCHANGED <<pc9, unseen, curAp, loadWfcKey, pass, pmk, arm7Busy>>

-----------------------------------------------------------------------------

Wifi_TWL_Update ==
  \/ Start \/ Initialized \/ Stop \/ StartScan \/ StopScan \/ ScanTick
  \/ NoWfcKey \/ ConnectAgain \/ Connect \/ ConnectCalculates
  \/ ConnectionMade \/ ConnectionFails \/ StopConnecting
  \/ ConnectionLost \/ Disconnect \/ BackToNormal

Calculate == PmkFirstBlock \/ PmkReady

CardInterrupt ==
  \/ OnRegDomain \/ OnConnect \/ OnDisconnect \/ OnTargetError
  \/ OnMessage1 \/ OnMessage3 \/ OnGroupMessage

Card ==
  \/ CardConnect \/ CardDisconnect \/ CardKey \/ CardSends

Arm9 ==
  \/ \E ap \in Ap, wfc \in BOOLEAN : ConnectAP(ap, wfc)
  \/ ScanMode
  \/ FoundAp
  \/ \E mode \in IF Off THEN {"normal", "disabled"} ELSE {"normal"} : Request(mode)

Scanning == OnChannelList \/ OnScanComplete

Environment ==
  \/ CardLinks \/ CardFails \/ CardError \/ ApGroup
  \/ \E again \in BOOLEAN : LinkLost(again)
  \/ \E k \in {"m1", "m3"} : ApMessage(k)
  \/ \E ap \in Ap : OnBssInfo(ap)

Next == Wifi_TWL_Update \/ Calculate \/ CardInterrupt \/ Scanning \/ Card \/ Arm9 \/ Environment

Fairness ==
  /\ SF_vars(Wifi_TWL_Update)
  /\ WF_vars(Calculate)
  /\ WF_vars(CardInterrupt)
  /\ WF_vars(Scanning)
  /\ WF_vars(Card)
  /\ WF_vars(CardLinks)
  /\ WF_vars(\E k \in {"m1", "m3"} : ApMessage(k))
  /\ WF_vars(told = "refused" /\ \E again \in BOOLEAN : LinkLost(again))
  /\ WF_vars(ScanMode)

Spec == Init /\ [][Next]_vars /\ Fairness

-----------------------------------------------------------------------------

Modes == {"disabled", "initializing", "normal", "scan", "connecting", "connected",
          "disconnecting", "cannotconnect"}

TypeOK ==
  /\ pc9 \in {"app", "scan"}
  /\ connect_point \in Ap \cup {NoAp}
  /\ reqMode \in {"disabled", "normal", "scan", "connected"}
  /\ curMode \in Modes
  /\ curAp \in Ap \cup {NoAp}
  /\ aplist \subseteq Ap
  /\ pass \in Ap \cup {NoAp}
  /\ pmk \in (Ap \cup {NoAp, BadKey}) \X (Ap \cup {NoAp, BadKey})
  /\ \A i \in DOMAIN calc : calc[i].block \in 1..2
  /\ device_num_channels \in {0, NumChannels}
  /\ device_cur_channel_idx \in 0..NumChannels
  /\ mhz \in 0..NumChannels
  /\ link \in Ap \cup {NoAp}
  /\ trying \in Ap \cup {NoAp}
  /\ told \in {"none", "refused", "sent3", "done"}
  /\ inputs \in 0..MaxInputs

(* Nothing is on its way between the ARM7 and the card, and a handshake     *)
(* that was begun is over.                                                  *)
Settled ==
  /\ irq /\ calc = <<>> /\ cmdq = <<>> /\ evq = <<>> /\ trying = NoAp
  /\ link \in Wpa2 => told = "done"

(* Whatever requests, events and nested updates came in between: once       *)
(* everything on its way has arrived, WMI's flags say whether the card is   *)
(* connected, the card is connected only in a mode that knows of it (no     *)
(* connection is forgotten in the card), and it is connected to the access  *)
(* point the ARM9 asked for last and has the keys.  The last part does not  *)
(* hold if the ARM7 has not seen that a connection was to end before the    *)
(* next one was asked for (unseen): curAp is then not the access point of   *)
(* the card, and wmi_post_handshake, which looks at curAp, may install no   *)
(* keys.                                                                    *)
SettledAgrees ==
  /\ TypeOK
  /\ Settled =>
       /\ ap_connected <=> link # NoAp
       /\ link # NoAp => curMode \in {"connecting", "connected"}
       /\ link # NoAp /\ ~ unseen => link = curAp
       /\ link \in Wpa2 /\ ~ unseen => keyed

(* The modes in which the ARM7 has done what was asked of it *)
Served(mode) ==
  IF mode = "connected" THEN curMode \in {"connected", "cannotconnect"} ELSE curMode = mode

(* A mode the ARM9 keeps asking for is reached, whatever the card was doing *)
(* when it was requested; a connection may be refused instead.              *)
RequestServed ==
  []<>(Served(reqMode) \/ unseen) \/ []<><<reqMode' # reqMode>>_reqMode

(* An attempt that begins while the card is at rest, with no more faults    *)
(* and no other request, ends with a connection: neither the nested updates *)
(* during the calculation of the PMK nor what earlier attempts left behind  *)
(* in WMI's flags spoil it.  (A block of the PMK that an abandoned          *)
(* calculation stored after the settings were cleared does.)                *)
AtRest ==
  /\ irq /\ calc = <<>> /\ cmdq = <<>> /\ evq = <<>> /\ link = NoAp /\ trying = NoAp
  /\ inputs = MaxInputs /\ pc9 = "app"

CleanAttemptSucceeds ==
  (curMode = "normal" /\ reqMode = "connected" /\ AtRest
    /\ IF loadWfcKey THEN curAp \in Wfc ELSE pmk \in {NoPmk, PmkOf(curAp)})
    ~> (curMode = "connected" /\ link = curAp /\ (link \in Wpa2 => keyed))

(* A scan that goes on tells the card to scan each channel of its list      *)
(* again and again, the last one too, although wmi_scan_mode_tick runs past *)
(* the end of the list.                                                     *)
EveryChannelScanned ==
  \A channel \in 1..NumChannels :
    (curMode = "scan") ~> (reqMode # "scan" \/ (wmi_is_scanning /\ mhz = channel))

=============================================================================
