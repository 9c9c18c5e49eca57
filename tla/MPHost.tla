------------------------------- MODULE MPHost -------------------------------
(***************************************************************************)
(* The table of clients of a console that acts as multiplayer host         *)
(* (WifiData->clients): src/source/arm7/ntr/multiplayer.c, the host half   *)
(* of the authentication and association handlers, the ACCESSPOINT case of *)
(* Wifi_NTR_Update, the beacon fields it keeps up to date and the ARM9     *)
(* functions that ask for changes or read the table.                       *)
(*                                                                         *)
(* Three activities interleave: the ARM7's Wifi_NTR_Update (one action per *)
(* access that another activity can separate from the next), the ARM7's    *)
(* WiFi interrupt that handles received frames, and the ARM9 application.  *)
(* A slot is named by index + 1, which is the AID the host gives out.  The *)
(* spinlock is the one of module Spinlock; the ARM7 takes and releases it  *)
(* within one action.  The library mode is multiplayer host throughout.    *)
(***************************************************************************)
EXTENDS Naturals, FiniteSets

CONSTANTS
  Mac,           \* MAC addresses of the consoles that may join
  NoMac,         \* the zeroes of a cleared slot
  MaxClients,    \* WIFI_MAX_MULTIPLAYER_CLIENTS
  KickMaskBits,  \* width of the reqKickClientAIDMask field
  NestedIrq,     \* TRUE: the WiFi interrupt can interrupt Wifi_NTR_Update
  LookupAids,    \* AIDs the application passes to ClientGetMacFromAID
  KickAids,      \* AIDs it passes to KickClientByAID
  HostSizes,     \* values of max_clients it passes to MultiplayerHostMode
  Calls          \* the other functions of the library that it calls

ASSUME HostAssumption ==
  /\ NoMac \notin Mac
  /\ MaxClients \in Nat \ {0}
  /\ KickMaskBits \in Nat
  /\ NestedIrq \in BOOLEAN
  /\ LookupAids \subseteq Nat \ {0}
  /\ KickAids \subseteq 1 .. MaxClients
  /\ HostSizes \subseteq 1 .. MaxClients
  /\ Calls \subseteq {"BeaconStart", "AllowNewClients", "GetClients"}

VARIABLES
  list,           \* clients.list
  aid_mask,       \* clients.aid_mask, as the set of its bits
  num_connected,  \* clients.num_connected
  spinlock,       \* clients.spinlock: nobody's, the ARM9's while a function reads
                  \* the table, or left to the ARM9 by one that has returned
  kickMask,       \* clients.reqKickClientAIDMask, as the set of its bits
  curMode, reqMode, curMaxClients, reqMaxClients,
  reqAllow,       \* WFLAG_REQ_ALLOWCLIENTS of reqFlags
  beacon,         \* the beacon frame in MAC RAM and its enable bit
  queuedBeacon,   \* the allow flags of beacon frames waiting in the TX buffer
  pc7, mask,      \* where Wifi_NTR_Update is, and its local "mask"
  pc9, tmp9,      \* where the application is, and its local variable
  told            \* history: the AID the host last granted, 0 if taken back;
                  \* a grant between KickAll and LeaveHostMode is not recorded

tableVars == <<list, aid_mask, num_connected>>
modeVars == <<curMode, reqMode, curMaxClients, reqMaxClients>>
arm7Vars == <<pc7, mask>>
arm9Vars == <<pc9, tmp9, spinlock>>
vars == <<tableVars, modeVars, arm7Vars, arm9Vars, kickMask, reqAllow,
          beacon, queuedBeacon, told>>

Aids == 1 .. MaxClients

(* WIFI_CLIENT_DISCONNECTED, _AUTHENTICATED and _ASSOCIATED *)
States == {"disconnected", "authenticated", "associated"}

Cleared == [a \in Aids |-> [macaddr |-> NoMac, state |-> "disconnected",
                            association_id |-> 0]]
BeaconOff == [on |-> FALSE, players |-> 0, allows |-> FALSE]

Init ==
  /\ list = Cleared
  /\ aid_mask = {}
  /\ num_connected = 0
  /\ spinlock = "nobody"
  /\ curMode = "normal"
  /\ reqMode = "normal"
  /\ curMaxClients = 0
  /\ reqMaxClients = 0
  /\ reqAllow = FALSE
  /\ beacon = BeaconOff
  /\ queuedBeacon = {}
  /\ pc7 = "idle"
  /\ mask = {}
  /\ pc9 = "app"
  /\ tmp9 = 0
  /\ told = [m \in Mac |-> 0]
  /\ kickMask = {}

-----------------------------------------------------------------------------
(* Helpers *)

(* Wifi_SetBeaconCurrentPlayers: nothing happens without an active beacon *)
WithPlayers(b, n) == IF b.on THEN [b EXCEPT !.players = n] ELSE b

(* Wifi_GetBeaconAllowsConnections *)
BeaconAllows == beacon.on /\ beacon.allows

(* Wifi_SetBeaconAllowsConnections *)
WithAllows(b, allow) == IF b.on THEN [b EXCEPT !.allows = allow] ELSE b

(* Faulty variant: every slot is taken for an empty one *)
AnySlot == {a \in Aids : a <= curMaxClients}

(* The slots Wifi_MPHost_ClientGetByMacAddr may return *)
SlotsOf(m) == {a \in Aids : /\ a <= curMaxClients
                            /\ list[a].state # "disconnected"
                            /\ list[a].macaddr = m}
First(S) == CHOOSE a \in S : \A b \in S : a <= b
Empty == {a \in Aids : a <= curMaxClients /\ list[a].state = "disconnected"}

LockFree == spinlock = "nobody"

(* The ARM7 handles a received frame: from the WiFi interrupt, outside the  *)
(* critical section of KickByAID, or from Wifi_RxQueueFlush.                *)
FrameArrives ==
  /\ curMode = "host"
  /\ IF NestedIrq THEN pc7 # "kicked" ELSE pc7 = "idle"

Grant(m, aid) == told' = [told EXCEPT ![m] = IF pc7 = "leave" THEN 0 ELSE aid]

-----------------------------------------------------------------------------
(* The ARM7: received frames *)

(* Faulty variant: the mask keeps the AID *)
ReauthenticateKeepsBit(m) ==
  /\ list' = [list EXCEPT ![First(SlotsOf(m))].state = "authenticated"]
  /\ UNCHANGED <<aid_mask, num_connected, beacon>>

(* Wifi_MPHost_ClientAuthenticate for a MAC address that is in the table *)
Reauthenticate(m) ==
  LET a == First(SlotsOf(m)) IN
  /\ list' = [list EXCEPT ![a].state = "authenticated"]
  /\ aid_mask' = aid_mask \ {list[a].association_id}
  /\ UNCHANGED <<num_connected, beacon>>

(* ... and for one that is not: the first empty slot, if there is one *)
AddClient(m) ==
  LET a == First(Empty) IN
  /\ list' = [list EXCEPT ![a].state = "authenticated", ![a].macaddr = m]
  /\ num_connected' = num_connected + 1
  /\ beacon' = WithPlayers(beacon, num_connected + 2)
  /\ UNCHANGED aid_mask

(* Wifi_MPHost_ProcessAuthentication with a valid open system request *)
ProcessAuthentication(m) ==
  /\ FrameArrives
  /\ \/ /\ reqAllow
        /\ LockFree
        /\ SlotsOf(m) # {}
        /\ Reauthenticate(m)
     \/ /\ reqAllow
        /\ LockFree
        /\ SlotsOf(m) = {}
        /\ Empty # {}
        /\ AddClient(m)
     \/ /\ ~ reqAllow \/ (LockFree /\ SlotsOf(m) = {} /\ Empty = {})
        /\ UNCHANGED <<tableVars, beacon>>
  /\ Grant(m, 0)
  /\ UNCHANGED <<modeVars, arm7Vars, arm9Vars, kickMask, reqAllow, queuedBeacon>>

(* Any other algorithm, sequence number or status, and an association with  *)
(* unsupported capabilities or rates, is answered with an error.            *)
RejectRequest(m) ==
  /\ FrameArrives
  /\ Grant(m, 0)
  /\ UNCHANGED <<tableVars, modeVars, arm7Vars, arm9Vars, kickMask, reqAllow,
                 beacon, queuedBeacon>>

(* Wifi_MPHost_ClientAssociate: what it returns, -1 written as 0 *)
AssociateResult(m) ==
  IF ~ reqAllow \/ SlotsOf(m) = {} THEN 0
  ELSE LET a == First(SlotsOf(m)) IN
       IF list[a].state = "associated" THEN list[a].association_id ELSE a

(* Wifi_MPHost_ProcessAssocRequest with supported capabilities and rates *)
ProcessAssocRequest(m) ==
  /\ FrameArrives
  /\ reqAllow => LockFree
  /\ LET a == First(SlotsOf(m)) IN
     IF AssociateResult(m) = 0 \/ list[a].state = "associated"
       THEN UNCHANGED <<list, aid_mask>>
       ELSE /\ list' = [list EXCEPT ![a].state = "associated", ![a].association_id = a]
            /\ aid_mask' = aid_mask \cup {a}
  /\ Grant(m, AssociateResult(m))
  /\ UNCHANGED <<num_connected, modeVars, arm7Vars, arm9Vars, kickMask,
                 reqAllow, beacon, queuedBeacon>>

(* Wifi_MPHost_ProcessDeauthentication, with Wifi_MPHost_ClientDisconnect *)
ProcessDeauthentication(m) ==
  /\ FrameArrives
  /\ LockFree
  /\ IF SlotsOf(m) = {}
       THEN UNCHANGED <<tableVars, beacon>>
       ELSE LET a == First(SlotsOf(m)) IN
            /\ list' = [list EXCEPT ![a].state = "disconnected"]
            /\ aid_mask' = aid_mask \ {list[a].association_id}
            /\ num_connected' = num_connected - 1
            /\ beacon' = WithPlayers(beacon, num_connected)
  /\ Grant(m, 0)
  /\ UNCHANGED <<modeVars, arm7Vars, arm9Vars, kickMask, reqAllow, queuedBeacon>>

-----------------------------------------------------------------------------
(* The ARM7: Wifi_NTR_Update *)

(* Wifi_MPHost_ResetClients *)
ResetClients ==
  /\ LockFree
  /\ list' = Cleared
  /\ num_connected' = 0
  /\ aid_mask' = {0}
  /\ beacon' = WithPlayers(beacon, 1)

Goto7(point) == pc7' = point

(* WIFIMODE_NORMAL with WIFIMODE_ACCESSPOINT requested *)
EnterHostMode ==
  /\ pc7 = "idle"
  /\ curMode = "normal"
  /\ reqMode = "host"
  /\ ResetClients
  /\ curMaxClients' = reqMaxClients
  /\ curMode' = "host"
  /\ Goto7("flush")
  /\ UNCHANGED <<reqMode, reqMaxClients, mask, arm9Vars, kickMask, reqAllow,
                 queuedBeacon, told>>

(* WIFIMODE_NORMAL and nothing requested *)
StayNormal ==
  /\ pc7 = "idle"
  /\ curMode = "normal"
  /\ reqMode = "normal"
  /\ Goto7("flush")
  /\ UNCHANGED <<tableVars, modeVars, mask, arm9Vars, kickMask, reqAllow,
                 beacon, queuedBeacon, told>>

(* Wifi_MPHost_ClientKickAll, with its deauthentication of everyone *)
KickAll ==
  /\ pc7 = "idle"
  /\ curMode = "host"
  /\ reqMode = "normal"
  /\ ResetClients
  /\ told' = [m \in Mac |-> 0]
  /\ Goto7("leave")
  /\ UNCHANGED <<modeVars, mask, arm9Vars, kickMask, reqAllow, queuedBeacon>>

(* Wifi_BeaconStop ... curMode = WIFIMODE_NORMAL *)
LeaveHostMode ==
  /\ pc7 = "leave"
  /\ beacon' = BeaconOff
  /\ curMode' = "normal"
  /\ Goto7("flush")
  /\ UNCHANGED <<tableVars, reqMode, curMaxClients, reqMaxClients, mask,
                 arm9Vars, kickMask, reqAllow, queuedBeacon, told>>

(* u16 mask = WifiData->clients.reqKickClientAIDMask; if (mask != 0) *)
ReadKickMask ==
  /\ pc7 = "idle"
  /\ curMode = "host"
  /\ reqMode = "host"
  /\ mask' = kickMask
  /\ Goto7(IF kickMask = {} THEN "allow" ELSE "clear")
  /\ UNCHANGED <<tableVars, modeVars, arm9Vars, kickMask, reqAllow, beacon,
                 queuedBeacon, told>>

(* WifiData->clients.reqKickClientAIDMask = 0 *)
ClearKickMask ==
  /\ pc7 = "clear"
  /\ kickMask' = {}
  /\ Goto7("kick")
  /\ UNCHANGED <<tableVars, modeVars, mask, arm9Vars, reqAllow, beacon,
                 queuedBeacon, told>>

Kickable(a) == a <= curMaxClients /\ list[a].state # "disconnected"

(* Wifi_MPHost_KickByAID, first half: the state byte.  It takes no lock.    *)
KickByAID ==
  LET a == First(mask) IN
  /\ pc7 = "kick"
  /\ mask # {}
  /\ IF Kickable(a)
       THEN /\ told' = [told EXCEPT ![list[a].macaddr] = 0]
            /\ list' = [list EXCEPT ![a].state = "disconnected"]
            /\ Goto7("kicked")
            /\ UNCHANGED mask
       ELSE /\ mask' = mask \ {a}
            /\ UNCHANGED <<told, list, pc7>>
  /\ UNCHANGED <<aid_mask, num_connected, modeVars, arm9Vars, kickMask,
                 reqAllow, beacon, queuedBeacon>>

(* Wifi_MPHost_KickByAID, second half, in the same critical section *)
FinishKick ==
  LET a == First(mask) IN
  /\ pc7 = "kicked"
  /\ aid_mask' = aid_mask \ {a}
  /\ num_connected' = num_connected - 1
  /\ beacon' = WithPlayers(beacon, num_connected)
  /\ mask' = mask \ {a}
  /\ Goto7("kick")
  /\ UNCHANGED <<list, modeVars, arm9Vars, kickMask, reqAllow, queuedBeacon, told>>

KicksDone ==
  /\ pc7 = "kick"
  /\ mask = {}
  /\ Goto7("allow")
  /\ UNCHANGED <<tableVars, modeVars, mask, arm9Vars, kickMask, reqAllow,
                 beacon, queuedBeacon, told>>

Joining == {a \in Aids : a <= curMaxClients /\ list[a].state = "authenticated"}

(* Faulty variant: closing the host only changes the beacon *)
OnlyBeacon ==
  /\ pc7 = "allow"
  /\ Goto7("flush")
  /\ beacon' = WithAllows(beacon, reqAllow)
  /\ UNCHANGED <<tableVars, modeVars, mask, arm9Vars, kickMask, reqAllow,
                 queuedBeacon, told>>

(* cur_allow against req_allow, and Wifi_MPHost_KickNotAssociatedClients.   *)
UpdateAllow ==
  /\ pc7 = "allow"
  /\ Goto7("flush")
  /\ IF BeaconAllows /\ ~ reqAllow
       THEN /\ LockFree
            /\ list' = [a \in Aids |-> IF a \in Joining
                          THEN [list[a] EXCEPT !.state = "disconnected"] ELSE list[a]]
            /\ aid_mask' = aid_mask \ Joining
            /\ num_connected' = num_connected - Cardinality(Joining)
            /\ beacon' = WithPlayers(WithAllows(beacon, FALSE), num_connected' + 1)
            /\ told' = [m \in Mac |-> IF \E a \in Joining : list[a].macaddr = m
                                      THEN 0 ELSE told[m]]
       ELSE /\ beacon' = WithAllows(beacon, reqAllow)
            /\ UNCHANGED <<tableVars, told>>
  /\ UNCHANGED <<modeVars, mask, arm9Vars, kickMask, reqAllow, queuedBeacon>>

(* Wifi_TxAllQueueFlush: a beacon frame in the TX buffer is put in place by *)
(* Wifi_BeaconSetup, which enables it.  It may have to wait behind others.  *)
FlushBeacon ==
  /\ pc7 = "flush"
  /\ Goto7("idle")
  /\ \E allow \in queuedBeacon :
       beacon' = [on |-> TRUE, players |-> 1, allows |-> allow]
  /\ queuedBeacon' = {}
  /\ UNCHANGED <<tableVars, modeVars, mask, arm9Vars, kickMask, reqAllow, told>>

FlushOther ==
  /\ pc7 = "flush"
  /\ Goto7("idle")
  /\ UNCHANGED <<tableVars, modeVars, mask, arm9Vars, kickMask, reqAllow,
                 beacon, queuedBeacon, told>>

-----------------------------------------------------------------------------
(* The ARM9 *)

InApp == pc9 = "app"

(* Wifi_MultiplayerHostMode *)
MultiplayerHostMode(max) ==
  /\ InApp
  /\ reqMode' = "host"
  /\ reqMaxClients' = max
  /\ reqAllow' = TRUE
  /\ UNCHANGED <<tableVars, curMode, curMaxClients, arm7Vars, arm9Vars,
                 kickMask, beacon, queuedBeacon, told>>

(* Wifi_IdleMode *)
IdleMode ==
  /\ InApp
  /\ reqMode' = "normal"
  /\ UNCHANGED <<tableVars, curMode, curMaxClients, reqMaxClients, arm7Vars,
                 arm9Vars, kickMask, reqAllow, beacon, queuedBeacon, told>>

(* Wifi_BeaconStart, called once in host mode: the frame takes the current  *)
(* flag along to the ARM7.                                                  *)
BeaconStart ==
  /\ "BeaconStart" \in Calls
  /\ InApp
  /\ curMode = "host"
  /\ queuedBeacon = {} /\ ~ beacon.on
  /\ queuedBeacon' = {reqAllow}
  /\ UNCHANGED <<tableVars, modeVars, arm7Vars, arm9Vars, kickMask, reqAllow,
                 beacon, told>>

(* Wifi_MultiplayerAllowNewClients *)
AllowNewClients(allow) ==
  /\ "AllowNewClients" \in Calls
  /\ InApp
  /\ reqAllow' = allow
  /\ UNCHANGED <<tableVars, modeVars, arm7Vars, arm9Vars, kickMask, beacon,
                 queuedBeacon, told>>

(* Wifi_MultiplayerKickClientByAID: |= loads the mask ...                   *)
KickClientByAID(aid) ==
  /\ InApp
  /\ curMode = "host"
  /\ tmp9' = <<kickMask, aid>>
  /\ pc9' = "or"
  /\ UNCHANGED <<tableVars, modeVars, arm7Vars, spinlock, kickMask,
                 reqAllow, beacon, queuedBeacon, told>>

(* ... and stores it, cut to the width of the field *)
StoreKickMask ==
  /\ pc9 = "or"
  /\ kickMask' = {a \in tmp9[1] \cup {tmp9[2]} : a < KickMaskBits}
  /\ pc9' = "app"
  /\ tmp9' = 0
  /\ UNCHANGED <<tableVars, modeVars, arm7Vars, spinlock,
                 reqAllow, beacon, queuedBeacon, told>>

(* Wifi_MultiplayerGetClients: the lock is taken and the records are read;  *)
(* what the copy holds is left out.                                         *)
GetClients ==
  /\ "GetClients" \in Calls
  /\ InApp
  /\ LockFree
  /\ spinlock' = "arm9"
  /\ tmp9' = 0
  /\ pc9' = "lookup"
  /\ UNCHANGED <<tableVars, modeVars, arm7Vars, kickMask, reqAllow, beacon,
                 queuedBeacon, told>>

(* Wifi_MultiplayerClientGetMacFromAID and ...ClientMatchesMacAndAID, up to *)
(* the check of the limit: there they return with the lock held (and with   *)
(* the interrupts of the ARM9 off), and nothing ever releases it.           *)
LockAndCheck(aid) ==
  /\ InApp
  /\ LockFree
  /\ spinlock' = IF aid > curMaxClients THEN "left" ELSE "arm9"
  /\ tmp9' = aid
  /\ pc9' = IF aid > curMaxClients THEN "app" ELSE "lookup"
  /\ UNCHANGED <<tableVars, modeVars, arm7Vars, kickMask, reqAllow,
                 beacon, queuedBeacon, told>>

(* The application calls one of them in a session. *)
LookUpAID(aid) == curMode = "host" /\ LockAndCheck(aid)

(* Faulty variant: the lock is kept *)
LookedUpKeepsLock ==
  /\ pc9 = "lookup"
  /\ tmp9' = 0
  /\ pc9' = "app"
  /\ UNCHANGED <<tableVars, modeVars, arm7Vars, spinlock, kickMask,
                 reqAllow, beacon, queuedBeacon, told>>

(* What was looked for has been read: Spinlock_Release and return *)
LookedUp ==
  /\ pc9 = "lookup"
  /\ spinlock' = "nobody"
  /\ tmp9' = 0
  /\ pc9' = "app"
  /\ UNCHANGED <<tableVars, modeVars, arm7Vars, kickMask, reqAllow,
                 beacon, queuedBeacon, told>>

-----------------------------------------------------------------------------

Frame(m) ==
  \/ ProcessAuthentication(m)
  \/ RejectRequest(m)
  \/ ProcessAssocRequest(m)
  \/ ProcessDeauthentication(m)

Update ==
  \/ EnterHostMode
  \/ StayNormal
  \/ KickAll
  \/ LeaveHostMode
  \/ ReadKickMask
  \/ ClearKickMask
  \/ KickByAID
  \/ FinishKick
  \/ KicksDone
  \/ UpdateAllow
  \/ FlushBeacon
  \/ FlushOther

App ==
  \/ \E max \in HostSizes : MultiplayerHostMode(max)
  \/ IdleMode
  \/ BeaconStart
  \/ \E allow \in BOOLEAN : AllowNewClients(allow)
  \/ \E aid \in KickAids : KickClientByAID(aid)
  \/ GetClients
  \/ \E aid \in LookupAids : LookUpAID(aid)

(* What the ARM9 does before the function it is in returns *)
AppReturns ==
  \/ StoreKickMask
  \/ LookedUp

Next == (\E m \in Mac : Frame(m)) \/ Update \/ App \/ AppReturns

(* The ARM9 sends WIFI_SYNC every frame, so Wifi_NTR_Update keeps running;  *)
(* a function of the library that was called returns; the ARM7 gets the     *)
(* lock if it is free again and again while it spins.                       *)
Spec == Init /\ [][Next]_vars /\ SF_vars(Update) /\ WF_vars(AppReturns)

-----------------------------------------------------------------------------
(* Properties *)

(* Every field of WifiData->clients and every local variable has its type.  *)
TypeOK ==
  /\ list \in [Aids -> [macaddr : Mac \cup {NoMac}, state : States,
                        association_id : 0 .. MaxClients]]
  /\ aid_mask \subseteq 0 .. MaxClients
  /\ num_connected \in 0 .. MaxClients
  /\ spinlock \in {"nobody", "arm9", "left"}
  /\ curMode \in {"normal", "host"}
  /\ reqMode \in {"normal", "host"}
  /\ curMaxClients \in 0 .. MaxClients
  /\ reqMaxClients \in 0 .. MaxClients
  /\ reqAllow \in BOOLEAN
  /\ beacon \in [on : BOOLEAN, players : 0 .. MaxClients + 1, allows : BOOLEAN]
  /\ queuedBeacon \subseteq BOOLEAN
  /\ pc7 \in {"idle", "leave", "clear", "kick", "kicked", "allow", "flush"}
  /\ mask \subseteq Aids
  /\ pc9 \in {"app", "or", "lookup"}
  /\ told \in [Mac -> 0 .. MaxClients]
  /\ kickMask \subseteq Aids

Connected == {a \in Aids : list[a].state # "disconnected"}
Associated == {a \in Aids : list[a].state = "associated"}

(* The count, the mask and the list describe the same set of clients,       *)
(* whichever way clients came and went, and no console occupies two slots.  *)
(* (Between the two halves of a kick the count and the mask lag behind.)    *)
TableConsistent ==
  LET kicked == IF pc7 = "kicked" THEN {First(mask)} ELSE {} IN
  /\ TypeOK
  /\ num_connected = Cardinality(Connected \cup kicked)
  /\ aid_mask \ ({0} \cup kicked) = Associated
  /\ \A a, b \in Connected : list[a].macaddr = list[b].macaddr => a = b
  /\ \A a \in Connected : a <= curMaxClients

(* A console that was last told "success, your AID is k" has slot k and is  *)
(* counted as associated: the host does not forget a client silently.  The  *)
(* exception is a client accepted while the host is already closing down.   *)
GrantedAidIsKept ==
  \A m \in Mac : told[m] # 0 =>
    /\ list[told[m]].macaddr = m
    /\ list[told[m]].state = "associated"
    /\ told[m] \in aid_mask

(* An application that asked for the idle mode and does not ask for another *)
(* finds the ARM7 out of host mode and every client it had before the table *)
(* was cleared taken out of it.  What can prevent it is the lock: it is not *)
(* held up by a function that reads the table, but it is for ever by one    *)
(* that found its AID beyond the limit (arm9/ntr/multiplayer.c:87, :119).   *)
LeavesHostMode ==
  (reqMode = "normal") ~> (\/ reqMode = "host"
                           \/ spinlock = "left"
                           \/ curMode = "normal" /\ \A m \in Mac : told[m] = 0)

(* "Disabling new connections will kick all clients that are in the process *)
(* of associating to this host" (dswifi9.h), where the beacon in the air    *)
(* still told the clients to come and the lock was not left as above.       *)
ClosingOpenBeaconKicks ==
  (BeaconAllows /\ ~ reqAllow) ~>
    (reqAllow \/ reqMode = "normal" \/ spinlock = "left" \/ Joining = {})

=============================================================================
