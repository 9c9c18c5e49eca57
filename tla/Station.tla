------------------------------ MODULE Station ------------------------------
(***************************************************************************)
(* A console that joins an access point or a multiplayer host.  The ARM9   *)
(* searches and reports (src/source/arm9/access_point.c), the ARM7 follows *)
(* the requested mode in Wifi_NTR_Update (src/source/arm7/ntr/update.c)    *)
(* and goes through authentication and association as frames arrive        *)
(* (src/source/arm7/ntr/ieee_802_11).  The two share reqMode, curMode and  *)
(* curAp without a lock.  The access points and the air are external.      *)
(*                                                                         *)
(* One action is one call of Wifi_NTR_Update, the handler of one received  *)
(* frame, or one step of an ARM9 function that the ARM7 can separate from  *)
(* the next.  The library mode does not change.                            *)
(***************************************************************************)
EXTENDS Naturals

CONSTANTS
  Ap,         \* the access points
  NoAp,       \* no BSSID (zeroes)
  Kind,       \* how each access point behaves, see Replies and Answers
  Place,      \* where the console may be used
  InRange,    \* the access points in range at each place
  Lossy,      \* places where frames to the console may be repeated, and where
              \* any frame may arrive later than the 1 s timeout, or never
  Deauths,    \* reasons with which an access point may throw the console out
  Wfc,        \* the access points saved in the WFC settings
  Dhcp,       \* places with internet mode and DHCP: wait for an address at the end
  MaxCalls,   \* bound on the calls of the application, at each place
  MaxDeauths, \* bound on the deauthentication frames at lossy places
  WIFI_MAX_ASSOC_RETRY

ASSUME StationAssumption ==
  /\ NoAp \notin Ap
  /\ Kind \in [Ap -> {"open", "wep", "picky", "refuses", "full", "mute", "silent"}]
  /\ InRange \in [Place -> SUBSET Ap]
  /\ Lossy \subseteq Place /\ Dhcp \subseteq Place
  /\ Deauths \subseteq {"left", "other"}
  /\ Wfc \subseteq Ap
  /\ MaxCalls \in [Place -> Nat]
  /\ MaxDeauths \in Nat
  /\ WIFI_MAX_ASSOC_RETRY \in Nat

VARIABLES
  connect_state,  \* ARM9: wifi_connect_state
  connect_point,  \* ARM9: wifi_connect_point
  pc9,            \* ARM9: Wifi_ScanMode() is still to be called
  calls,          \* ARM9: calls of the application so far
  reqMode, curMode, curAp,
  loadWfcKey,     \* WFLAG_REQ_LOAD_WFC_KEY
  aplist,         \* the active entries of WifiData->aplist
  authlevel, authctr, realRates,
  bssid,          \* W_BSSID, the hardware's filter of received frames
  rxfilter,       \* the last Wifi_SetupFilterMode()
  aid,            \* who gave the AID in W_AID_FULL, NoAp if it is 0
  req,            \* requests on their way to the access points
  air,            \* frames on their way to the console
  place,          \* where the console is; it stays there
  deauths,        \* deauthentication frames sent by access points so far
  member,         \* the APs that have accepted the console and since then have
                  \* neither thrown it out nor heard it say goodbye
  missed          \* history: a frame of the AP in W_BSSID was ignored because the
                  \* ARM9 had changed curAp, since Wifi_AssociationStart

arm9Vars == <<connect_state, connect_point, pc9, calls>>
modeVars == <<reqMode, curMode, curAp, loadWfcKey, aplist>>
authVars == <<authlevel, authctr, realRates>>
hwVars == <<bssid, rxfilter, aid>>
netVars == <<place, req, air, deauths, member, missed>>
vars == <<arm9Vars, modeVars, authVars, hwVars, netVars>>

Init ==
  /\ connect_state = "searching"
  /\ connect_point = NoAp
  /\ pc9 = "app"
  /\ calls = 0
  /\ reqMode = "normal"
  /\ curMode = "normal"
  /\ curAp = NoAp
  /\ loadWfcKey = FALSE
  /\ aplist = {}
  /\ authlevel = "disconnected"
  /\ authctr = 0
  /\ realRates = FALSE
  /\ bssid = NoAp
  /\ rxfilter = "idle"
  /\ aid = NoAp
  /\ place \in Place
  /\ req = {}
  /\ air = {}
  /\ deauths = 0
  /\ member = {}
  /\ missed = FALSE

-----------------------------------------------------------------------------
(* Frames.  Requests go to curAp (Wifi_GenMgtHeader), whoever set it.       *)

Request(kind) == [to |-> curAp, kind |-> kind, real |-> realRates]
Send(kind) == req' = req \cup {Request(kind)}

(* External: which requests an access point answers at all ... *)
Replies(r) ==
  \/ Kind[r.to] \notin {"mute", "silent"}
  \/ Kind[r.to] = "mute" /\ r.kind # "assoc"

(* ... and what it answers *)
Answers(r) ==
  LET ok == CASE r.kind = "open"      -> Kind[r.to] \in {"open", "picky", "refuses", "mute"}
              [] r.kind = "shared"    -> Kind[r.to] = "wep"
              [] r.kind = "challenge" -> Kind[r.to] = "wep"
              [] r.kind = "assoc"     -> \/ Kind[r.to] \in {"open", "wep"}
                                         \/ Kind[r.to] = "picky" /\ ~ r.real
  IN [from |-> r.to, kind |-> r.kind,
      status |-> IF ok THEN "success"
                 ELSE IF r.kind = "open" /\ Kind[r.to] = "full" THEN "full" ELSE "refused"]

(* Its record of the console is its own: it changes here, when it accepts   *)
(* the console and when it throws it out, not when the console hears of it. *)
Answer(r) ==
  /\ Replies(r)
  /\ req' = req \ {r}
  /\ air' = air \cup {Answers(r)}
  /\ member' = IF r.kind = "assoc" /\ Answers(r).status = "success"
               THEN member \cup {r.to} ELSE member
  /\ UNCHANGED <<arm9Vars, modeVars, authVars, hwVars, place, missed, deauths>>

(* External: an access point throws the console out, or says goodbye to all *)
Deauthenticate(ap, reason) ==
  /\ place \in Lossy /\ ap \in InRange[place]
  /\ deauths < MaxDeauths
  /\ deauths' = deauths + 1
  /\ air' = air \cup {[from |-> ap, kind |-> "deauth", status |-> reason]}
  /\ member' = member \ {ap}
  /\ UNCHANGED <<arm9Vars, modeVars, authVars, hwVars, place, req, missed>>

-----------------------------------------------------------------------------
(* The ARM7: received frames *)

(* The hardware filters by BSSID, the handler compares with curAp.          *)
Passes(f) == rxfilter # "idle" /\ f.from = bssid
Heard(f) == Passes(f) /\ f.from = curAp

(* A lossy air may repeat a frame. *)
Take(f) == \/ air' = air \ {f}
           \/ place \in Lossy /\ air' = air

(* Frames that do not pass are dropped. *)
DropFrame(f) ==
  /\ ~ Heard(f)
  /\ Take(f)
  /\ missed' = (missed \/ Passes(f))
  /\ UNCHANGED <<arm9Vars, modeVars, authVars, hwVars, place, req, member, deauths>>

(* authlevel DISCONNECTED -> AUTHENTICATED, and Wifi_SendAssocPacket() *)
Authenticated ==
  IF authlevel = "disconnected"
    THEN /\ authlevel' = "authenticated"
         /\ authctr' = 0
         /\ Send("assoc")
    ELSE UNCHANGED <<authlevel, authctr, req>>

AuthFails ==
  /\ authlevel' = "error"
  /\ UNCHANGED <<authctr, req>>

(* Wifi_ProcessAuthentication: open system, sequence number 2 *)
OpenReply(f) ==
  /\ f.kind = "open"
  /\ \/ f.status = "success" /\ Authenticated
     \/ f.status = "full" /\ AuthFails
     \/ f.status = "refused" /\ Send("shared") /\ UNCHANGED <<authlevel, authctr>>

(* Wifi_ProcessAuthentication: shared key, sequence number 2 *)
SharedReply(f) ==
  /\ f.kind = "shared"
  /\ \/ f.status = "success" /\ Send("challenge") /\ UNCHANGED <<authlevel, authctr>>
     \/ f.status = "refused" /\ AuthFails

(* Wifi_ProcessAuthentication: shared key, sequence number 4 *)
ChallengeReply(f) ==
  /\ f.kind = "challenge"
  /\ \/ f.status = "success" /\ Authenticated
     \/ f.status = "refused" /\ AuthFails

ProcessAuthentication(f) ==
  /\ Heard(f)
  /\ OpenReply(f) \/ SharedReply(f) \/ ChallengeReply(f)
  /\ Take(f)
  /\ UNCHANGED <<arm9Vars, modeVars, realRates, hwVars, place, member, missed, deauths>>

(* Faulty variant: a success counts in whatever state it arrives *)
AssocAnyTime(f) ==
  /\ f.status = "success"
  /\ aid' = f.from
  /\ authlevel' = "associated"
  /\ authctr' = 0
  /\ UNCHANGED <<realRates, req>>

(* Wifi_ProcessAssocResponse.  The AID is set whatever authlevel says.      *)
AssocSuccess(f) ==
  /\ f.status = "success"
  /\ aid' = f.from
  /\ IF authlevel = "authenticated"
       THEN authlevel' = "associated" /\ authctr' = 0
       ELSE UNCHANGED <<authlevel, authctr>>
  /\ UNCHANGED <<realRates, req>>

(* Faulty variant: no second attempt *)
NoFallback(f) ==
  /\ f.status # "success"
  /\ authlevel' = "error"
  /\ UNCHANGED <<realRates, req, aid, authctr>>

(* "let's retry from the start pretending that we support all 802.11b rates" *)
AssocFailure(f) ==
  /\ f.status # "success"
  /\ IF realRates
       THEN /\ realRates' = FALSE
            /\ authlevel' = "disconnected"
            /\ Send("open")
       ELSE /\ authlevel' = "error"
            /\ UNCHANGED <<realRates, req>>
  /\ UNCHANGED <<aid, authctr>>

ProcessAssocResponse(f) ==
  /\ Heard(f)
  /\ f.kind = "assoc"
  /\ AssocSuccess(f) \/ AssocFailure(f)
  /\ Take(f)
  /\ UNCHANGED <<arm9Vars, modeVars, bssid, rxfilter, place, member, missed, deauths>>

(* Wifi_ProcessDeauthentication *)
ProcessDeauthentication(f) ==
  /\ Heard(f)
  /\ f.kind = "deauth"
  /\ \/ /\ f.status = "other"
        /\ authlevel' = "disconnected"
        /\ Send("open")
        /\ UNCHANGED bssid
     \/ /\ f.status = "left"
        /\ authlevel' = "error"
        /\ bssid' = NoAp
        /\ UNCHANGED req
  /\ aid' = NoAp
  /\ air' = air \ {f}
  /\ UNCHANGED <<arm9Vars, modeVars, authctr, realRates, rxfilter, place, member, missed, deauths>>

(* Wifi_AccessPointAdd, for a beacon frame *)
ProcessBeacon(ap) ==
  /\ rxfilter # "idle"
  /\ ap \in InRange[place] \ aplist
  /\ aplist' = aplist \cup {ap}
  /\ UNCHANGED <<arm9Vars, reqMode, curMode, curAp, loadWfcKey, authVars, hwVars, netVars>>

-----------------------------------------------------------------------------
(* The ARM7: Wifi_NTR_Update, one action for each way through its switch *)

GoIdle ==
  /\ rxfilter' = "idle"
  /\ curMode' = "normal"

(* WIFIMODE_NORMAL, nothing requested: W_BSSID is cleared first in any case *)
StayIdle ==
  /\ curMode = "normal"
  /\ reqMode = "normal"
  /\ bssid' = NoAp
  /\ UNCHANGED <<arm9Vars, modeVars, authVars, rxfilter, aid, netVars>>

(* WIFIMODE_NORMAL, WIFIMODE_SCAN requested *)
StartScan ==
  /\ curMode = "normal"
  /\ reqMode = "scan"
  /\ bssid' = NoAp
  /\ aplist' = {}
  /\ curMode' = "scan"
  /\ rxfilter' = "scan"
  /\ UNCHANGED <<arm9Vars, reqMode, curAp, loadWfcKey, authVars, aid, netVars>>

(* WIFIMODE_NORMAL, WIFIMODE_CONNECTED requested, no key in the WFC settings *)
NoWfcKey ==
  /\ curMode = "normal"
  /\ reqMode = "connected"
  /\ loadWfcKey /\ curAp \notin Wfc
  /\ bssid' = NoAp
  /\ curMode' = "cannotconnect"
  /\ UNCHANGED <<arm9Vars, reqMode, curAp, loadWfcKey, aplist, authVars, rxfilter, aid, netVars>>

(* WIFIMODE_NORMAL, WIFIMODE_CONNECTED requested; Wifi_AssociationStart() *)
StartConnecting ==
  /\ curMode = "normal"
  /\ reqMode = "connected"
  /\ ~ (loadWfcKey /\ curAp \notin Wfc)
  /\ bssid' = curAp
  /\ rxfilter' = "station"
  /\ realRates' = TRUE
  /\ curMode' = "connecting"
  /\ authctr' = 0
  /\ authlevel' = "disconnected"
  /\ req' = req \cup {[to |-> curAp, kind |-> "open", real |-> TRUE]}
  /\ missed' = FALSE
  /\ UNCHANGED <<arm9Vars, reqMode, curAp, loadWfcKey, aplist, aid, place, air, member, deauths>>

(* WIFIMODE_SCAN: another mode is requested *)
StopScan ==
  /\ curMode = "scan"
  /\ reqMode # "scan"
  /\ GoIdle
  /\ UNCHANGED <<arm9Vars, reqMode, curAp, loadWfcKey, aplist, authVars, bssid, aid, netVars>>

(* WIFIMODE_SCAN: Wifi_AccessPointTick() drops an entry that timed out *)
ForgetAp(ap) ==
  /\ place \in Lossy
  /\ curMode = "scan"
  /\ reqMode = "scan"
  /\ aplist' = aplist \ {ap}
  /\ UNCHANGED <<arm9Vars, reqMode, curMode, curAp, loadWfcKey, authVars, hwVars, netVars>>

(* WIFIMODE_CONNECTING: "asked to stop trying to connect, go back to idle" *)
StopConnecting ==
  /\ curMode = "connecting"
  /\ reqMode # "connected"
  /\ GoIdle
  /\ UNCHANGED <<arm9Vars, reqMode, curAp, loadWfcKey, aplist, authVars, bssid, aid, netVars>>

(* WIFIMODE_CONNECTING, WIFIMODE_CONNECTED: authlevel decides *)
ConnectingEnds ==
  /\ curMode = "connecting"
  /\ reqMode = "connected"
  /\ \/ authlevel = "associated" /\ curMode' = "connected"
     \/ authlevel = "error" /\ curMode' = "cannotconnect"
  /\ UNCHANGED <<arm9Vars, reqMode, curAp, loadWfcKey, aplist, authVars, hwVars, netVars>>

(* The access points answer within the second that the timer takes.         *)
TimerExpires == place \in Lossy \/ (air = {} /\ \A r \in req : ~ Replies(r))

(* Faulty variant: the retries are not counted *)
RetryForEver ==
  /\ curMode = "connecting"
  /\ reqMode = "connected"
  /\ authlevel \notin {"associated", "error"}
  /\ TimerExpires
  /\ authlevel' = "disconnected"
  /\ req' = req \cup {[to |-> curAp, kind |-> "open", real |-> realRates]}
  /\ UNCHANGED <<arm9Vars, modeVars, authctr, realRates, hwVars, place, air, member, missed, deauths>>

(* WIFIMODE_CONNECTING: Wifi_AssociationUpdate() *)
AssociationUpdate ==
  /\ curMode = "connecting"
  /\ reqMode = "connected"
  /\ authlevel \notin {"associated", "error"}
  /\ TimerExpires
  /\ authctr' = (authctr + 1) % 256
  /\ IF authctr' > WIFI_MAX_ASSOC_RETRY
       THEN /\ authlevel' = "error"
            /\ UNCHANGED <<realRates, req>>
       ELSE /\ realRates' = IF authlevel = "authenticated" THEN TRUE ELSE realRates
            /\ authlevel' = "disconnected"
            /\ req' = req \cup {[to |-> curAp, kind |-> "open", real |-> realRates']}
  /\ UNCHANGED <<arm9Vars, modeVars, hwVars, place, air, member, missed, deauths>>

(* WIFIMODE_CONNECTED: leave, with a deauthentication frame to curAp, which *)
(* no later request overtakes (TxQueue); where frames get lost, it may.     *)
Disconnect ==
  /\ curMode = "connected"
  /\ reqMode # "connected"
  /\ \/ member' = member \ {curAp}
     \/ place \in Lossy /\ member' = member
  /\ aid' = NoAp
  /\ GoIdle
  /\ UNCHANGED <<arm9Vars, reqMode, curAp, loadWfcKey, aplist, authVars, bssid, place, req, air, missed, deauths>>

(* WIFIMODE_CONNECTED: thrown out for good *)
ConnectionLost ==
  /\ curMode = "connected"
  /\ reqMode = "connected"
  /\ authlevel = "error"
  /\ curMode' = "cannotconnect"
  /\ UNCHANGED <<arm9Vars, reqMode, curAp, loadWfcKey, aplist, authVars, hwVars, netVars>>

(* WIFIMODE_CANNOTCONNECT: "the user has stopped trying to connect" *)
LeaveError ==
  /\ curMode = "cannotconnect"
  /\ reqMode # "connected"
  /\ GoIdle
  /\ UNCHANGED <<arm9Vars, reqMode, curAp, loadWfcKey, aplist, authVars, bssid, aid, netVars>>

-----------------------------------------------------------------------------
(* The ARM9 *)

Call == pc9 = "app" /\ calls < MaxCalls[place] /\ calls' = calls + 1

(* Wifi_ConnectSecureAP, Wifi_ConnectOpenAP (wfc = FALSE) and               *)
(* Wifi_ConnectWfcAP (wfc = TRUE), up to Wifi_DisconnectAP()                *)
ConnectAP(ap, wfc) ==
  /\ Call
  /\ reqMode' = "normal"
  /\ connect_state' = "searching"
  /\ connect_point' = ap
  /\ loadWfcKey' = wfc
  /\ pc9' = "scan"
  /\ UNCHANGED <<curMode, curAp, aplist, authVars, hwVars, netVars>>

(* Wifi_AutoConnect *)
AutoConnect ==
  /\ Call
  /\ reqMode' = "normal"
  /\ IF Wfc = {}
       THEN connect_state' = "error" /\ UNCHANGED pc9
       ELSE connect_state' = "searching_wfc" /\ pc9' = "scan"
  /\ UNCHANGED <<connect_point, curMode, curAp, loadWfcKey, aplist, authVars, hwVars, netVars>>

(* Wifi_ScanMode, at the end of each of them *)
ScanMode ==
  /\ pc9 = "scan"
  /\ reqMode' = "scan"
  /\ pc9' = "app"
  /\ UNCHANGED <<connect_state, connect_point, calls, curMode, curAp,
                 loadWfcKey, aplist, authVars, hwVars, netVars>>

(* Wifi_DisconnectAP *)
DisconnectAP ==
  /\ Call
  /\ reqMode' = "normal"
  /\ connect_state' = "error"
  /\ UNCHANGED <<connect_point, pc9, curMode, curAp, loadWfcKey, aplist,
                 authVars, hwVars, netVars>>

(* Wifi_AssocStatus while it searches: Wifi_FindMatchingAP looks for the    *)
(* access point in the list, Wifi_FindMatchingAPFromWFC for any saved one.  *)
Candidates == IF connect_state = "searching_wfc" THEN aplist \cap Wfc
              ELSE aplist \cap {connect_point}

FoundAp ==
  /\ pc9 = "app"
  /\ connect_state \in {"searching", "searching_wfc"}
  /\ \E ap \in Candidates : curAp' = ap
  /\ reqMode' = "connected"
  /\ connect_state' = "associating"
  /\ UNCHANGED <<connect_point, pc9, calls, curMode, loadWfcKey, aplist, authVars, hwVars, netVars>>

(* Wifi_AssocStatus in the other states: the one it goes to, which it       *)
(* reports (associating is reported as what curMode says)                   *)
NextState ==
  CASE connect_state # "associating" -> connect_state
    [] connect_state = "associating" /\ curMode \in {"normal", "scan", "connecting"} -> "associating"
    [] connect_state = "associating" /\ curMode = "cannotconnect" -> "error"
    [] connect_state = "associating" /\ curMode = "connected" ->
         IF place \in Dhcp THEN "dhcping" ELSE "done"

AssocStatus ==
  /\ pc9 = "app"
  /\ connect_state \in {"searching", "searching_wfc"} => Candidates = {}
  /\ connect_state' = NextState
  /\ UNCHANGED <<connect_point, pc9, calls, modeVars, authVars, hwVars, netVars>>

(* External: lwIP has an address when Wifi_AssocStatus asks *)
GotAddress ==
  /\ pc9 = "app"
  /\ connect_state = "dhcping"
  /\ connect_state' = "done"
  /\ UNCHANGED <<connect_point, pc9, calls, modeVars, authVars, hwVars, netVars>>

-----------------------------------------------------------------------------

Update ==
  \/ StayIdle
  \/ StartScan
  \/ NoWfcKey
  \/ StartConnecting
  \/ StopScan
  \/ \E ap \in aplist : ForgetAp(ap)
  \/ StopConnecting
  \/ ConnectingEnds
  \/ AssociationUpdate
  \/ Disconnect
  \/ ConnectionLost
  \/ LeaveError

Receive(f) ==
  ProcessAuthentication(f) \/ ProcessAssocResponse(f) \/ ProcessDeauthentication(f) \/ DropFrame(f)

Poll == ScanMode \/ FoundAp \/ AssocStatus

Application ==
  \/ \E ap \in InRange[place], wfc \in BOOLEAN : ConnectAP(ap, wfc)
  \/ AutoConnect
  \/ DisconnectAP

Network ==
  \/ \E r \in req : Answer(r)
  \/ \E ap \in Ap, reason \in Deauths : Deauthenticate(ap, reason)

Next ==
  \/ Update
  \/ \E f \in air : Receive(f)
  \/ \E ap \in Ap : ProcessBeacon(ap)
  \/ Poll
  \/ GotAddress
  \/ Application
  \/ Network

(* The ARM9 wakes the ARM7 up every frame, received frames raise an         *)
(* interrupt, and the documentation tells the application to keep polling   *)
(* Wifi_AssocStatus.  The access points keep sending beacons and answer.    *)
Fairness ==
  /\ WF_vars(Update)
  /\ WF_vars(Poll)
  /\ WF_vars(GotAddress)
  /\ WF_vars(\E f \in air : Receive(f))
  /\ WF_vars(\E r \in req : Answer(r))
  /\ WF_vars(\E ap \in Ap : ProcessBeacon(ap))

Spec == Init /\ [][Next]_vars /\ Fairness

-----------------------------------------------------------------------------
(* Properties *)

Frames == [from : Ap, kind : {"open", "shared", "challenge", "assoc", "deauth"},
           status : {"success", "full", "refused", "left", "other"}]

(* Every variable of the two processors has its type (authctr is a u8).     *)
TypeOK ==
  /\ connect_state \in {"error", "searching", "searching_wfc", "associating", "dhcping", "done"}
  /\ connect_point \in Ap \cup {NoAp}
  /\ pc9 \in {"app", "scan"}
  /\ place \in Place
  /\ calls \in 0 .. MaxCalls[place]
  /\ deauths \in 0 .. MaxDeauths
  /\ reqMode \in {"normal", "scan", "connected"}
  /\ curMode \in {"normal", "scan", "connecting", "connected", "cannotconnect"}
  /\ curAp \in Ap \cup {NoAp}
  /\ loadWfcKey \in BOOLEAN
  /\ aplist \subseteq Ap
  /\ authlevel \in {"disconnected", "authenticated", "associated", "error"}
  /\ authctr \in 0 .. 255
  /\ realRates \in BOOLEAN
  /\ bssid \in Ap \cup {NoAp}
  /\ rxfilter \in {"idle", "scan", "station"}
  /\ aid \in Ap \cup {NoAp}
  /\ req \subseteq [to : Ap, kind : {"open", "shared", "challenge", "assoc"}, real : BOOLEAN]
  /\ air \subseteq Frames
  /\ member \subseteq Ap
  /\ missed \in BOOLEAN

(* Something on its way, or lost, that would settle between the console and *)
(* the access point whether they are associated                             *)
Unsettled(ap) ==
  \/ \E r \in req : r.to = ap /\ r.kind = "assoc"
  \/ \E f \in air : /\ f.from = ap
                    /\ f.kind = "deauth" \/ (f.kind = "assoc" /\ f.status # "success")

(* While the ARM7 is at it, "associated" means that the access point whose  *)
(* frames it receives gave it the AID in use, and that this access point    *)
(* counts on the console, unless its goodbye or refusal has not arrived, or *)
(* a new request of the console has not: an answer that is late or repeated *)
(* is believed only where a request of the console is out.  The exception   *)
(* is a goodbye ignored because the ARM9 had changed curAp meanwhile.       *)
AssociatedIsMember ==
  /\ TypeOK
  /\ curMode \in {"connecting", "connected"} /\ authlevel = "associated" =>
       /\ aid = bssid
       /\ bssid \in member \/ Unsettled(bssid) \/ missed

(* The access points that the current search may choose *)
Wanted == IF connect_state = "searching_wfc" THEN Wfc \cap InRange[place] ELSE {connect_point}

(* A search ends: if the access points it may choose are in range, willing, *)
(* and their keys known, the application that keeps polling is told so.     *)
SearchSucceeds ==
  /\ place \notin Lossy
  /\ calls = MaxCalls[place] /\ connect_state \in {"searching", "searching_wfc"}
  /\ Wanted # {}
  /\ \A ap \in Wanted : Kind[ap] \in {"open", "wep", "picky"} /\ (loadWfcKey => ap \in Wfc)
  ~> connect_state = "done"

(* "Give up after too many retries" (update.c:94).  Every authentication    *)
(* resets the counter (authentication.c:182), so that an attempt, where      *)
(* frames arrive in time, lasts for ever only with an access point that      *)
(* authenticates the console again and again and never answers its request   *)
(* to associate.                                                             *)
GivesUp ==
  <>[](place \notin Lossy /\ curMode = "connecting") =>
    []<>(authlevel = "authenticated" /\ Kind[curAp] = "mute")

=============================================================================
