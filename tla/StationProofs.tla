--------------------------- MODULE StationProofs ---------------------------
(***************************************************************************)
(* Proof that the access point whose frames a console receives counts on   *)
(* the console that takes itself for associated, once nothing that settles *)
(* it is on its way (module Station), for every set of access points,      *)
(* whatever they answer, and every bound.                                  *)
(***************************************************************************)
EXTENDS Station, TLAPS

-----------------------------------------------------------------------------
(* The inductive invariant.  The type invariant holds with it only because  *)
(* no request is sent before the ARM9 has chosen an access point: curAp is  *)
(* set before reqMode (Wifi_AssocStatus), and never cleared.                *)

ChosenInv == reqMode = "connected" => curAp \in Ap

(* An answer makes the console associated only after it has authenticated,  *)
(* when its request to associate is on its way, or has been answered.       *)
Counted == bssid \in member \/ Unsettled(bssid) \/ missed

MemberInv ==
  curMode \in {"connecting", "connected"} =>
    /\ rxfilter = "station"
    /\ authlevel = "associated" => aid = bssid
    /\ authlevel \in {"authenticated", "associated"} => Counted

StationInv == TypeOK /\ ChosenInv /\ MemberInv

Requests == [to : Ap, kind : {"open", "shared", "challenge", "assoc"}, real : BOOLEAN]

(* The types of what each processor keeps *)
Arm9OK ==
  /\ connect_state \in {"error", "searching", "searching_wfc", "associating", "dhcping", "done"}
  /\ connect_point \in Ap \cup {NoAp}
  /\ pc9 \in {"app", "scan"}
  /\ calls \in 0 .. MaxCalls[place]

ModesOK ==
  /\ reqMode \in {"normal", "scan", "connected"}
  /\ curMode \in {"normal", "scan", "connecting", "connected", "cannotconnect"}
  /\ curAp \in Ap \cup {NoAp}
  /\ loadWfcKey \in BOOLEAN
  /\ aplist \subseteq Ap

AuthOK ==
  /\ authlevel \in {"disconnected", "authenticated", "associated", "error"}
  /\ authctr \in 0 .. 255
  /\ realRates \in BOOLEAN

HwOK ==
  /\ bssid \in Ap \cup {NoAp}
  /\ rxfilter \in {"idle", "scan", "station"}
  /\ aid \in Ap \cup {NoAp}

NetOK ==
  /\ place \in Place
  /\ req \subseteq Requests
  /\ air \subseteq Frames
  /\ deauths \in 0 .. MaxDeauths
  /\ member \subseteq Ap
  /\ missed \in BOOLEAN

LEMMA TypeParts == TypeOK <=> Arm9OK /\ ModesOK /\ AuthOK /\ HwOK /\ NetOK
  BY DEF TypeOK, Arm9OK, ModesOK, AuthOK, HwOK, NetOK, Requests

-----------------------------------------------------------------------------
(* Frames *)

(* A request to the chosen access point is a request.                       *)
LEMMA RequestType ==
  ASSUME AuthOK, NetOK, curAp \in Ap, NEW k \in {"open", "shared", "challenge", "assoc"},
         NEW real \in BOOLEAN
  PROVE  req \cup {[to |-> curAp, kind |-> k, real |-> real]} \subseteq Requests
<1>1. [to |-> curAp, kind |-> k, real |-> real] \in Requests
  BY DEF Requests
<1>2. QED
  BY <1>1 DEF NetOK

(* The timer of a u8 wraps around.                                          *)
LEMMA CounterType ==
  ASSUME AuthOK
  PROVE  (authctr + 1) % 256 \in 0 .. 255
BY DEF AuthOK

(* The handler of an authentication reply leaves authlevel authenticated,   *)
(* failed or as it was.                                                     *)
LEMMA AuthenticationKeeps ==
  ASSUME StationInv, NEW f \in air, ProcessAuthentication(f)
  PROVE  StationInv'
<1> USE TypeParts DEF StationInv
<1>1. f \in Frames /\ f.from = curAp /\ f.from \in Ap
  BY DEF NetOK, Frames, ProcessAuthentication, Heard
<1>2. UNCHANGED <<arm9Vars, modeVars, hwVars, place, member, missed, deauths, realRates>>
  BY DEF ProcessAuthentication
<1>3. /\ \/ authlevel' = authlevel \/ authlevel' = "error"
         \/ authlevel' = "authenticated" /\ Request("assoc") \in req'
      /\ authctr' \in {0, authctr}
      /\ req' = req \/ \E k \in {"shared", "challenge", "assoc"} :
                         req' = req \cup {[to |-> curAp, kind |-> k, real |-> realRates]}
  BY DEF ProcessAuthentication, OpenReply, SharedReply, ChallengeReply, Authenticated, AuthFails, Send, Request
<1>4. req' \subseteq Requests
  BY <1>1, <1>3, RequestType DEF AuthOK, NetOK
<1>5. air' \subseteq Frames
  BY DEF ProcessAuthentication, Take, NetOK
<1>6. AuthOK'
  BY <1>2, <1>3 DEF AuthOK
<1>7. Arm9OK' /\ ModesOK' /\ HwOK'
  BY <1>2 DEF Arm9OK, ModesOK, HwOK, arm9Vars, modeVars, hwVars
<1>8. NetOK'
  BY <1>2, <1>4, <1>5 DEF NetOK
<1>9. ChosenInv' /\ MemberInv'
  <2>1. ChosenInv'
    BY <1>2 DEF ChosenInv, modeVars
  <2>2. Counted => Counted'
    <3>1. req \subseteq req' /\ (air' = air \/ air' = air \ {f})
      BY <1>3 DEF ProcessAuthentication, Take
    <3>2. f.kind \in {"open", "shared", "challenge"}
      BY DEF ProcessAuthentication, OpenReply, SharedReply, ChallengeReply
    <3>3. QED
      BY <1>2, <3>1, <3>2 DEF Counted, Unsettled, hwVars
  <2>3. Request("assoc") \in req' => Counted'
    <3>1. Request("assoc").to = bssid /\ Request("assoc").kind = "assoc"
      BY DEF ProcessAuthentication, Heard, Passes, Request
    <3>2. QED
      BY <1>2, <3>1 DEF Counted, Unsettled, hwVars
  <2>4. QED
    BY <1>2, <1>3, <2>1, <2>2, <2>3 DEF MemberInv, modeVars, hwVars
<1>10. TypeOK'
  BY <1>6, <1>7, <1>8 DEF TypeOK, Arm9OK, ModesOK, AuthOK, HwOK, NetOK, Requests
<1>11. QED
  BY <1>9, <1>10

(* The handler of an association response: the AID and the membership come  *)
(* from the sender, which passed the hardware's filter.                     *)
LEMMA AssociationKeeps ==
  ASSUME StationInv, NEW f \in air, ProcessAssocResponse(f)
  PROVE  StationInv'
<1> USE TypeParts DEF StationInv
<1>1. f \in Frames /\ f.from = curAp /\ f.from \in Ap /\ f.from = bssid
  BY DEF NetOK, Frames, ProcessAssocResponse, Heard, Passes
<1>2. UNCHANGED <<arm9Vars, modeVars, bssid, rxfilter, place, member, missed, deauths>>
  BY DEF ProcessAssocResponse
<1>3. air' \subseteq Frames
  BY DEF ProcessAssocResponse, Take, NetOK
<1>4. Arm9OK' /\ ModesOK' /\ ChosenInv'
  BY <1>2 DEF Arm9OK, ModesOK, ChosenInv, arm9Vars, modeVars
<1>5. CASE AssocSuccess(f)
  <2>1. /\ aid' = bssid /\ UNCHANGED <<realRates, req>>
        /\ authlevel' = authlevel \/ (authlevel = "authenticated" /\ authlevel' = "associated")
        /\ authctr' \in {authctr, 0}
    BY <1>1, <1>5 DEF AssocSuccess
  <2>2. HwOK' /\ AuthOK' /\ NetOK'
    BY <1>1, <1>2, <1>3, <2>1 DEF HwOK, AuthOK, NetOK
  <2>3. Counted => Counted'
    <3>1. (air' = air \/ air' = air \ {f}) /\ f.kind = "assoc" /\ f.status = "success"
      BY <1>5 DEF ProcessAssocResponse, Take, AssocSuccess
    <3>2. QED
      BY <1>2, <2>1, <3>1 DEF Counted, Unsettled
  <2>4. MemberInv'
    BY <1>2, <2>1, <2>3 DEF MemberInv, modeVars
  <2>5. QED
    BY <1>4, <2>2, <2>4 DEF TypeOK, Arm9OK, ModesOK, AuthOK, HwOK, NetOK, Requests
<1>6. CASE AssocFailure(f)
  <2>1. /\ UNCHANGED <<aid, authctr>> /\ authlevel' \in {"disconnected", "error"}
        /\ realRates' \in {realRates, FALSE}
        /\ req' = req \/ req' = req \cup {[to |-> curAp, kind |-> "open", real |-> realRates]}
    BY <1>6 DEF AssocFailure, Send, Request
  <2>2. req' \subseteq Requests
    BY <1>1, <2>1, RequestType DEF AuthOK, NetOK
  <2>3. HwOK' /\ AuthOK' /\ NetOK' /\ MemberInv'
    BY <1>2, <1>3, <2>1, <2>2 DEF HwOK, AuthOK, NetOK, MemberInv, modeVars
  <2>4. QED
    BY <1>4, <2>3 DEF TypeOK, Arm9OK, ModesOK, AuthOK, HwOK, NetOK, Requests
<1>7. QED
  BY <1>5, <1>6 DEF ProcessAssocResponse

(* A goodbye ends the association.                                          *)
LEMMA DeauthenticationKeeps ==
  ASSUME StationInv, NEW f \in air, ProcessDeauthentication(f)
  PROVE  StationInv'
<1> USE TypeParts DEF StationInv
<1>1. f \in Frames /\ f.from = curAp /\ f.from \in Ap
  BY DEF NetOK, Frames, ProcessDeauthentication, Heard
<1>2. UNCHANGED <<arm9Vars, modeVars, authctr, realRates, rxfilter, place, member, missed, deauths>>
  BY DEF ProcessDeauthentication
<1>3. /\ authlevel' \in {"disconnected", "error"} /\ aid' = NoAp /\ bssid' \in {bssid, NoAp}
      /\ air' \subseteq air
      /\ req' = req \/ req' = req \cup {[to |-> curAp, kind |-> "open", real |-> realRates]}
  BY DEF ProcessDeauthentication, Send, Request
<1>4. req' \subseteq Requests
  BY <1>1, <1>3, RequestType DEF AuthOK, NetOK
<1>5. Arm9OK' /\ ModesOK' /\ ChosenInv'
  BY <1>2 DEF Arm9OK, ModesOK, ChosenInv, arm9Vars, modeVars
<1>6. HwOK' /\ AuthOK' /\ NetOK' /\ MemberInv'
  BY <1>2, <1>3, <1>4 DEF HwOK, AuthOK, NetOK, MemberInv, modeVars
<1>7. QED
  BY <1>5, <1>6 DEF TypeOK, Arm9OK, ModesOK, AuthOK, HwOK, NetOK, Requests

-----------------------------------------------------------------------------
(* The other steps *)

(* Wifi_NTR_Update: the only way into CONNECTING starts disconnected, and   *)
(* the BSSID changes in WIFIMODE_NORMAL only.                               *)
LEMMA UpdateKeeps ==
  ASSUME StationInv, Update
  PROVE  StationInv'
<1> USE TypeParts DEF StationInv
<1>1. UNCHANGED <<arm9Vars, reqMode, curAp, loadWfcKey, place, air, deauths>>
  BY DEF Update, StayIdle, StartScan, NoWfcKey, StartConnecting, StopScan, ForgetAp, StopConnecting,
         ConnectingEnds, AssociationUpdate, Disconnect, ConnectionLost, LeaveError, modeVars, netVars
<1>2. Arm9OK' /\ ChosenInv'
  BY <1>1 DEF Arm9OK, ChosenInv, arm9Vars
<1>3. /\ curMode' \in {"normal", "scan", "connecting", "connected", "cannotconnect"} /\ aplist' \subseteq Ap
      /\ rxfilter' \in {"idle", "scan", "station"} /\ aid' \in {aid, NoAp} /\ member' \subseteq member
      /\ missed' \in BOOLEAN
      /\ bssid' \in Ap \cup {NoAp}
  <2> USE DEF ModesOK, HwOK, NetOK
  <2>1. CASE StayIdle \/ StartScan \/ NoWfcKey
    BY <2>1 DEF StayIdle, StartScan, NoWfcKey, GoIdle, modeVars, netVars, hwVars
  <2>2. CASE StartConnecting
    BY <2>2 DEF StartConnecting, ChosenInv
  <2>3. CASE StopScan \/ StopConnecting \/ ConnectingEnds
    BY <2>3 DEF StopScan, StopConnecting, ConnectingEnds, GoIdle, modeVars, netVars, hwVars
  <2>4. CASE \E ap \in aplist : ForgetAp(ap)
    BY <2>4 DEF ForgetAp, netVars, hwVars
  <2>5. CASE AssociationUpdate
    BY <2>5 DEF AssociationUpdate, modeVars, hwVars
  <2>6. CASE Disconnect
    BY <2>6 DEF Disconnect, GoIdle
  <2>7. CASE ConnectionLost \/ LeaveError
    BY <2>7 DEF ConnectionLost, LeaveError, GoIdle, netVars, hwVars
  <2>8. QED
    BY <2>1, <2>2, <2>3, <2>4, <2>5, <2>6, <2>7 DEF Update
<1>4. ModesOK' /\ HwOK'
  BY <1>1, <1>3 DEF ModesOK, HwOK
<1>5. AuthOK' /\ req' \subseteq Requests
  <2>1. CASE StartConnecting
    <3>1. authlevel' = "disconnected" /\ authctr' = 0 /\ realRates' = TRUE /\ curAp \in Ap
      BY <2>1 DEF StartConnecting, ChosenInv
    <3>2. req' = req \cup {[to |-> curAp, kind |-> "open", real |-> TRUE]}
      BY <2>1 DEF StartConnecting
    <3>3. req' \subseteq Requests
      BY <3>1, <3>2, RequestType
    <3>4. 0 \in 0 .. 255
      OBVIOUS
    <3>5. AuthOK'
      BY <3>1, <3>4, Zenon DEF AuthOK
    <3>6. QED
      BY <3>3, <3>5
  <2>2. CASE AssociationUpdate
    <3>1. /\ curAp \in Ap /\ authctr' = (authctr + 1) % 256 /\ authlevel' \in {"disconnected", "error"}
          /\ realRates' \in {realRates, TRUE}
          /\ req' = req \/ req' = req \cup {[to |-> curAp, kind |-> "open", real |-> realRates']}
      BY <2>2 DEF AssociationUpdate, ChosenInv
    <3>2. AuthOK'
      BY <3>1, CounterType DEF AuthOK
    <3>3. realRates' \in BOOLEAN
      BY <3>2 DEF AuthOK
    <3>4. QED
      BY <3>1, <3>2, <3>3, RequestType DEF NetOK
  <2>3. CASE UNCHANGED <<authVars, req>>
    BY <2>3 DEF authVars, AuthOK, NetOK
  <2>4. QED
    BY <2>1, <2>2, <2>3 DEF Update, StayIdle, StartScan, NoWfcKey, StopScan, ForgetAp, StopConnecting,
         ConnectingEnds, Disconnect, ConnectionLost, LeaveError, netVars
<1>6. NetOK'
  BY <1>1, <1>3, <1>5 DEF NetOK
<1>7. MemberInv'
  <2>1. CASE StayIdle \/ StartScan \/ NoWfcKey \/ StopScan \/ StopConnecting \/ Disconnect
             \/ ConnectionLost \/ LeaveError
    <3>1. curMode' \in {"normal", "scan", "cannotconnect"}
      BY <2>1 DEF StayIdle, StartScan, NoWfcKey, StopScan, StopConnecting, Disconnect, ConnectionLost,
                  LeaveError, GoIdle, modeVars
    <3>2. QED
      BY <3>1 DEF MemberInv
  <2>2. CASE StartConnecting
    BY <2>2 DEF StartConnecting, MemberInv
  <2>3. CASE AssociationUpdate
    BY <2>3 DEF AssociationUpdate, MemberInv, hwVars, modeVars
  <2>4. CASE ConnectingEnds \/ \E ap \in aplist : ForgetAp(ap)
    <3>1. /\ UNCHANGED <<authlevel, rxfilter, aid, bssid, member, missed, req, air>>
          /\ curMode' \in {"connecting", "connected"} => curMode \in {"connecting", "connected"}
      BY <2>4 DEF ConnectingEnds, ForgetAp, authVars, hwVars, netVars
    <3>2. QED
      BY <3>1 DEF MemberInv, Counted, Unsettled
  <2>5. QED
    BY <2>1, <2>2, <2>3, <2>4 DEF Update
<1>8. QED
  BY <1>2, <1>4, <1>5, <1>6, <1>7 DEF TypeOK, Arm9OK, ModesOK, AuthOK, HwOK, NetOK, Requests

(* The ARM9: requests, the search and the reports                           *)
LEMMA Arm9Keeps ==
  ASSUME StationInv, Poll \/ GotAddress \/ Application
  PROVE  StationInv'
<1> USE TypeParts DEF StationInv
<1>1. UNCHANGED <<curMode, aplist, authVars, hwVars, netVars>>
  BY DEF Poll, GotAddress, Application, ScanMode, FoundAp, AssocStatus, ConnectAP, AutoConnect, DisconnectAP, modeVars
<1>2. AuthOK' /\ HwOK' /\ NetOK'
  BY <1>1 DEF AuthOK, HwOK, NetOK, authVars, hwVars, netVars
<1>3. MemberInv'
  BY <1>1 DEF MemberInv, Counted, Unsettled, authVars, hwVars, netVars
<1>4. ModesOK' /\ ChosenInv'
  <2>1. CASE FoundAp
    <3>1. curAp' \in aplist /\ reqMode' = "connected" /\ UNCHANGED loadWfcKey
      BY <2>1 DEF FoundAp, Candidates
    <3>2. QED
      BY <1>1, <3>1 DEF ModesOK, ChosenInv
  <2>2. CASE AssocStatus \/ GotAddress
    BY <1>1, <2>2 DEF AssocStatus, GotAddress, ModesOK, ChosenInv, modeVars
  <2>3. CASE ScanMode \/ AutoConnect \/ DisconnectAP
    BY <1>1, <2>3 DEF ScanMode, AutoConnect, DisconnectAP, ModesOK, ChosenInv
  <2>4. ASSUME NEW ap \in InRange[place], NEW wfc \in BOOLEAN, ConnectAP(ap, wfc) PROVE ModesOK' /\ ChosenInv'
    BY <1>1, <2>4 DEF ConnectAP, ModesOK, ChosenInv
  <2>5. QED
    BY <2>1, <2>2, <2>3, <2>4 DEF Poll, Application
<1>5. Arm9OK'
  <2>1. place \in Place /\ UNCHANGED place /\ MaxCalls[place] \in Nat
    BY <1>1, StationAssumption DEF NetOK, netVars
  <2>2. CASE Application
    <3>1. calls' \in 0 .. MaxCalls[place]'
      <4>1. Call
        BY <2>2 DEF Application, ConnectAP, AutoConnect, DisconnectAP
      <4>2. QED
        BY <2>1, <4>1 DEF Call, Arm9OK
    <3>2. connect_point' \in Ap \cup {NoAp}
      <4>1. InRange[place] \subseteq Ap
        BY <2>1, StationAssumption
      <4>2. QED
        BY <2>2, <4>1 DEF Application, ConnectAP, AutoConnect, DisconnectAP, Arm9OK
    <3>3. /\ connect_state' \in {"error", "searching", "searching_wfc"}
          /\ pc9' \in {"app", "scan"}
      BY <2>2 DEF Application, ConnectAP, AutoConnect, DisconnectAP, Arm9OK
    <3>4. QED
      BY <3>1, <3>2, <3>3 DEF Arm9OK
  <2>3. CASE ScanMode \/ FoundAp \/ GotAddress
    BY <2>1, <2>3 DEF ScanMode, FoundAp, GotAddress, Arm9OK
  <2>4. CASE AssocStatus
    <3>1. NextState \in {"error", "searching", "searching_wfc", "associating", "dhcping", "done"}
      <4>1. CASE connect_state # "associating"
        BY <4>1 DEF NextState, Arm9OK
      <4>2. CASE connect_state = "associating"
        <5>1. curMode \in {"normal", "scan", "connecting", "connected", "cannotconnect"}
          BY DEF ModesOK
        <5>2. QED
          BY <4>2, <5>1 DEF NextState
      <4>3. QED
        BY <4>1, <4>2
    <3>2. QED
      BY <2>1, <2>4, <3>1 DEF AssocStatus, Arm9OK
  <2>5. QED
    BY <2>2, <2>3, <2>4 DEF Poll
<1>6. QED
  BY <1>2, <1>3, <1>4, <1>5 DEF TypeOK, Arm9OK, ModesOK, AuthOK, HwOK, NetOK, Requests

(* The access points and the air                                            *)
LEMMA NetworkKeeps ==
  ASSUME StationInv,
         Network \/ (\E f \in air : DropFrame(f)) \/ (\E ap \in Ap : ProcessBeacon(ap))
  PROVE  StationInv'
<1> USE TypeParts DEF StationInv
<1>1. UNCHANGED <<arm9Vars, reqMode, curMode, curAp, loadWfcKey, authVars, hwVars, place>>
  BY DEF Network, Answer, Deauthenticate, DropFrame, ProcessBeacon, modeVars, netVars
<1>2. Arm9OK' /\ AuthOK' /\ HwOK' /\ ChosenInv'
  BY <1>1 DEF Arm9OK, AuthOK, HwOK, ChosenInv, arm9Vars, authVars, hwVars
<1>3. ModesOK'
  <2>1. ASSUME NEW ap \in Ap, ProcessBeacon(ap) PROVE aplist' \subseteq Ap
    BY <2>1 DEF ProcessBeacon, ModesOK
  <2>2. aplist' \subseteq Ap
    BY <2>1 DEF Network, Answer, Deauthenticate, DropFrame, modeVars, ModesOK
  <2>3. QED
    BY <1>1, <2>2 DEF ModesOK
<1>4. NetOK'
  <2>1. ASSUME NEW r \in req, Answer(r) PROVE NetOK'
    <3>1. r \in Requests
      BY DEF NetOK
    <3>2. Answers(r) \in Frames
      BY <3>1 DEF Answers, Frames, Requests
    <3>3. req' \subseteq req /\ air' = air \cup {Answers(r)} /\ UNCHANGED <<place, missed, deauths>>
      BY <2>1 DEF Answer
    <3>4. member' \subseteq Ap
      BY <2>1, <3>1 DEF Answer, Requests, NetOK
    <3>5. QED
      BY <3>2, <3>3, <3>4 DEF NetOK
  <2>2. ASSUME NEW ap \in Ap, NEW reason \in Deauths, Deauthenticate(ap, reason) PROVE NetOK'
    <3>1. [from |-> ap, kind |-> "deauth", status |-> reason] \in Frames
      BY StationAssumption DEF Frames
    <3>2. deauths' \in 0 .. MaxDeauths
      BY <2>2, StationAssumption DEF Deauthenticate, NetOK
    <3>3. air' \subseteq Frames /\ member' \subseteq Ap /\ UNCHANGED <<place, req, missed>>
      BY <2>2, <3>1 DEF Deauthenticate, NetOK
    <3>4. QED
      BY <3>2, <3>3 DEF NetOK
  <2>3. ASSUME NEW f \in air, DropFrame(f) PROVE NetOK'
    <3>1. missed' \in BOOLEAN
      BY <2>3 DEF DropFrame
    <3>2. air' \subseteq Frames /\ UNCHANGED <<place, req, member, deauths>>
      BY <2>3 DEF DropFrame, Take, NetOK
    <3>3. QED
      BY <3>1, <3>2 DEF NetOK
  <2>4. ASSUME NEW ap \in Ap, ProcessBeacon(ap) PROVE NetOK'
    BY <2>4 DEF ProcessBeacon, netVars, NetOK
  <2>5. QED
    BY <2>1, <2>2, <2>3, <2>4 DEF Network
<1>5. MemberInv'
  <2>1. UNCHANGED <<curMode, rxfilter, authlevel, aid, bssid>>
    BY <1>1 DEF authVars, hwVars
  <2>2. ASSUME NEW r \in req, Answer(r), Counted PROVE Counted'
    <3>1. r \in Requests
      BY DEF NetOK
    <3>2. /\ req' = req \ {r} /\ air' = air \cup {Answers(r)} /\ UNCHANGED missed
          /\ Answers(r).from = r.to /\ Answers(r).kind = r.kind /\ member \subseteq member'
          /\ r.kind = "assoc" /\ Answers(r).status = "success" => r.to \in member'
      BY <2>2 DEF Answer, Answers
    <3>3. CASE r.to = bssid /\ r.kind = "assoc"
      BY <2>1, <3>2, <3>3 DEF Counted, Unsettled
    <3>4. CASE ~ (r.to = bssid /\ r.kind = "assoc")
      BY <2>1, <2>2, <3>2, <3>4 DEF Counted, Unsettled
    <3>5. QED
      BY <3>3, <3>4
  <2>3. ASSUME NEW ap \in Ap, NEW reason \in Deauths, Deauthenticate(ap, reason), Counted PROVE Counted'
    <3> DEFINE g == [from |-> ap, kind |-> "deauth", status |-> reason]
    <3>1. air' = air \cup {g} /\ member' = member \ {ap} /\ UNCHANGED <<req, missed>>
      BY <2>3 DEF Deauthenticate
    <3>2. g.from = ap /\ g.kind = "deauth"
      OBVIOUS
    <3> HIDE DEF g
    <3>3. CASE ap = bssid
      BY <2>1, <3>1, <3>2, <3>3 DEF Counted, Unsettled
    <3>4. CASE ap # bssid
      BY <2>1, <2>3, <3>1, <3>4 DEF Counted, Unsettled
    <3>5. QED
      BY <3>3, <3>4
  <2>4. ASSUME NEW f \in air, DropFrame(f), Counted, rxfilter = "station" PROVE Counted'
    <3>1. /\ air \ {f} \subseteq air' /\ UNCHANGED <<req, member>>
          /\ missed \/ Passes(f) => missed'
      BY <2>4 DEF DropFrame, Take
    <3>2. CASE f.from = bssid
      BY <2>4, <3>1, <3>2 DEF Passes, Counted
    <3>3. CASE f.from # bssid
      BY <2>1, <2>4, <3>1, <3>3 DEF Counted, Unsettled
    <3>4. QED
      BY <3>2, <3>3
  <2>5. ASSUME NEW ap \in Ap, ProcessBeacon(ap), Counted PROVE Counted'
    BY <2>1, <2>5 DEF ProcessBeacon, Counted, Unsettled, netVars
  <2>6. Counted /\ rxfilter = "station" => Counted'
    BY <2>2, <2>3, <2>4, <2>5 DEF Network
  <2>7. QED
    BY <2>1, <2>6 DEF MemberInv
<1>6. QED
  BY <1>2, <1>3, <1>4, <1>5 DEF TypeOK, Arm9OK, ModesOK, AuthOK, HwOK, NetOK, Requests

-----------------------------------------------------------------------------

LEMMA StationInitial ==
  ASSUME Init
  PROVE  StationInv
<1>1. place \in Place /\ MaxCalls[place] \in Nat
  BY StationAssumption DEF Init
<1>2. Arm9OK
  <2>1. calls \in 0 .. MaxCalls[place]
    BY <1>1 DEF Init
  <2>2. QED
    BY <2>1 DEF Init, Arm9OK
<1>3. ModesOK
  BY DEF Init, ModesOK
<1>4. AuthOK /\ HwOK
  <2>1. 0 \in 0 .. 255
    OBVIOUS
  <2>2. AuthOK
    BY <2>1, Zenon DEF Init, AuthOK
  <2>3. HwOK
    BY DEF Init, HwOK
  <2>4. QED
    BY <2>2, <2>3
<1>5. NetOK
  <2>1. deauths \in 0 .. MaxDeauths
    BY StationAssumption DEF Init
  <2>2. QED
    BY <1>1, <2>1 DEF Init, NetOK
<1>6. ChosenInv /\ MemberInv
  BY DEF Init, ChosenInv, MemberInv
<1>7. QED
  BY <1>2, <1>3, <1>4, <1>5, <1>6, TypeParts DEF StationInv

LEMMA StationStep ==
  ASSUME StationInv, [Next]_vars
  PROVE  StationInv'
<1>1. ASSUME NEW f \in air, Receive(f) PROVE StationInv'
  BY <1>1, AuthenticationKeeps, AssociationKeeps, DeauthenticationKeeps, NetworkKeeps DEF Receive
<1>2. CASE UNCHANGED vars
  BY <1>2 DEF StationInv, TypeOK, ChosenInv, MemberInv, Counted, Unsettled, vars, arm9Vars, modeVars, authVars, hwVars, netVars
<1>3. QED
  BY <1>1, <1>2, UpdateKeeps, Arm9Keeps, NetworkKeeps DEF Next

(* While the ARM7 is connecting or connected, "associated" means that the   *)
(* access point in W_BSSID gave the console the AID in W_AID_FULL and, by   *)
(* its own record, counts on it, unless something that settles it is on its *)
(* way or lost, or was ignored after a change of curAp.  Frames may be      *)
(* late, lost or repeated, and the ARM9 may change reqMode at any time.     *)
THEOREM StationIsMember == Spec => []AssociatedIsMember
<1>1. Init => StationInv
  BY StationInitial
<1>2. StationInv /\ [Next]_vars => StationInv'
  BY StationStep
<1>3. StationInv => AssociatedIsMember
  BY DEF StationInv, MemberInv, Counted, AssociatedIsMember
<1>4. QED
  BY <1>1, <1>2, <1>3, PTL DEF Spec

=============================================================================
