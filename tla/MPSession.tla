----------------------------- MODULE MPSession -----------------------------
(***************************************************************************)
(* A multiplayer session: the host of module MPHost and the consoles that  *)
(* join it, with the frames between them.  The host answers each request,  *)
(* says goodbye to those it drops and hands the packets of its clients to  *)
(* the application (src/source/arm9/ntr/multiplayer.c).  A console follows *)
(* the client half of src/source/arm7/ntr: update.c, authentication.c and  *)
(* association.c (see Station for the search and for access points).       *)
(*                                                                         *)
(* Frames of one sender to one receiver stay in order: an ARM7 sends its   *)
(* management frames in order (TxQueue) and handles frames in order.  They *)
(* may be late, so that the timer of a console runs out, and may be lost,  *)
(* in the air or because the one-frame queue of the sender is full.        *)
(***************************************************************************)
EXTENDS MPHost, Sequences

CONSTANTS
  WIFI_MAX_ASSOC_RETRY,
  MaxQueue,   \* bound on frames on their way in one direction: a sender that
              \* finds this many waits
  MaxLost,    \* bound on frames lost
  MaxPackets, \* bound on packets in rxbufData of the host
  MaxCalls    \* bound on the calls of all applications

ASSUME SessionAssumption ==
  /\ WIFI_MAX_ASSOC_RETRY \in Nat
  /\ MaxQueue \in Nat \ {0} /\ MaxLost \in Nat /\ MaxPackets \in Nat /\ MaxCalls \in Nat

VARIABLES
  station,    \* the consoles; hears: W_BSSID and the filter let the host through
  toHost,     \* their frames to the host: "auth", "assoc" or "deauth"
  toStation,  \* the frames of the host to them
  lost,       \* frames lost so far
  calls,      \* calls of applications so far
  rxbuf,      \* rxbufData of the host: packets with the AID in their header
  given,      \* history: the packet given to the host's application, until
              \* the next one arrives
  player,     \* history: the console that was told each AID last
  apart       \* history: consoles one of whose frames got lost, or that
              \* stopped without saying so, since they began to connect

airVars == <<toHost, toStation, lost>>
packetVars == <<rxbuf, given, player>>
sessionVars == <<vars, station, airVars, calls, packetVars, apart>>

NoPacket == [from |-> NoMac, aid |-> 0]

SessionInit ==
  /\ Init
  /\ station = [m \in Mac |-> [reqMode |-> "normal", curMode |-> "normal",
                               authlevel |-> "disconnected", authctr |-> 0, realRates |-> TRUE,
                               curClientAID |-> 0, hears |-> FALSE]]
  /\ toHost = [m \in Mac |-> <<>>]
  /\ toStation = [m \in Mac |-> <<>>]
  /\ lost = 0
  /\ calls = 0
  /\ rxbuf = <<>>
  /\ given = NoPacket
  /\ player = [aid \in Aids |-> NoMac]
  /\ apart = {}

-----------------------------------------------------------------------------
(* A console: frames received *)

Become(m, s) == station' = [station EXCEPT ![m] = s]

(* What a frame f makes of console s, and what it sends: <<s', frames>> *)
AuthReply(s, f) ==
  IF f.status = "full" THEN <<[s EXCEPT !.authlevel = "error"], <<>>>>
  ELSE IF s.authlevel = "disconnected"
         THEN <<[s EXCEPT !.authlevel = "authenticated", !.authctr = 0], <<"assoc">>>>
         ELSE <<s, <<>>>>

AssocReply(s, f) ==
  IF f.status = "success"
    THEN LET t == [s EXCEPT !.curClientAID = f.aid] IN
         <<IF s.authlevel = "authenticated"
             THEN [t EXCEPT !.authlevel = "associated", !.authctr = 0] ELSE t, <<>>>>
    ELSE IF s.realRates
           THEN <<[s EXCEPT !.realRates = FALSE, !.authlevel = "disconnected"], <<"auth">>>>
           ELSE <<[s EXCEPT !.authlevel = "error"], <<>>>>

(* Every reason a DSWifi host gives tells the client not to come back. *)
Goodbye(s) ==
  <<[s EXCEPT !.authlevel = "error", !.hears = FALSE, !.curClientAID = 0], <<>>>>

Handled(s, f) ==
  CASE ~ s.hears -> <<s, <<>>>>
    [] s.hears /\ f.kind = "auth" -> AuthReply(s, f)
    [] s.hears /\ f.kind = "assoc" -> AssocReply(s, f)
    [] s.hears /\ f.kind = "deauth" -> Goodbye(s)

StationHears(m) ==
  /\ toStation[m] # <<>>
  /\ LET h == Handled(station[m], Head(toStation[m])) IN
     /\ Become(m, h[1])
     /\ toHost' = [toHost EXCEPT ![m] = @ \o h[2]]
  /\ toStation' = [toStation EXCEPT ![m] = Tail(@)]
  /\ UNCHANGED <<vars, lost, calls, packetVars, apart>>

-----------------------------------------------------------------------------
(* A console: Wifi_NTR_Update, and the requests of its application *)

Call == calls < MaxCalls /\ calls' = calls + 1
Room(m) == Len(toHost[m]) < MaxQueue
Sends(m, k) == Room(m) /\ toHost' = [toHost EXCEPT ![m] = Append(@, k)]

(* The application connects or gives up *)
Requests(m) ==
  /\ Become(m, [station[m] EXCEPT !.reqMode = IF @ = "normal" THEN "connected" ELSE "normal"])
  /\ Call
  /\ UNCHANGED <<vars, airVars, packetVars, apart>>

(* WIFIMODE_NORMAL, with Wifi_AssociationStart *)
Connects(m) ==
  LET s == station[m] IN
  /\ s.curMode = "normal" /\ s.reqMode = "connected"
  /\ Become(m, [s EXCEPT !.curMode = "connecting", !.hears = TRUE, !.realRates = TRUE,
                         !.authctr = 0, !.authlevel = "disconnected"])
  /\ Sends(m, "auth")
  /\ apart' = apart \ {m}
  /\ UNCHANGED <<vars, toStation, lost, calls, packetVars>>

(* WIFIMODE_CONNECTING: stop, without a word to the host *)
StopsConnecting(m) ==
  LET s == station[m] IN
  /\ s.curMode = "connecting" /\ s.reqMode = "normal"
  /\ Become(m, [s EXCEPT !.curMode = "normal", !.hears = FALSE])
  /\ apart' = apart \cup {m}
  /\ UNCHANGED <<vars, airVars, calls, packetVars>>

(* WIFIMODE_CONNECTING and WIFIMODE_CONNECTED: authlevel decides *)
Settles(m) ==
  LET s == station[m] IN
  /\ s.reqMode = "connected"
  /\ \/ /\ s.curMode = "connecting" /\ s.authlevel = "associated"
        /\ Become(m, [s EXCEPT !.curMode = "connected"])
     \/ /\ s.curMode \in {"connecting", "connected"} /\ s.authlevel = "error"
        /\ Become(m, [s EXCEPT !.curMode = "cannotconnect"])
  /\ UNCHANGED <<vars, airVars, calls, packetVars, apart>>

(* Faulty variant: authlevel is not reset *)
RetriesInPlace(m) ==
  LET s == station[m] IN
  /\ s.curMode = "connecting" /\ s.reqMode = "connected"
  /\ s.authlevel \notin {"associated", "error"}
  /\ s.authctr < WIFI_MAX_ASSOC_RETRY
  /\ Become(m, [s EXCEPT !.authctr = @ + 1])
  /\ Sends(m, "auth")
  /\ UNCHANGED <<vars, toStation, lost, calls, packetVars, apart>>

(* WIFIMODE_CONNECTING: Wifi_AssociationUpdate, after a second *)
Retries(m) ==
  LET s == station[m]
      r == [s EXCEPT !.authctr = @ + 1]
  IN
  /\ s.curMode = "connecting" /\ s.reqMode = "connected"
  /\ s.authlevel \notin {"associated", "error"}
  /\ IF r.authctr > WIFI_MAX_ASSOC_RETRY
       THEN Become(m, [r EXCEPT !.authlevel = "error"]) /\ UNCHANGED toHost
       ELSE /\ Become(m, [r EXCEPT !.authlevel = "disconnected",
                                   !.realRates = @ \/ s.authlevel = "authenticated"])
            /\ Sends(m, "auth")
  /\ UNCHANGED <<vars, toStation, lost, calls, packetVars, apart>>

(* WIFIMODE_CONNECTED: leave *)
Leaves(m) ==
  LET s == station[m] IN
  /\ s.curMode = "connected" /\ s.reqMode = "normal"
  /\ Become(m, [s EXCEPT !.curMode = "normal", !.hears = FALSE, !.curClientAID = 0])
  /\ Sends(m, "deauth")
  /\ UNCHANGED <<vars, toStation, lost, calls, packetVars, apart>>

(* WIFIMODE_CANNOTCONNECT *)
LeavesError(m) ==
  LET s == station[m] IN
  /\ s.curMode = "cannotconnect" /\ s.reqMode = "normal"
  /\ Become(m, [s EXCEPT !.curMode = "normal", !.hears = FALSE])
  /\ UNCHANGED <<vars, airVars, calls, packetVars, apart>>

-----------------------------------------------------------------------------
(* The host: received frames, and what it answers *)

Taken(m) == toHost' = [toHost EXCEPT ![m] = Tail(@)]
Answers(m, fs) ==
  /\ Len(toStation[m]) < MaxQueue
  /\ toStation' = [toStation EXCEPT ![m] = @ \o fs]

AuthAnswer(m) ==
  [kind |-> "auth", aid |-> 0,
   status |-> IF reqAllow /\ SlotsOf(m) \cup Empty # {} THEN "success" ELSE "full"]

(* A console that is not in the table is refused twice: once for that       *)
(* reason, without a return, and once because it cannot associate.          *)
AssocAnswers(m) ==
  LET f == [kind |-> "assoc", aid |-> AssociateResult(m),
            status |-> IF AssociateResult(m) # 0 THEN "success" ELSE "denied"]
  IN  IF SlotsOf(m) = {} THEN <<f, f>> ELSE <<f>>

HostHears(m) ==
  /\ toHost[m] # <<>>
  /\ CASE Head(toHost[m]) = "auth" ->
            /\ ProcessAuthentication(m)
            /\ UNCHANGED player
            /\ Answers(m, <<AuthAnswer(m)>>)
       [] Head(toHost[m]) = "assoc" ->
            /\ ProcessAssocRequest(m)
            /\ player' = [aid \in Aids |-> IF aid = AssociateResult(m) THEN m ELSE player[aid]]
            /\ Answers(m, AssocAnswers(m))
       [] Head(toHost[m]) = "deauth" ->
            ProcessDeauthentication(m) /\ UNCHANGED <<toStation, player>>
  /\ Taken(m)
  /\ UNCHANGED <<station, lost, calls, rxbuf, given, apart>>

(* Outside of host mode the frames of clients are ignored. *)
HostIgnores(m) ==
  /\ toHost[m] # <<>>
  /\ curMode # "host"
  /\ Taken(m)
  /\ UNCHANGED <<vars, station, toStation, lost, calls, packetVars, apart>>

(* The host: Wifi_NTR_Update, and Wifi_MPHost_SendDeauthentication *)
Dismiss(S) ==
  /\ \A m \in S : Len(toStation[m]) < MaxQueue
  /\ toStation' = [m \in Mac |-> IF m \notin S THEN toStation[m] ELSE
                     Append(toStation[m], [kind |-> "deauth", aid |-> 0, status |-> "left"])]

Dismissed ==
  {list[a].macaddr : a \in IF BeaconAllows /\ ~ reqAllow THEN Joining ELSE {}}

HostUpdates ==
  /\ \/ KickAll /\ Dismiss(Mac)
     \/ KickByAID /\ Dismiss({list[a].macaddr : a \in {b \in {First(mask)} : Kickable(b)}})
     \/ UpdateAllow /\ Dismiss(Dismissed)
     \/ /\ \/ EnterHostMode \/ StayNormal \/ LeaveHostMode \/ ReadKickMask \/ ClearKickMask
           \/ FinishKick \/ KicksDone \/ FlushBeacon \/ FlushOther
        /\ UNCHANGED toStation
  /\ UNCHANGED <<station, toHost, lost, calls, packetVars, apart>>

(* The application of the host; what only reads the table is in MPHost. *)
HostApp ==
  /\ \/ /\ \/ \E max \in HostSizes : MultiplayerHostMode(max)
           \/ IdleMode
           \/ BeaconStart
           \/ \E allow \in BOOLEAN : AllowNewClients(allow)
           \/ \E aid \in KickAids : KickClientByAID(aid)
        /\ Call
     \/ StoreKickMask /\ UNCHANGED calls
  /\ UNCHANGED <<station, airVars, packetVars, apart>>

-----------------------------------------------------------------------------
(* Packets.  A console writes the AID it has when it queues a packet, also  *)
(* when it is not connected; what passes until the host's ARM9 handles the  *)
(* packet is spent in rxbuf.                                                *)

SendPacket(m) ==
  /\ curMode = "host"
  /\ Len(rxbuf) < MaxPackets
  /\ rxbuf' = Append(rxbuf, [from |-> m, aid |-> station[m].curClientAID])
  /\ given' = NoPacket
  /\ UNCHANGED <<vars, station, airVars, calls, player, apart>>

(* Wifi_MultiplayerHandlePacketFromClient: an AID of 0 is refused at once *)
RefusePacket ==
  /\ rxbuf # <<>> /\ InApp
  /\ Head(rxbuf).aid = 0
  /\ rxbuf' = Tail(rxbuf)
  /\ UNCHANGED <<vars, station, airVars, calls, given, player, apart>>

CheckPacket ==
  /\ rxbuf # <<>>
  /\ Head(rxbuf).aid # 0
  /\ LockAndCheck(Head(rxbuf).aid)
  /\ rxbuf' = IF Head(rxbuf).aid > curMaxClients THEN Tail(rxbuf) ELSE rxbuf
  /\ UNCHANGED <<station, airVars, calls, given, player, apart>>

(* Faulty variant: the AID alone is checked *)
MatchesAID(p) == list[p.aid].state = "associated"

MatchesMacAndAID(p) == list[p.aid].state = "associated" /\ list[p.aid].macaddr = p.from

HandlePacket ==
  /\ LookedUp
  /\ rxbuf' = Tail(rxbuf)
  /\ given' = IF MatchesMacAndAID(Head(rxbuf)) THEN Head(rxbuf) ELSE NoPacket
  /\ UNCHANGED <<station, airVars, calls, player, apart>>

-----------------------------------------------------------------------------
(* External: a frame gets lost *)
Lose(m) ==
  /\ lost < MaxLost
  /\ lost' = lost + 1
  /\ apart' = apart \cup {m}
  /\ \/ /\ toHost[m] # <<>> /\ Taken(m) /\ UNCHANGED toStation
     \/ /\ toStation[m] # <<>> /\ toStation' = [toStation EXCEPT ![m] = Tail(@)]
        /\ UNCHANGED toHost
  /\ UNCHANGED <<vars, station, calls, packetVars>>

Console(m) ==
  \/ StationHears(m)
  \/ Requests(m)
  \/ Connects(m)
  \/ StopsConnecting(m)
  \/ Settles(m)
  \/ Retries(m)
  \/ Leaves(m)
  \/ LeavesError(m)
  \/ SendPacket(m)

Host ==
  \/ \E m \in Mac : HostHears(m) \/ HostIgnores(m)
  \/ HostUpdates
  \/ HostApp
  \/ RefusePacket
  \/ CheckPacket
  \/ HandlePacket

SessionNext == Host \/ \E m \in Mac : Console(m) \/ Lose(m)

SessionSpec == SessionInit /\ [][SessionNext]_sessionVars

-----------------------------------------------------------------------------
(* Properties *)

(* The consoles and the frames have their types. *)
SessionTypeOK ==
  /\ station \in [Mac -> [reqMode : {"normal", "connected"},
                          curMode : {"normal", "connecting", "connected", "cannotconnect"},
                          authlevel : {"disconnected", "authenticated", "associated", "error"},
                          authctr : 0 .. WIFI_MAX_ASSOC_RETRY + 2, realRates : BOOLEAN,
                          curClientAID : 0 .. MaxClients, hears : BOOLEAN]]
  /\ lost \in 0 .. MaxLost /\ calls \in 0 .. MaxCalls
  /\ rxbuf \in Seq([from : Mac, aid : 0 .. MaxClients])
  /\ given \in [from : Mac \cup {NoMac}, aid : 0 .. MaxClients]
  /\ player \in [Aids -> Mac \cup {NoMac}]
  /\ apart \subseteq Mac

Quiet(m) == toHost[m] = <<>> /\ toStation[m] = <<>>

(* When no frame is on its way between the host and a console that is       *)
(* connected or still trying, and none got lost since it began to connect,  *)
(* both think the same: it is a client, with the AID the host keeps for it, *)
(* or it is none.                                                           *)
Agreement ==
  /\ SessionTypeOK
  /\ \A m \in Mac :
       Quiet(m) /\ m \notin apart /\ station[m].hears /\ station[m].authlevel # "error" =>
         told[m] = IF station[m].authlevel = "associated" THEN station[m].curClientAID ELSE 0

(* A packet is given to the host's application as from the player with      *)
(* number k only if its sender is the console that was told k last, although *)
(* packets, goodbyes and answers may be late or lost and slots pass from     *)
(* one console to another.                                                   *)
RightSender ==
  [][given' \notin {given, NoPacket} => player'[given'.aid] = given'.from]_sessionVars

=============================================================================
