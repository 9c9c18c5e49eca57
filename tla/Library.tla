------------------------------ MODULE Library ------------------------------
(***************************************************************************)
(* Starting and stopping the library: Wifi_InitDefault and Wifi_Deinit of  *)
(* src/source/arm9/ipc.c with the handlers of the ARM7 (src/source/arm7:   *)
(* ipc.c, setup.c, update.c), and who takes received frames out of         *)
(* rxbufData on the ARM9.  Between start and stop the library does what    *)
(* module Netif says.                                                      *)
(*                                                                         *)
(* The processors exchange messages through a FIFO that keeps their order  *)
(* (external).  A struct WifiData is its number in the order of            *)
(* allocation.  The application does not stop the library once lwIP runs,  *)
(* which wifi_lwip_deinit and the documentation forbid.                    *)
(***************************************************************************)
EXTENDS Netif

CONSTANTS
  Builds,     \* of the ARM9 library: "lwip", "noip" or both
  LocalOnly,  \* the builds whose applications may pass WIFI_LOCAL_ONLY
  NestedIrq,  \* the ARM7 takes VBlank interrupts inside its FIFO handler
  Batch,      \* frames handled by one Wifi_Update of the ARM9; 22 in the code
  MaxStarts,  \* bound on Wifi_InitDefault
  MaxFrames   \* bound on multiplayer frames received

ASSUME LibraryAssumption ==
  /\ Builds \subseteq {"lwip", "noip"} /\ LocalOnly \subseteq Builds
  /\ NestedIrq \in BOOLEAN
  /\ Batch \in Nat \ {0} /\ MaxStarts \in Nat /\ MaxFrames \in Nat

VARIABLES
  build,
  app,             \* "off", "starting", "on" or "stopping"
  starts,          \* structs allocated so far
  WifiDataCached,  \* ARM9: the struct allocated, 0 for none
  handler,         \* ARM9: wifiValue32Handler is installed
  WifiData7,       \* ARM7: its struct, 0 for NULL
  arm7,            \* where its FIFO handler is
  active,          \* WFLAG_ARM7_ACTIVE in the last struct
  fifo,            \* messages to the ARM7
  frames,          \* multiplayer frames in rxbufData
  received,        \* their number since the program began
  syncs            \* WIFI_SYNC messages to the ARM9

lifeVars == <<build, app, starts, WifiDataCached, handler, WifiData7, arm7, active, fifo>>
frameVars == <<frames, received, syncs>>
vars == <<netifVars, lifeVars, frameVars>>

Init ==
  /\ NetifInit
  /\ build \in Builds
  /\ app = "off" /\ starts = 0 /\ WifiDataCached = 0 /\ handler = FALSE
  /\ WifiData7 = 0 /\ arm7 = "idle" /\ active = FALSE /\ fifo = <<>>
  /\ frames = 0 /\ received = 0 /\ syncs = 0

-----------------------------------------------------------------------------
(* ARM9: Wifi_InitDefault *)

(* Wifi_InitIPC up to the wait: the struct is cleared before it is sent *)
InitIPC(local) ==
  /\ app = "off"
  /\ local => build \in LocalOnly
  /\ starts < MaxStarts
  /\ starts' = starts + 1
  /\ WifiDataCached' = starts + 1
  /\ active' = FALSE
  /\ reqMode' = "disabled" /\ curMode' = "disabled"
  /\ reqLibraryMode' = IF local THEN "client" ELSE "internet"
  /\ curLibraryMode' = "internet"
  /\ curAp' = NoAddr
  /\ frames' = 0 /\ rx' = <<>>
  /\ fifo' = Append(fifo, [m |-> "address", of |-> starts + 1])
  /\ app' = "starting"
  /\ UNCHANGED <<build, handler, WifiData7, arm7, appVars, net, fresh, linkVars, addrVars,
                 dhcp, tries, asked, inputs, received, syncs>>

Arm7Ready == active

(* The rest, wifi_lwip_init included, which starts the thread that handles  *)
(* frames; WIFI_LOCAL_ONLY is remembered in reqLibraryMode.  What           *)
(* WFC_CONNECT does after this is AutoConnect of Netif.                     *)
InitDefault ==
  /\ app = "starting"
  /\ Arm7Ready
  /\ wifi_lwip_enabled' = (build = "lwip" /\ reqLibraryMode = "internet")
  /\ dswifi_link_is_up' = FALSE
  /\ dswifi_use_dhcp' = TRUE
  /\ syncs' = 0
  /\ handler' = TRUE
  /\ app' = "on"
  /\ UNCHANGED <<build, starts, WifiDataCached, WifiData7, arm7, active, fifo, appVars, reqVars,
                 arm7Vars, addrVars, dhcpVars, inputs, frames, received>>

(* ARM9: Wifi_Deinit *)
Deinit ==
  /\ app = "on"
  /\ ~ wifi_lwip_enabled
  /\ reqMode = "disabled" /\ curMode = "disabled"
  /\ handler' = FALSE
  /\ fifo' = Append(fifo, [m |-> "deinit", of |-> 0])
  /\ app' = "stopping"
  /\ UNCHANGED <<build, starts, WifiDataCached, WifiData7, arm7, active, netifVars, frameVars>>

(* Faulty variant: the struct is freed at once *)
StoppedAtOnce == TRUE

Arm7Stopped == ~ active

Free ==
  /\ app = "stopping"
  /\ Arm7Stopped
  /\ WifiDataCached' = 0
  /\ app' = "off"
  /\ UNCHANGED <<build, starts, handler, WifiData7, arm7, active, fifo, netifVars, frameVars>>

(* ARM9: what is sent asks the ARM7 for an update (Wifi_CallSyncHandler) *)
CallSync ==
  /\ app = "on"
  /\ Input
  /\ fifo' = Append(fifo, [m |-> "sync", of |-> 0])
  /\ UNCHANGED <<build, app, starts, WifiDataCached, handler, WifiData7, arm7, active, appVars,
                 reqVars, netVars, frameVars>>

-----------------------------------------------------------------------------
(* ARM7: wifiAddressHandler and wifiValue32Handler *)

arm9Vars == <<build, app, starts, WifiDataCached, handler, netifVars, frameVars>>

TakeMessage ==
  /\ fifo # <<>> /\ arm7 = "idle"
  /\ fifo' = Tail(fifo)
  /\ CASE Head(fifo).m = "address" -> WifiData7' = Head(fifo).of /\ arm7' = "init"
       [] Head(fifo).m = "deinit" -> arm7' = "deinit" /\ UNCHANGED WifiData7
       [] Head(fifo).m = "sync" -> UNCHANGED <<WifiData7, arm7>>  \* Wifi_Update
  /\ UNCHANGED <<active, arm9Vars>>

(* Wifi_Init, after the hardware has been set up *)
Arm7Init ==
  /\ arm7 = "init"
  /\ active' = TRUE
  /\ arm7' = "idle"
  /\ UNCHANGED <<fifo, WifiData7, arm9Vars>>

(* Faulty variant: the ARM9 is not told *)
StopSilently ==
  /\ arm7 = "deinit"
  /\ arm7' = "forget"
  /\ UNCHANGED <<active, fifo, WifiData7, arm9Vars>>

(* Wifi_Deinit: the flag is cleared before the pointer *)
Arm7Deinit ==
  /\ arm7 = "deinit"
  /\ active' = FALSE
  /\ arm7' = "forget"
  /\ UNCHANGED <<fifo, WifiData7, arm9Vars>>

Forget ==
  /\ arm7 = "forget"
  /\ WifiData7' = 0
  /\ arm7' = "idle"
  /\ UNCHANGED <<active, fifo, arm9Vars>>

-----------------------------------------------------------------------------
(* Frames for multiplayer games *)

(* The ARM7 stores a frame and sends WIFI_SYNC *)
FrameReceived ==
  /\ WifiData7 # 0 /\ arm7 = "idle"
  /\ curLibraryMode \in {"client", "host"} /\ curMode \in {"connected", "accesspoint"}
  /\ received < MaxFrames
  /\ received' = received + 1
  /\ frames' = frames + 1
  /\ syncs' = syncs + 1
  /\ UNCHANGED <<netifVars, lifeVars>>

(* Wifi_Update of the ARM9 *)
Update == IF frames <= Batch THEN 0 ELSE frames - Batch

(* wifiValue32Handler of the ARM9; in the lwIP build it leaves the work to  *)
(* the thread.  Without a handler the message is dropped by the next start. *)
SyncReceived ==
  /\ syncs > 0
  /\ syncs' = syncs - 1
  /\ frames' = IF handler /\ build = "noip" THEN Update ELSE frames
  /\ UNCHANGED <<received, netifVars, lifeVars>>

(* Faulty variant: the thread rests during multiplayer games *)
UpdatesOnline == wifi_lwip_enabled /\ curLibraryMode = "internet"

(* wifi_update_thread calls Wifi_Update whatever the mode is *)
UpdatesAlways == wifi_lwip_enabled

ThreadUpdates ==
  /\ UpdatesAlways
  /\ frames > 0
  /\ frames' = Update
  /\ UNCHANGED <<received, syncs, netifVars, lifeVars>>

-----------------------------------------------------------------------------

own == <<lifeVars, frameVars>>

Application == Requests \/ Found \/ Status
Network == Answer \/ Advertise
Thread == DhcpTimeout \/ LeaseTimer \/ Receive \/ UpdateThread

Next ==
  \/ \E local \in BOOLEAN : InitIPC(local)
  \/ InitDefault \/ Deinit \/ Free \/ CallSync
  \/ TakeMessage \/ Arm7Init \/ Arm7Deinit \/ Forget
  \/ FrameReceived \/ SyncReceived \/ ThreadUpdates
  \/ app = "on" /\ Application /\ UNCHANGED own
  \/ WifiData7 # 0 /\ arm7 = "idle" /\ (Arm7 \/ Lost) /\ UNCHANGED own
  \/ (Network \/ Thread) /\ UNCHANGED own

(* The processors run and the FIFO delivers; wifi_update_thread is woken    *)
(* every frame, the application keeps asking for the status, the ARM7       *)
(* follows the requests, timers expire, and a server answers what reaches   *)
(* it.  Nothing says that a scan finds what is looked for.                  *)
Fairness ==
  /\ WF_vars(InitDefault \/ Free)
  /\ WF_vars(TakeMessage \/ Arm7Init \/ Arm7Deinit \/ Forget)
  /\ WF_vars(SyncReceived)
  /\ WF_vars(ThreadUpdates)
  /\ WF_vars(UpdateThread /\ UNCHANGED own)
  /\ WF_vars(Receive /\ UNCHANGED own)
  /\ WF_vars(DhcpTimeout /\ UNCHANGED own)
  /\ WF_vars(app = "on" /\ Status /\ UNCHANGED own)
  /\ WF_vars(WifiData7 # 0 /\ arm7 = "idle" /\ Arm7 /\ UNCHANGED own)
  /\ WF_vars(Answer /\ UNCHANGED own)

Spec == Init /\ [][Next]_vars /\ Fairness

-----------------------------------------------------------------------------

TypeOK ==
  /\ build \in Builds
  /\ app \in {"off", "starting", "on", "stopping"}
  /\ starts \in 0 .. MaxStarts
  /\ WifiDataCached \in {0, starts} /\ WifiData7 \in 0 .. starts
  /\ handler \in BOOLEAN /\ active \in BOOLEAN
  /\ arm7 \in {"idle", "init", "deinit", "forget"}
  /\ fifo \in Seq([m : {"address", "sync", "deinit"}, of : 0 .. MaxStarts])
  /\ received \in 0 .. MaxFrames /\ frames \in 0 .. received /\ syncs \in 0 .. received

(* The ARM7 works on the struct that is allocated and on no other, whatever *)
(* messages are still on their way when the library is stopped and started  *)
(* again, and while the application uses the library both processors use    *)
(* the same struct.  (NestedIrq: then an update inside Wifi_Deinit counts.) *)
SameStruct ==
  /\ TypeOK
  /\ (WifiData7 # 0 /\ (NestedIrq \/ arm7 # "forget")) => WifiData7 = WifiDataCached
  /\ app = "on" => WifiDataCached # 0 /\ WifiData7 = WifiDataCached

(* Wifi_InitDefault and Wifi_Deinit, which wait for the ARM7 without a      *)
(* timeout, return.                                                         *)
WaitsEnd == app \in {"starting", "stopping"} ~> app \in {"on", "off"}

(* Frames received in local multiplayer are handled in either build,        *)
(* however many wait at once: each is passed on, or the library is stopped. *)
FramesHandled == \A n \in 1 .. MaxFrames : (frames = n) ~> (frames < n \/ app = "off")

=============================================================================
