-------------------------- MODULE AccessPointList --------------------------
(***************************************************************************)
(* The list of access points heard, WifiData->aplist.  The ARM7 stores     *)
(* what a beacon says (Wifi_ProcessBeaconOrProbeResponse,                  *)
(* Wifi_AccessPointAdd), clears the list when a scan begins and ages the   *)
(* entries at every change of channel (src/source/arm7/access_point.c).    *)
(* The ARM9 counts and copies entries (src/source/arm9/access_point.c).    *)
(*                                                                         *)
(* Each entry has a lock.  The ARM7 changes an entry under it within one   *)
(* action, except Wifi_AccessPointTick, which takes no lock; the ARM9      *)
(* takes several steps.  Local variables that are no longer needed return *)
(* to their first value.  An entry is its BSSID, its ACTIVE flag, its       *)
(* Nintendo flag (tag), its age, and, for each of the parts that are       *)
(* stored separately, the access point whose beacon it came from: the      *)
(* name (ssid), the Nintendo information, and the channel, security and    *)
(* other data that every beacon has (from).                                *)
(***************************************************************************)
EXTENDS Naturals, FiniteSets

CONSTANTS
  Ap,         \* the BSSIDs in range
  NoAp,       \* a BSSID of zeroes
  Beacon,     \* what the beacons of each access point say
  MaxAp,      \* WIFI_MAX_AP
  Timeout,    \* WIFI_AP_TIMEOUT
  Nesting,    \* may the WiFi interrupt interrupt Wifi_NTR_Update?
  Filters,    \* sets of flags the application passes to Wifi_ScanModeFilter
  OtherModes  \* modes beside WIFIMODE_SCAN that it asks for

Rates == {"notag", "none", "b", "b and others", "others"}

ASSUME ListAssumption ==
  /\ NoAp \notin Ap
  /\ Beacon \in [Ap -> [privacy : BOOLEAN, cipher : {"none", "wep", "wpa"},
                        mandatory : Rates, nintendo : BOOLEAN,
                        named : BOOLEAN]]
  /\ MaxAp \in Nat \ {0}
  /\ Timeout \in Nat
  /\ Nesting \subseteq BOOLEAN
  /\ Filters \subseteq SUBSET {"compatible", "incompatible", "hosts"}
  /\ OtherModes \subseteq {"normal", "connected"}

VARIABLES
  aplist,           \* WifiData->aplist
  lock,             \* the holder of each entry's lock, as others see it
  curMode, reqMode,
  curApScanFlags, reqApScanFlags,
  nested,           \* the member of Nesting that is the case
  pc7, i7, timectr, \* Wifi_NTR_Update: where it is, its entry and its register
  pc9, i9, left9,   \* Wifi_GetAPData: where it is, its entry, entries to skip
  apdata,           \* Wifi_GetAPData: what it has copied
  silent            \* history: ticks since the last update of each entry, if
                    \* not nested

modeVars == <<curMode, reqMode, curApScanFlags, reqApScanFlags, nested>>
arm7Vars == <<pc7, i7, timectr>>
arm9Vars == <<pc9, i9, left9, apdata>>
vars == <<aplist, lock, modeVars, arm7Vars, arm9Vars, silent>>

Slots == 1 .. MaxAp
Blank == [bssid |-> NoAp, active |-> FALSE, tag |-> FALSE, timectr |-> 0,
          from |-> NoAp, ssid |-> NoAp, nintendo |-> NoAp]
Nothing == [bssid |-> NoAp, tag |-> FALSE, from |-> NoAp, ssid |-> NoAp, nintendo |-> NoAp]

Init ==
  /\ aplist = [s \in Slots |-> Blank]
  /\ lock = [s \in Slots |-> "nobody"]
  /\ curMode = "normal" /\ reqMode = "normal"
  /\ curApScanFlags = {} /\ reqApScanFlags = {}
  /\ nested \in Nesting
  /\ pc7 = "idle" /\ i7 = 1 /\ timectr = 0
  /\ pc9 = "idle" /\ i9 = 1 /\ left9 = 0 /\ apdata = Nothing
  /\ silent = [s \in Slots |-> 0]

-----------------------------------------------------------------------------
(* The WiFi interrupt: a beacon or a probe response *)

SecType(b) ==
  CASE b.cipher # "none" -> b.cipher
    [] b.cipher = "none" /\ b.privacy -> "wep"
    [] OTHER -> "open"

(* The rates decide, but a DS cannot do WPA *)
Compatible(b) == b.mandatory \in {"notag", "b"} /\ SecType(b) # "wpa"

Kept(a, flags) ==
  IF Beacon[a].nintendo
    THEN "hosts" \in flags
    ELSE (IF Compatible(Beacon[a]) THEN "compatible" ELSE "incompatible") \in flags

Inactive == {s \in Slots : ~ aplist[s].active}
Entries(a) == {s \in Slots : aplist[s].bssid = a}
LowestOf(S) == CHOOSE s \in S : \A t \in S : s <= t
Oldest == {s \in Slots : \A t \in Slots : aplist[s].timectr >= aplist[t].timectr}

(* Faulty variants: the search ends at a free entry; the newest goes *)
FirstFree(a) ==
  IF Inactive # {} THEN LowestOf(Inactive)
  ELSE IF Entries(a) # {} THEN LowestOf(Entries(a)) ELSE LowestOf(Oldest)

Newest(a) ==
  IF Entries(a) # {} THEN LowestOf(Entries(a))
  ELSE IF Inactive # {} THEN LowestOf(Inactive)
  ELSE LowestOf({s \in Slots : \A t \in Slots : aplist[s].timectr <= aplist[t].timectr})

ChosenSlot(a) ==
  IF Entries(a) # {} THEN LowestOf(Entries(a))
  ELSE IF Inactive # {} THEN LowestOf(Inactive)
  ELSE LowestOf(Oldest)

(* What a beacon makes of the entry it is stored in: without an SSID tag    *)
(* the name stays, without Nintendo information what there was of it stays *)
(* with its flag reset.                                                     *)
Stored(e, a) ==
  [bssid |-> a, active |-> TRUE, tag |-> Beacon[a].nintendo, timectr |-> 0, from |-> a,
   ssid |-> IF Beacon[a].named THEN a ELSE e.ssid,
   nintendo |-> IF Beacon[a].nintendo THEN a ELSE e.nintendo]

(* Wifi_AccessPointAdd.  "Don't wait to update the AP data. There'll be     *)
(* other beacons in the future" if the ARM9 has the lock.                   *)
AccessPointAdd(a) ==
  /\ lock[ChosenSlot(a)] = "nobody"
  /\ aplist' = [aplist EXCEPT ![ChosenSlot(a)] = Stored(@, a)]
  /\ silent' = [silent EXCEPT ![ChosenSlot(a)] = 0]

(* Wifi_ProcessBeaconOrProbeResponse, in any mode: frames that came before  *)
(* the hardware's filter was changed may still be in its buffer             *)
ProcessBeacon(a) ==
  /\ pc7 = "idle" \/ nested
  /\ Kept(a, curApScanFlags)
  /\ AccessPointAdd(a)
  /\ UNCHANGED <<lock, modeVars, arm7Vars, arm9Vars>>

-----------------------------------------------------------------------------
(* Wifi_NTR_Update on the ARM7 *)

(* WIFIMODE_NORMAL, scan requested *)
StartScan ==
  /\ pc7 = "idle" /\ curMode = "normal" /\ reqMode = "scan"
  /\ curApScanFlags' = reqApScanFlags
  /\ pc7' = "clear"
  /\ i7' = 1
  /\ UNCHANGED <<aplist, lock, curMode, reqMode, reqApScanFlags, nested, timectr, arm9Vars, silent>>

Cleared(e) == [e EXCEPT !.bssid = NoAp, !.active = FALSE, !.tag = FALSE]

(* Faulty variant: an entry that is locked stays as it is *)
ClearUnlessLocked ==
  /\ pc7 = "clear"
  /\ aplist' = [aplist EXCEPT ![i7] = IF lock[i7] = "nobody" THEN Cleared(@) ELSE @]
  /\ \/ i7 < MaxAp /\ i7' = i7 + 1 /\ UNCHANGED <<pc7, curMode>>
     \/ i7 = MaxAp /\ i7' = 1 /\ pc7' = "idle" /\ curMode' = "scan"
  /\ UNCHANGED <<lock, reqMode, curApScanFlags, reqApScanFlags, nested, timectr, arm9Vars, silent>>

(* Wifi_AccessPointClearAll, one entry: it waits for the lock *)
ClearEntry ==
  /\ pc7 = "clear"
  /\ lock[i7] = "nobody"
  /\ aplist' = [aplist EXCEPT ![i7] = Cleared(@)]
  /\ \/ i7 < MaxAp /\ i7' = i7 + 1 /\ UNCHANGED <<pc7, curMode>>
     \/ i7 = MaxAp /\ i7' = 1 /\ pc7' = "idle" /\ curMode' = "scan"
  /\ UNCHANGED <<lock, reqMode, curApScanFlags, reqApScanFlags, nested, timectr, arm9Vars, silent>>

ChangeMode ==
  /\ pc7 = "idle"
  /\ \/ curMode = "normal" /\ reqMode = "connected" /\ curMode' = "connected"
     \/ curMode # "normal" /\ reqMode # curMode /\ curMode' = "normal"
  /\ UNCHANGED <<aplist, lock, reqMode, curApScanFlags, reqApScanFlags, nested, arm7Vars, arm9Vars, silent>>

(* A change of channel: Wifi_AccessPointTick begins *)
Tick ==
  /\ pc7 = "idle" /\ curMode = "scan" /\ reqMode = "scan"
  /\ pc7' = "tick" /\ i7' = 1
  /\ silent' = [s \in Slots |-> IF aplist[s].active /\ ~ nested THEN silent[s] + 1 ELSE silent[s]]
  /\ UNCHANGED <<aplist, lock, modeVars, timectr, arm9Vars>>

NextEntry ==
  \/ i7 < MaxAp /\ i7' = i7 + 1 /\ pc7' = "tick"
  \/ i7 = MaxAp /\ i7' = 1 /\ pc7' = "idle"

TickSkip ==
  /\ pc7 = "tick"
  /\ ~ aplist[i7].active
  /\ NextEntry
  /\ UNCHANGED <<aplist, lock, modeVars, timectr, arm9Vars, silent>>

(* timectr++ is a load ...                                                  *)
TickLoad ==
  /\ pc7 = "tick"
  /\ aplist[i7].active
  /\ timectr' = aplist[i7].timectr
  /\ pc7' = "store"
  /\ UNCHANGED <<aplist, lock, modeVars, i7, arm9Vars, silent>>

(* ... and a store                                                          *)
TickStore ==
  /\ pc7 = "store"
  /\ aplist' = [aplist EXCEPT ![i7].timectr = timectr + 1]
  /\ timectr' = 0
  /\ pc7' = "expire"
  /\ UNCHANGED <<lock, modeVars, i7, arm9Vars, silent>>

Expired == aplist[i7].timectr > Timeout

TickExpire ==
  /\ pc7 = "expire"
  /\ aplist' = [aplist EXCEPT ![i7].active = IF Expired THEN FALSE ELSE @,
                              ![i7].tag = IF Expired THEN FALSE ELSE @]
  /\ NextEntry
  /\ UNCHANGED <<lock, modeVars, timectr, arm9Vars, silent>>

-----------------------------------------------------------------------------
(* The application on the ARM9 *)

ScanModeFilter(flags) ==
  /\ reqApScanFlags' = flags
  /\ reqMode' = "scan"
  /\ UNCHANGED <<aplist, lock, curMode, curApScanFlags, nested, arm7Vars, arm9Vars, silent>>

(* Wifi_IdleMode, or Wifi_AssocStatus that has found its access point *)
AskForMode(mode) ==
  /\ reqMode' = mode
  /\ UNCHANGED <<aplist, lock, curMode, curApScanFlags, reqApScanFlags, nested, arm7Vars, arm9Vars, silent>>

(* Wifi_GetAPData(apnum, ..) *)
GetAPData(apnum) ==
  /\ pc9 = "idle"
  /\ pc9' = "search" /\ i9' = 1 /\ left9' = apnum /\ apdata' = Nothing
  /\ UNCHANGED <<aplist, lock, modeVars, arm7Vars, silent>>

SearchEntry ==
  /\ pc9 = "search"
  /\ \/ aplist[i9].active /\ left9 = 0 /\ pc9' = "check" /\ UNCHANGED <<i9, left9>>
     \/ /\ ~ (aplist[i9].active /\ left9 = 0)
        /\ \/ /\ i9 < MaxAp /\ i9' = i9 + 1 /\ UNCHANGED pc9
              /\ left9' = IF aplist[i9].active THEN left9 - 1 ELSE left9
           \/ i9 = MaxAp /\ left9' = 0 /\ i9' = 1 /\ pc9' = "idle"
  /\ UNCHANGED <<aplist, lock, modeVars, arm7Vars, apdata, silent>>

CheckEntry ==
  /\ pc9 = "check"
  /\ \/ aplist[i9].active /\ pc9' = "lock" /\ UNCHANGED i9
     \/ ~ aplist[i9].active /\ pc9' = "idle" /\ i9' = 1
  /\ UNCHANGED <<aplist, lock, modeVars, arm7Vars, left9, apdata, silent>>

(* Faulty variant: no lock *)
NoLock ==
  /\ pc9 = "lock"
  /\ pc9' = "copy"
  /\ UNCHANGED <<aplist, lock, modeVars, arm7Vars, i9, left9, apdata, silent>>

LockEntry ==
  /\ pc9 = "lock"
  /\ lock' = [lock EXCEPT ![i9] = "arm9"]
  /\ pc9' = "copy"
  /\ UNCHANGED <<aplist, modeVars, arm7Vars, i9, left9, apdata, silent>>

(* The struct copy, in two parts *)
CopyBssid ==
  /\ pc9 = "copy"
  /\ apdata' = [apdata EXCEPT !.bssid = aplist[i9].bssid]
  /\ pc9' = "rest"
  /\ UNCHANGED <<aplist, lock, modeVars, arm7Vars, i9, left9, silent>>

CopyRest ==
  /\ pc9 = "rest"
  /\ apdata' = [apdata EXCEPT !.tag = aplist[i9].tag, !.from = aplist[i9].from,
                              !.ssid = aplist[i9].ssid, !.nintendo = aplist[i9].nintendo]
  /\ pc9' = "release"
  /\ UNCHANGED <<aplist, lock, modeVars, arm7Vars, i9, left9, silent>>

(* Faulty variant: an early return with the lock *)
KeepLock ==
  /\ pc9 = "release"
  /\ pc9' = "idle" /\ i9' = 1 /\ apdata' = Nothing
  /\ UNCHANGED <<aplist, lock, modeVars, arm7Vars, left9, silent>>

ReleaseEntry ==
  /\ pc9 = "release"
  /\ lock' = [lock EXCEPT ![i9] = "nobody"]
  /\ pc9' = "idle" /\ i9' = 1 /\ apdata' = Nothing
  /\ UNCHANGED <<aplist, modeVars, arm7Vars, left9, silent>>

-----------------------------------------------------------------------------

Update == StartScan \/ ChangeMode \/ Tick \/ TickSkip \/ TickLoad \/ TickStore \/ TickExpire
Reader == SearchEntry \/ CheckEntry \/ LockEntry \/ CopyBssid \/ CopyRest \/ ReleaseEntry

Next ==
  \/ \E a \in Ap : ProcessBeacon(a)
  \/ Update
  \/ ClearEntry
  \/ \E flags \in Filters : ScanModeFilter(flags)
  \/ \E mode \in OtherModes : AskForMode(mode)
  \/ \E apnum \in 0 .. MaxAp - 1 : GetAPData(apnum)
  \/ Reader

(* A function of the library that was called goes on.  While the ARM7       *)
(* spins on a lock it reads the word again and again, so it does not miss   *)
(* for ever that the ARM9 leaves it free.                                   *)
Spec == Init /\ [][Next]_vars /\ SF_vars(ClearEntry) /\ WF_vars(Reader)

-----------------------------------------------------------------------------
(* Properties *)

(* The entries, the modes and the local variables have their types; ages    *)
(* do not pass the timeout by more than the tick that finds it.             *)
TypeOK ==
  /\ aplist \in [Slots -> [bssid : Ap \cup {NoAp}, active : BOOLEAN, tag : BOOLEAN,
                           timectr : 0 .. Timeout + 1, from : Ap \cup {NoAp},
                           ssid : Ap \cup {NoAp}, nintendo : Ap \cup {NoAp}]]
  /\ lock \in [Slots -> {"nobody", "arm9"}]
  /\ curMode \in {"normal", "scan", "connected"}
  /\ reqMode \in {"normal", "scan", "connected"}
  /\ curApScanFlags \in Filters \cup {{}} /\ reqApScanFlags \in Filters \cup {{}}
  /\ nested \in BOOLEAN
  /\ pc7 \in {"idle", "clear", "tick", "store", "expire"}
  /\ i7 \in Slots /\ timectr \in 0 .. Timeout + 1
  /\ pc9 \in {"idle", "search", "check", "lock", "copy", "rest", "release"}
  /\ i9 \in Slots /\ left9 \in 0 .. MaxAp - 1
  /\ apdata \in [bssid : Ap \cup {NoAp}, tag : BOOLEAN, from : Ap \cup {NoAp},
                 ssid : Ap \cup {NoAp}, nintendo : Ap \cup {NoAp}]
  /\ silent \in [Slots -> 0 .. Timeout + 1]

(* "There can't be another entry with this BSSID" (arm7/access_point.c):    *)
(* also not among the entries that have timed out, whose BSSID stays.       *)
UniqueBssid ==
  /\ TypeOK
  /\ \A s, t \in Slots :
       aplist[s].bssid = aplist[t].bssid /\ aplist[s].bssid # NoAp => s = t

(* Although Wifi_GetAPData finds the entry before it takes the lock, the    *)
(* application never gets the BSSID of one access point with the channel    *)
(* or the security of another, nor with Nintendo information of another     *)
(* under a flag that says there is some, nor, if that access point's        *)
(* beacons have an SSID, with another name.  (Wifi_AccessPointAdd leaves    *)
(* the name alone when a beacon has no SSID: in an entry that was used      *)
(* before, such an access point is listed under the name of the former     *)
(* one, and the property does not say otherwise.)                          *)
CopyOfOneAp ==
  pc9 = "release" /\ apdata.bssid # NoAp =>
    /\ apdata.from = apdata.bssid
    /\ apdata.tag => apdata.nintendo = apdata.bssid
    /\ Beacon[apdata.bssid].named => apdata.ssid = apdata.bssid

(* The list holds what the scan was asked for: nothing of an earlier scan   *)
(* with other flags survives, also if the ARM9 had it locked.               *)
OnlyWhatWasAsked ==
  pc7 # "clear" => \A s \in Slots \ Inactive : Kept(aplist[s].bssid, curApScanFlags)

(* "The timeout value lets us scan all 13 channels twice [...] before any   *)
(* AP is removed from the list", and a full list loses "the AP with the     *)
(* longest time without any updates": unless the list is being cleared, an  *)
(* access point disappears only after that silence.  This is so when the    *)
(* WiFi interrupt cannot come between the steps of Wifi_AccessPointTick.    *)
RemovedAfterSilence ==
  [][pc7 # "clear" /\ ~ nested =>
       \A s \in Slots \ Inactive :
         ~ (aplist'[s].active /\ aplist'[s].bssid = aplist[s].bssid) =>
           \/ silent[s] > Timeout
           \/ Inactive = {} /\ \A t \in Slots : silent[s] >= silent[t]]_vars

(* Clearing the list always ends, and with it the spin in                   *)
(* Wifi_AccessPointClearAll: the ARM9 does not keep an entry locked.        *)
ClearEnds == []<>(pc7 # "clear")

=============================================================================
