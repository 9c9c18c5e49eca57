----------------------- MODULE AccessPointListProofs -----------------------
(***************************************************************************)
(* Proofs about AccessPointList, for every number of entries and of access *)
(* points, every timeout and every set of filters, with the WiFi interrupt *)
(* nested in Wifi_NTR_Update or not: entries stay unique, copies coherent, *)
(* the list holds what the scan asked for, and nothing is removed early.   *)
(***************************************************************************)
EXTENDS AccessPointList, FiniteSetTheorems, WellFoundedInduction, TLAPS

-----------------------------------------------------------------------------
(* The inductive invariant *)

Entry ==
  [bssid : Ap \cup {NoAp}, active : BOOLEAN, tag : BOOLEAN, timectr : 0 .. Timeout + 1,
   from : Ap \cup {NoAp}, ssid : Ap \cup {NoAp}, nintendo : Ap \cup {NoAp}]

Copy ==
  [bssid : Ap \cup {NoAp}, tag : BOOLEAN, from : Ap \cup {NoAp},
   ssid : Ap \cup {NoAp}, nintendo : Ap \cup {NoAp}]

(* The types that do not depend on the ages *)
ModesOK ==
  /\ lock \in [Slots -> {"nobody", "arm9"}]
  /\ curMode \in {"normal", "scan", "connected"}
  /\ reqMode \in {"normal", "scan", "connected"}
  /\ curApScanFlags \in Filters \cup {{}} /\ reqApScanFlags \in Filters \cup {{}}
  /\ nested \in BOOLEAN
  /\ pc9 \in {"idle", "search", "check", "lock", "copy", "rest", "release"}
  /\ i9 \in Slots /\ left9 \in 0 .. MaxAp - 1
  /\ apdata \in Copy

ListOK ==
  /\ aplist \in [Slots -> Entry]
  /\ pc7 \in {"idle", "clear", "tick", "store", "expire"}
  /\ i7 \in Slots /\ timectr \in 0 .. Timeout + 1
  /\ silent \in [Slots -> 0 .. Timeout + 1]

(* An entry in use has not timed out, unless the tick is about to see that. *)
AgeInv ==
  /\ pc7 = "store" => timectr <= Timeout
  /\ \A s \in Slots : aplist[s].active =>
       aplist[s].timectr <= Timeout \/ (pc7 = "expire" /\ s = i7)

(* Has the tick under way already counted entry s? *)
Counted(s) ==
  \/ pc7 \in {"idle", "clear"}
  \/ pc7 \in {"tick", "store"} /\ s < i7
  \/ pc7 = "expire" /\ s <= i7

(* Without nesting the age of an entry in use is its silence, or one less   *)
(* until the tick under way has counted it.                                 *)
SilenceInv ==
  /\ nested => silent = [s \in Slots |-> 0]
  /\ ~ nested =>
       /\ pc7 = "store" => aplist[i7].active /\ aplist[i7].timectr = timectr
       /\ \A s \in Slots : aplist[s].active =>
            silent[s] = IF Counted(s) THEN aplist[s].timectr ELSE aplist[s].timectr + 1

(* The parts of an entry that this access point's beacons have, and the     *)
(* Nintendo information under a flag, came from its beacon; an entry in use *)
(* has a BSSID.                                                             *)
EntryInv ==
  /\ \A s \in Slots : aplist[s].bssid # NoAp =>
       /\ aplist[s].from = aplist[s].bssid
       /\ Beacon[aplist[s].bssid].named => aplist[s].ssid = aplist[s].bssid
  /\ \A s \in Slots : aplist[s].tag => aplist[s].nintendo = aplist[s].bssid
  /\ \A s \in Slots : aplist[s].active => aplist[s].bssid # NoAp

(* The ARM9 has the lock of its entry while it copies, and no other; what   *)
(* it has copied is still in the entry.                                     *)
ReaderInv ==
  /\ \A s \in Slots :
       lock[s] = "arm9" <=> pc9 \in {"copy", "rest", "release"} /\ s = i9
  /\ pc9 = "rest" => apdata.bssid = aplist[i9].bssid
  /\ CopyOfOneAp

(* While the list is cleared, the entries behind i7 may be of earlier scans. *)
FilterInv ==
  \A s \in Slots : aplist[s].active /\ (pc7 = "clear" => s < i7) =>
    Kept(aplist[s].bssid, curApScanFlags)

Distinct ==
  \A s, t \in Slots :
    aplist[s].bssid = aplist[t].bssid /\ aplist[s].bssid # NoAp => s = t

ListInv ==
  ModesOK /\ ListOK /\ AgeInv /\ SilenceInv /\ EntryInv /\ ReaderInv /\ FilterInv /\ Distinct

-----------------------------------------------------------------------------
(* The entry that Wifi_AccessPointAdd chooses *)

(* Every set of numbers that is not empty has a smallest one: the prefixes  *)
(* of the set are finite, and one of them has no smaller prefix.            *)
LEMMA LeastElement ==
  ASSUME NEW S \in SUBSET Nat, S # {}
  PROVE  \E s \in S : \A t \in S : s <= t
<1> DEFINE Upto(k) == {s \in S : s <= k}
           Parts == {Upto(k) : k \in S}
<1>1. Parts # {} /\ Parts \subseteq FiniteSubsetsOf(S)
  <2>1. ASSUME NEW k \in S PROVE Upto(k) \in FiniteSubsetsOf(S)
    <3>1. IsFiniteSet(Upto(k))
      BY FS_BoundedSetOfNaturals, k \in Nat, Upto(k) \in SUBSET Nat, \A s \in Upto(k) : s <= k
    <3>2. QED
      BY <3>1 DEF FiniteSubsetsOf
  <2>2. QED
    BY <2>1
<1>2. PICK T \in Parts : \A U \in Parts : <<U, T>> \notin StrictSubsetOrdering(S)
  <2> HIDE DEF Parts
  <2>1. QED
    BY <1>1, FS_StrictSubsetOrderingWellFounded, WFMin
<1>3. PICK k \in S : T = Upto(k)
  BY <1>2
<1>4. ASSUME NEW t \in S, ~ (k <= t) PROVE FALSE
  <2>1. k \in T /\ k \notin Upto(t)
    BY <1>3, <1>4
  <2>2. ASSUME NEW s \in Upto(t) PROVE s \in T
    <3>1. s \in Nat /\ t \in Nat /\ k \in Nat /\ s <= t
      OBVIOUS
    <3>2. s <= k
      BY <3>1, <1>4
    <3>3. QED
      BY <3>2, <1>3
  <2>3. <<Upto(t), T>> \in StrictSubsetOrdering(S)
    BY <2>1, <2>2, <1>3 DEF StrictSubsetOrdering
  <2>4. QED
    BY <2>3, <1>2
<1>5. QED
  BY <1>4

(* The loop of Wifi_AccessPointAdd finds an entry of every set it looks for. *)
LEMMA LowestIsMember ==
  ASSUME NEW S \in SUBSET Slots, S # {}
  PROVE  LowestOf(S) \in S
<1>1. S \in SUBSET Nat
  BY ListAssumption DEF Slots
<1>2. \E s \in S : \A t \in S : s <= t
  BY <1>1, LeastElement
<1>3. QED
  BY <1>2 DEF LowestOf

(* Some entry has the highest age.                                          *)
LEMMA OldestExists ==
  ASSUME ListOK
  PROVE  Oldest # {}
<1> DEFINE Rest(s) == (Timeout + 1) - aplist[s].timectr
           Rests == {Rest(s) : s \in Slots}
<1>1. \A s \in Slots : aplist[s].timectr \in 0 .. Timeout + 1
  BY DEF ListOK, Entry
<1>2. \A s \in Slots : Rest(s) \in Nat
  BY <1>1, ListAssumption
<1>3. Rests \in SUBSET Nat /\ Rests # {}
  <2>1. 1 \in Slots
    BY ListAssumption DEF Slots
  <2>2. QED
    BY <1>2, <2>1
<1>4. PICK r \in Rests : \A q \in Rests : r <= q
  <2> HIDE DEF Rests
  <2>1. QED
    BY <1>3, LeastElement
<1>5. PICK s \in Slots : r = Rest(s)
  BY <1>4
<1>6. ASSUME NEW t \in Slots PROVE aplist[s].timectr >= aplist[t].timectr
  <2>1. Rest(s) <= Rest(t)
    BY <1>4, <1>5
  <2>2. QED
    BY <2>1, <1>1, ListAssumption
<1>7. QED
  BY <1>6 DEF Oldest

(* Wifi_AccessPointAdd writes the entry that has the BSSID, or else one     *)
(* that is not in use, or else the one with the longest silence; no other   *)
(* entry has the BSSID.                                                     *)
LEMMA ChosenSlotFacts ==
  ASSUME ListOK, Distinct, NEW a \in Ap
  PROVE  /\ ChosenSlot(a) \in Slots
         /\ \A t \in Slots : aplist[t].bssid = a => t = ChosenSlot(a)
         /\ aplist[ChosenSlot(a)].bssid = a \/ ~ aplist[ChosenSlot(a)].active
            \/ (Inactive = {} /\ ChosenSlot(a) \in Oldest)
<1>1. a # NoAp
  BY ListAssumption
<1>2. Entries(a) \in SUBSET Slots /\ Inactive \in SUBSET Slots /\ Oldest \in SUBSET Slots
  BY DEF Entries, Inactive, Oldest
<1>3. CASE Entries(a) # {}
  <2>1. ChosenSlot(a) \in Entries(a)
    BY <1>2, <1>3, LowestIsMember DEF ChosenSlot
  <2>2. QED
    BY <2>1, <1>1 DEF Entries, Distinct
<1>4. CASE Entries(a) = {} /\ Inactive # {}
  <2>1. ChosenSlot(a) \in Inactive
    BY <1>2, <1>4, LowestIsMember DEF ChosenSlot
  <2>2. QED
    BY <2>1, <1>4 DEF Entries, Inactive
<1>5. CASE Entries(a) = {} /\ Inactive = {}
  <2>1. ChosenSlot(a) \in Oldest
    BY <1>2, <1>5, LowestIsMember, OldestExists DEF ChosenSlot
  <2>2. QED
    BY <2>1, <1>5, <1>2 DEF Entries
<1>6. QED
  BY <1>3, <1>4, <1>5

-----------------------------------------------------------------------------
(* Every action keeps the invariant *)

(* What a beacon stores is of one access point, but for a name or Nintendo  *)
(* information that it does not have.                                       *)
LEMMA StoredFacts ==
  ASSUME NEW e \in Entry, NEW a \in Ap
  PROVE  /\ Stored(e, a) \in Entry
         /\ Stored(e, a).bssid = a /\ Stored(e, a).active
         /\ Stored(e, a).timectr = 0 /\ Stored(e, a).from = a
         /\ Beacon[a].named => Stored(e, a).ssid = a
         /\ Stored(e, a).tag => Stored(e, a).nintendo = a
<1>1. Beacon[a].nintendo \in BOOLEAN /\ 0 \in 0 .. Timeout + 1
  BY ListAssumption
<1>2. QED
  BY <1>1 DEF Stored, Entry

(* A beacon: the entry it writes is not locked, and no other has its BSSID. *)
LEMMA BeaconKeeps ==
  ASSUME ListInv, NEW a \in Ap, ProcessBeacon(a)
  PROVE  ListInv'
<1> USE DEF ListInv
<1> DEFINE c == ChosenSlot(a)
           new == Stored(aplist[c], a)
<1>1. /\ c \in Slots
      /\ \A t \in Slots : aplist[t].bssid = a => t = c
  BY ChosenSlotFacts
<1>2. a # NoAp
  BY ListAssumption
<1>3. /\ aplist' = [aplist EXCEPT ![c] = new]
      /\ silent' = [silent EXCEPT ![c] = 0]
      /\ lock[c] = "nobody"
      /\ pc7 = "idle" \/ nested
      /\ Kept(a, curApScanFlags)
      /\ UNCHANGED <<lock, curMode, reqMode, curApScanFlags, reqApScanFlags, nested,
                     pc7, i7, timectr, pc9, i9, left9, apdata>>
  BY DEF ProcessBeacon, AccessPointAdd, modeVars, arm7Vars, arm9Vars
<1> HIDE DEF c
<1>0. /\ new \in Entry
      /\ new.bssid = a /\ new.active /\ new.timectr = 0 /\ new.from = a
      /\ Beacon[a].named => new.ssid = a
      /\ new.tag => new.nintendo = a
  BY <1>1, StoredFacts DEF ListOK
<1> HIDE DEF new
<1>4. /\ aplist'[c] = new
      /\ \A t \in Slots : t # c => aplist'[t] = aplist[t]
  BY <1>1, <1>3 DEF ListOK
<1>5. /\ silent'[c] = 0
      /\ \A t \in Slots : t # c => silent'[t] = silent[t]
  BY <1>1, <1>3 DEF ListOK
<1>6. ModesOK'
  BY <1>3 DEF ModesOK
<1>7. ListOK'
  BY <1>0, <1>1, <1>3, ListAssumption DEF ListOK
<1>8. AgeInv'
  BY <1>0, <1>3, <1>4, ListAssumption DEF AgeInv
<1>9. SilenceInv'
  <2>1. CASE nested
    BY <2>1, <1>3, <1>1 DEF SilenceInv
  <2>2. CASE ~ nested
    <3>1. pc7 = "idle" /\ pc7' = "idle" /\ ~ nested'
      BY <2>2, <1>3
    <3>2. \A s \in Slots : aplist[s].active => silent[s] = aplist[s].timectr
      BY <2>2, <3>1 DEF SilenceInv, Counted
    <3>3. \A s \in Slots : aplist'[s].active => silent'[s] = aplist'[s].timectr
      BY <3>2, <1>0, <1>4, <1>5
    <3>4. QED
      BY <3>1, <3>3 DEF SilenceInv, Counted
  <2>3. QED
    BY <2>1, <2>2
<1>10. EntryInv'
  BY <1>0, <1>4, <1>2 DEF EntryInv
<1>11. ReaderInv'
  <2>1. pc9 = "rest" => i9 # c
    BY <1>1, <1>3 DEF ReaderInv
  <2>2. QED
    BY <2>1, <1>3, <1>4 DEF ReaderInv, CopyOfOneAp, ModesOK
<1>12. FilterInv'
  BY <1>0, <1>3, <1>4 DEF FilterInv
<1>13. Distinct'
  BY <1>0, <1>1, <1>2, <1>4 DEF Distinct
<1>14. QED
  BY <1>6, <1>7, <1>8, <1>9, <1>10, <1>11, <1>12, <1>13

(* A scan begins: no entry has been cleared yet.                            *)
LEMMA StartScanKeeps ==
  ASSUME ListInv, StartScan
  PROVE  ListInv'
<1> USE DEF ListInv
<1>1. /\ pc7 = "idle" /\ pc7' = "clear" /\ i7' = 1
      /\ curApScanFlags' = reqApScanFlags
      /\ UNCHANGED <<aplist, lock, curMode, reqMode, reqApScanFlags, nested, timectr,
                     pc9, i9, left9, apdata, silent>>
  BY DEF StartScan, arm9Vars
<1>2. ModesOK'
  BY <1>1 DEF ModesOK
<1>3. ListOK' /\ AgeInv'
  <2>1. 1 \in Slots
    BY ListAssumption DEF Slots
  <2>2. QED
    BY <2>1, <1>1 DEF ListOK, AgeInv
<1>4. SilenceInv'
  BY <1>1 DEF SilenceInv, Counted
<1>5. EntryInv' /\ ReaderInv' /\ Distinct'
  BY <1>1 DEF EntryInv, ReaderInv, CopyOfOneAp, Distinct
<1>6. FilterInv'
  BY <1>1, ListAssumption DEF FilterInv, Slots
<1>7. QED
  BY <1>2, <1>3, <1>4, <1>5, <1>6

(* One entry is cleared: it is not locked; after the last one no entry of   *)
(* an earlier scan is left.                                                 *)
LEMMA ClearKeeps ==
  ASSUME ListInv, ClearEntry
  PROVE  ListInv'
<1> USE DEF ListInv
<1>1. /\ pc7 = "clear" /\ lock[i7] = "nobody"
      /\ aplist' = [aplist EXCEPT ![i7] = Cleared(aplist[i7])]
      /\ \/ i7 < MaxAp /\ i7' = i7 + 1 /\ UNCHANGED <<pc7, curMode>>
         \/ i7 = MaxAp /\ i7' = 1 /\ pc7' = "idle" /\ curMode' = "scan"
      /\ UNCHANGED <<lock, reqMode, curApScanFlags, reqApScanFlags, nested, timectr,
                     pc9, i9, left9, apdata, silent>>
  BY DEF ClearEntry, arm9Vars
<1>2. i7 \in Slots
  BY DEF ListOK
<1>3. /\ aplist'[i7].bssid = NoAp /\ ~ aplist'[i7].active /\ ~ aplist'[i7].tag
      /\ \A t \in Slots : t # i7 => aplist'[t] = aplist[t]
  BY <1>1, <1>2 DEF ListOK, Entry, Cleared
<1>4. ModesOK'
  BY <1>1 DEF ModesOK
<1>5. ListOK'
  <2>1. Cleared(aplist[i7]) \in Entry
    BY <1>2 DEF ListOK, Entry, Cleared
  <2>2. i7' \in Slots
    BY <1>1, <1>2, ListAssumption DEF Slots
  <2>3. QED
    BY <2>1, <2>2, <1>1, <1>2 DEF ListOK
<1>6. AgeInv'
  BY <1>1, <1>3 DEF AgeInv
<1>7. SilenceInv'
  BY <1>1, <1>3 DEF SilenceInv, Counted
<1>8. EntryInv' /\ Distinct'
  BY <1>1, <1>2, <1>3 DEF EntryInv, Distinct
<1>9. ReaderInv'
  <2>1. pc9 = "rest" => i9 # i7
    BY <1>1, <1>2 DEF ReaderInv
  <2>2. QED
    BY <2>1, <1>1, <1>3 DEF ReaderInv, CopyOfOneAp, ModesOK
<1>10. FilterInv'
  <2> SUFFICES ASSUME NEW s \in Slots, aplist'[s].active, pc7' = "clear" => s < i7'
               PROVE  Kept(aplist'[s].bssid, curApScanFlags')
    BY DEF FilterInv, Kept
  <2>1. s # i7 /\ aplist'[s] = aplist[s]
    BY <1>3
  <2>2. s < i7
    BY <2>1, <1>1, <1>2, ListAssumption DEF Slots
  <2>3. QED
    BY <2>1, <2>2, <1>1 DEF FilterInv
<1>11. QED
  BY <1>4, <1>5, <1>6, <1>7, <1>8, <1>9, <1>10

(* The mode machine and the application's requests leave the list alone.    *)
LEMMA ModesKeep ==
  ASSUME ListInv,
         \/ ChangeMode
         \/ \E flags \in Filters : ScanModeFilter(flags)
         \/ \E mode \in OtherModes : AskForMode(mode)
  PROVE  ListInv'
<1> USE DEF ListInv
<1>1. UNCHANGED <<aplist, lock, curApScanFlags, nested, pc7, i7, timectr, pc9, i9, left9, apdata, silent>>
  BY DEF ChangeMode, ScanModeFilter, AskForMode, arm7Vars, arm9Vars
<1>2. ModesOK'
  <2>1. /\ curMode' \in {"normal", "scan", "connected"}
        /\ reqMode' \in {"normal", "scan", "connected"}
    BY ListAssumption DEF ModesOK, ChangeMode, ScanModeFilter, AskForMode
  <2>2. reqApScanFlags' \in Filters \cup {{}}
    BY DEF ModesOK, ChangeMode, ScanModeFilter, AskForMode
  <2>3. QED
    BY <1>1, <2>1, <2>2 DEF ModesOK
<1>3. ListOK' /\ AgeInv' /\ SilenceInv' /\ EntryInv' /\ ReaderInv' /\ FilterInv' /\ Distinct'
  BY <1>1 DEF ListOK, AgeInv, SilenceInv, Counted, EntryInv, ReaderInv, CopyOfOneAp, FilterInv, Distinct
<1>4. QED
  BY <1>2, <1>3

(* What the steps of Wifi_AccessPointTick have in common: they change ages  *)
(* and flags, never a BSSID, and set no flag.                               *)
LEMMA TickFrame ==
  ASSUME ListInv, pc7 # "clear", pc7' # "clear",
         ModesOK', ListOK', AgeInv', SilenceInv',
         UNCHANGED <<lock, modeVars, arm9Vars>>,
         \A s \in Slots : /\ aplist'[s].bssid = aplist[s].bssid
                          /\ aplist'[s].from = aplist[s].from
                          /\ aplist'[s].ssid = aplist[s].ssid
                          /\ aplist'[s].nintendo = aplist[s].nintendo
                          /\ aplist'[s].active => aplist[s].active
                          /\ aplist'[s].tag => aplist[s].tag
  PROVE  ListInv'
<1> USE DEF ListInv, modeVars, arm9Vars
<1>1. EntryInv' /\ Distinct'
  BY DEF EntryInv, Distinct
<1>2. ReaderInv'
  BY DEF ReaderInv, CopyOfOneAp, ModesOK
<1>3. FilterInv'
  BY DEF FilterInv
<1>4. QED
  BY <1>1, <1>2, <1>3

(* A tick begins: every entry in use has been silent for one more.          *)
LEMMA TickKeeps ==
  ASSUME ListInv, Tick
  PROVE  ListInv'
<1> USE DEF ListInv
<1>1. /\ pc7 = "idle" /\ pc7' = "tick" /\ i7' = 1
      /\ silent' = [s \in Slots |-> IF aplist[s].active /\ ~ nested THEN silent[s] + 1 ELSE silent[s]]
      /\ UNCHANGED <<aplist, lock, modeVars, timectr, arm9Vars>>
  BY DEF Tick
<1>2. ModesOK'
  BY <1>1 DEF ModesOK, modeVars, arm9Vars
<1>3. ListOK'
  <2>1. ASSUME NEW s \in Slots, aplist[s].active, ~ nested PROVE silent[s] + 1 \in 0 .. Timeout + 1
    <3>1. silent[s] = aplist[s].timectr /\ aplist[s].timectr <= Timeout
      BY <1>1, <2>1 DEF SilenceInv, Counted, AgeInv
    <3>2. QED
      BY <3>1, ListAssumption DEF ListOK
  <2>2. 1 \in Slots
    BY ListAssumption DEF Slots
  <2>3. silent' \in [Slots -> 0 .. Timeout + 1]
    BY <2>1, <1>1 DEF ListOK
  <2>4. QED
    BY <2>2, <2>3, <1>1 DEF ListOK
<1>4. AgeInv'
  BY <1>1 DEF AgeInv
<1>5. SilenceInv'
  <2>1. CASE nested
    BY <2>1, <1>1 DEF SilenceInv, modeVars
  <2>2. CASE ~ nested
    <3>1. ~ nested' /\ pc7' # "store"
      BY <2>2, <1>1 DEF modeVars
    <3>2. ASSUME NEW s \in Slots, aplist'[s].active
          PROVE  /\ silent'[s] = aplist'[s].timectr + 1
                 /\ ~ Counted(s)'
      BY <1>1, <2>2, <3>2, ListAssumption DEF SilenceInv, Counted, Slots
    <3>3. QED
      BY <3>1, <3>2 DEF SilenceInv
  <2>3. QED
    BY <2>1, <2>2
<1>6. QED
  BY <1>1, <1>2, <1>3, <1>4, <1>5, TickFrame

(* The loop of Wifi_AccessPointTick goes on to the next entry, or ends.     *)
LEMMA NextEntryFacts ==
  ASSUME ListOK, NextEntry
  PROVE  /\ i7' \in Slots /\ pc7' \in {"idle", "tick"}
         /\ \A s \in Slots : Counted(s)' <=> s <= i7
  BY ListAssumption DEF NextEntry, ListOK, Counted, Slots

(* An entry that is not in use is skipped.                                  *)
LEMMA TickSkipKeeps ==
  ASSUME ListInv, TickSkip
  PROVE  ListInv'
<1> USE DEF ListInv
<1>1. /\ pc7 = "tick" /\ ~ aplist[i7].active /\ NextEntry
      /\ UNCHANGED <<aplist, lock, modeVars, timectr, arm9Vars, silent>>
  BY DEF TickSkip
<1>2. /\ i7' \in Slots /\ pc7' \in {"idle", "tick"} /\ i7 \in Slots
      /\ \A s \in Slots : Counted(s)' <=> s <= i7
  BY <1>1, NextEntryFacts DEF ListOK
<1>3. ModesOK'
  BY <1>1 DEF ModesOK, modeVars, arm9Vars
<1>4. ListOK' /\ AgeInv'
  BY <1>1, <1>2 DEF ListOK, AgeInv
<1>5. SilenceInv'
  <2>1. ASSUME NEW s \in Slots, aplist[s].active PROVE Counted(s)' <=> Counted(s)
    BY <2>1, <1>1, <1>2, ListAssumption DEF Counted, Slots
  <2>2. nested' = nested /\ pc7' # "store" /\ silent' = silent /\ aplist' = aplist
    BY <1>1, <1>2 DEF modeVars
  <2>3. QED
    BY <2>1, <2>2 DEF SilenceInv
<1>6. QED
  BY <1>1, <1>2, <1>3, <1>4, <1>5, TickFrame

(* timectr++ of an entry in use: the value that is loaded has not passed    *)
(* the timeout.                                                             *)
LEMMA TickLoadKeeps ==
  ASSUME ListInv, TickLoad
  PROVE  ListInv'
<1> USE DEF ListInv
<1>1. /\ pc7 = "tick" /\ aplist[i7].active /\ pc7' = "store"
      /\ timectr' = aplist[i7].timectr
      /\ UNCHANGED <<aplist, lock, modeVars, i7, arm9Vars, silent>>
  BY DEF TickLoad
<1>2. ModesOK'
  BY <1>1 DEF ModesOK, modeVars, arm9Vars
<1>3. ListOK' /\ AgeInv'
  <2>1. aplist[i7].timectr \in 0 .. Timeout + 1
    BY DEF ListOK, Entry
  <2>2. QED
    BY <1>1, <2>1 DEF ListOK, AgeInv
<1>4. SilenceInv'
  BY <1>1 DEF SilenceInv, Counted, modeVars
<1>5. QED
  BY <1>1, <1>2, <1>3, <1>4, TickFrame

(* ... and is stored, over whatever a nested interrupt has written.         *)
LEMMA TickStoreKeeps ==
  ASSUME ListInv, TickStore
  PROVE  ListInv'
<1> USE DEF ListInv
<1>1. /\ pc7 = "store" /\ pc7' = "expire" /\ timectr' = 0
      /\ aplist' = [aplist EXCEPT ![i7].timectr = timectr + 1]
      /\ UNCHANGED <<lock, modeVars, i7, arm9Vars, silent>>
  BY DEF TickStore
<1>2. i7 \in Slots /\ timectr <= Timeout /\ timectr + 1 \in 0 .. Timeout + 1
  BY <1>1, ListAssumption DEF ListOK, AgeInv
<1>3. /\ aplist'[i7] = [aplist[i7] EXCEPT !.timectr = timectr + 1]
      /\ \A t \in Slots : t # i7 => aplist'[t] = aplist[t]
  BY <1>1, <1>2 DEF ListOK
<1>4. \A s \in Slots : /\ aplist'[s].bssid = aplist[s].bssid
                       /\ aplist'[s].from = aplist[s].from
                       /\ aplist'[s].ssid = aplist[s].ssid
                       /\ aplist'[s].nintendo = aplist[s].nintendo
                       /\ aplist'[s].active = aplist[s].active
                       /\ aplist'[s].tag = aplist[s].tag
  BY <1>2, <1>3 DEF ListOK, Entry
<1>5. aplist'[i7].timectr = timectr + 1
  BY <1>2, <1>3 DEF ListOK, Entry
<1>6. ModesOK'
  BY <1>1 DEF ModesOK, modeVars, arm9Vars
<1>7. ListOK'
  <2>1. [aplist[i7] EXCEPT !.timectr = timectr + 1] \in Entry
    BY <1>2 DEF ListOK, Entry
  <2>2. aplist' \in [Slots -> Entry]
    BY <1>1, <2>1 DEF ListOK
  <2>3. QED
    BY <1>1, <2>2, ListAssumption DEF ListOK
<1>8. AgeInv'
  BY <1>1, <1>3 DEF AgeInv
<1>9. SilenceInv'
  <2>1. CASE nested
    BY <2>1, <1>1 DEF SilenceInv, modeVars
  <2>2. CASE ~ nested
    <3>1. ~ nested' /\ pc7' # "store"
      BY <2>2, <1>1 DEF modeVars
    <3>2. ASSUME NEW s \in Slots, aplist'[s].active
          PROVE  silent'[s] = IF Counted(s)' THEN aplist'[s].timectr ELSE aplist'[s].timectr + 1
      <4>1. CASE s = i7
        <5>1. silent[s] = aplist[s].timectr + 1 /\ aplist[s].timectr = timectr
          BY <4>1, <1>1, <1>2, <2>2, ListAssumption DEF SilenceInv, Counted, Slots
        <5>2. Counted(s)'
          BY <4>1, <1>1, <1>2, ListAssumption DEF Counted, Slots
        <5>3. QED
          BY <5>1, <5>2, <4>1, <1>5, <1>1
      <4>2. CASE s # i7
        <5>0. s \in Int /\ i7 \in Int
          BY <1>2, ListAssumption DEF Slots
        <5>1. Counted(s)' <=> Counted(s)
          BY <5>0, <4>2, <1>1 DEF Counted
        <5>2. QED
          BY <5>1, <4>2, <1>1, <1>3, <2>2, <3>2 DEF SilenceInv
      <4>3. QED
        BY <4>1, <4>2
    <3>3. QED
      BY <3>1, <3>2 DEF SilenceInv
  <2>3. QED
    BY <2>1, <2>2
<1>10. QED
  BY <1>1, <1>4, <1>6, <1>7, <1>8, <1>9, TickFrame

(* An entry whose age has passed the timeout is given up.                   *)
LEMMA TickExpireKeeps ==
  ASSUME ListInv, TickExpire
  PROVE  ListInv'
<1> USE DEF ListInv
<1>1. /\ pc7 = "expire" /\ NextEntry
      /\ aplist' = [aplist EXCEPT ![i7].active = IF Expired THEN FALSE ELSE aplist[i7].active,
                                  ![i7].tag = IF Expired THEN FALSE ELSE aplist[i7].tag]
      /\ UNCHANGED <<lock, modeVars, timectr, arm9Vars, silent>>
  BY DEF TickExpire
<1>2. /\ i7' \in Slots /\ pc7' \in {"idle", "tick"} /\ i7 \in Slots
      /\ \A s \in Slots : Counted(s)' <=> s <= i7
  BY <1>1, NextEntryFacts DEF ListOK
<1>3. \A s \in Slots : /\ aplist'[s].bssid = aplist[s].bssid
                       /\ aplist'[s].from = aplist[s].from
                       /\ aplist'[s].ssid = aplist[s].ssid
                       /\ aplist'[s].nintendo = aplist[s].nintendo
                       /\ aplist'[s].timectr = aplist[s].timectr
                       /\ aplist'[s].active => aplist[s].active /\ (s = i7 => ~ Expired)
                       /\ aplist'[s].tag => aplist[s].tag
  BY <1>1, <1>2 DEF ListOK, Entry
<1>4. ModesOK'
  BY <1>1 DEF ModesOK, modeVars, arm9Vars
<1>5. ListOK'
  <2>1. [aplist[i7] EXCEPT !.active = IF Expired THEN FALSE ELSE @] \in Entry
    BY <1>2 DEF ListOK, Entry
  <2>2. [[aplist[i7] EXCEPT !.active = IF Expired THEN FALSE ELSE @]
          EXCEPT !.tag = IF Expired THEN FALSE ELSE aplist[i7].tag] \in Entry
    BY <1>2, <2>1 DEF ListOK, Entry
  <2>3. aplist' = [aplist EXCEPT ![i7] =
          [[aplist[i7] EXCEPT !.active = IF Expired THEN FALSE ELSE @]
            EXCEPT !.tag = IF Expired THEN FALSE ELSE aplist[i7].tag]]
    BY <1>1, <1>2 DEF ListOK, Entry
  <2>4. aplist' \in [Slots -> Entry]
    BY <2>2, <2>3 DEF ListOK
  <2>5. QED
    BY <1>1, <1>2, <2>4 DEF ListOK
<1>6. AgeInv'
  <2>1. ASSUME NEW s \in Slots, aplist'[s].active PROVE aplist'[s].timectr <= Timeout
    BY <2>1, <1>2, <1>3, ListAssumption DEF AgeInv, Expired, ListOK, Entry
  <2>2. QED
    BY <2>1, <1>2 DEF AgeInv
<1>7. SilenceInv'
  <2>1. ASSUME NEW s \in Slots PROVE Counted(s)' <=> Counted(s)
    BY <1>1, <1>2 DEF Counted
  <2>2. nested' = nested /\ pc7' # "store" /\ silent' = silent
    BY <1>1, <1>2 DEF modeVars
  <2>3. QED
    BY <2>1, <2>2, <1>3 DEF SilenceInv
<1>8. QED
  BY <1>1, <1>2, <1>3, <1>4, <1>5, <1>6, <1>7, TickFrame

(* Wifi_GetAPData changes its own variables and the lock of its entry.      *)
LEMMA ReaderKeeps ==
  ASSUME ListInv, Reader \/ \E apnum \in 0 .. MaxAp - 1 : GetAPData(apnum)
  PROVE  ListInv'
<1> USE DEF ListInv
<1> USE DEF modeVars, arm7Vars
<1>1. UNCHANGED <<aplist, curMode, reqMode, curApScanFlags, reqApScanFlags, nested,
                  pc7, i7, timectr, silent>>
  BY DEF Reader, GetAPData, SearchEntry, CheckEntry, LockEntry, CopyBssid, CopyRest, ReleaseEntry
<1>2. ListOK' /\ AgeInv' /\ SilenceInv' /\ EntryInv' /\ FilterInv' /\ Distinct'
  BY <1>1 DEF ListOK, AgeInv, SilenceInv, Counted, EntryInv, FilterInv, Distinct
<1>3. ModesOK' /\ ReaderInv'
  <2> USE DEF ModesOK, ReaderInv, CopyOfOneAp
  <2>0. 1 \in Slots
    BY ListAssumption DEF Slots
  <2>1. CASE \E apnum \in 0 .. MaxAp - 1 : GetAPData(apnum)
    BY <2>1, <2>0, <1>1, ListAssumption DEF GetAPData, Nothing, Copy
  <2>2. CASE SearchEntry
    <3>1. i9' \in Slots /\ left9' \in 0 .. MaxAp - 1
      BY <2>2, <2>0, ListAssumption DEF SearchEntry, Slots
    <3>2. QED
      BY <2>2, <3>1, <1>1 DEF SearchEntry
  <2>3. CASE CheckEntry
    BY <2>3, <2>0, <1>1 DEF CheckEntry
  <2>4. CASE LockEntry
    BY <2>4, <1>1 DEF LockEntry
  <2>5. CASE CopyBssid
    <3>1. /\ pc9 = "copy" /\ pc9' = "rest" /\ UNCHANGED <<lock, i9, left9>>
          /\ apdata' = [apdata EXCEPT !.bssid = aplist[i9].bssid]
      BY <2>5 DEF CopyBssid
    <3>2. apdata' \in Copy /\ apdata'.bssid = aplist[i9].bssid
      BY <3>1 DEF ListOK, Entry, Copy
    <3>3. QED
      BY <3>1, <3>2, <1>1
  <2>6. CASE CopyRest
    <3>1. /\ pc9 = "rest" /\ pc9' = "release" /\ UNCHANGED <<lock, i9, left9>>
          /\ apdata' = [apdata EXCEPT !.tag = aplist[i9].tag, !.from = aplist[i9].from,
                                      !.ssid = aplist[i9].ssid, !.nintendo = aplist[i9].nintendo]
      BY <2>6 DEF CopyRest
    <3>2. /\ apdata' \in Copy
          /\ apdata'.from = aplist[i9].from
          /\ apdata'.ssid = aplist[i9].ssid
          /\ apdata'.nintendo = aplist[i9].nintendo
          /\ apdata'.tag => aplist[i9].tag
          /\ apdata'.bssid = aplist[i9].bssid
      BY <3>1 DEF ListOK, Entry, Copy
    <3>3. QED
      BY <3>1, <3>2, <1>1 DEF EntryInv
  <2>7. CASE ReleaseEntry
    BY <2>7, <2>0, <1>1 DEF ReleaseEntry, Nothing, Copy
  <2>8. QED
    BY <2>1, <2>2, <2>3, <2>4, <2>5, <2>6, <2>7 DEF Reader
<1>4. QED
  BY <1>2, <1>3

-----------------------------------------------------------------------------
(* The theorems *)

(* The list is empty when Wifi_Init ends.                                   *)
LEMMA ListInitial ==
  ASSUME Init
  PROVE  ListInv
<1>1. 1 \in Slots
  BY ListAssumption DEF Slots
<1>2. ModesOK /\ ListOK
  BY <1>1, ListAssumption DEF Init, ModesOK, ListOK, Blank, Nothing, Entry, Copy
<1>3. AgeInv /\ SilenceInv /\ EntryInv
  BY ListAssumption DEF Init, AgeInv, SilenceInv, EntryInv, Blank
<1>4. ReaderInv /\ FilterInv /\ Distinct
  BY DEF Init, ReaderInv, CopyOfOneAp, FilterInv, Distinct, Blank
<1>5. QED
  BY <1>2, <1>3, <1>4 DEF ListInv

(* Every step of the interrupt, of the ARM7 and of the ARM9 keeps the       *)
(* invariant.                                                               *)
LEMMA ListStep ==
  ASSUME ListInv, [Next]_vars
  PROVE  ListInv'
<1>1. ASSUME NEW a \in Ap, ProcessBeacon(a) PROVE ListInv'
  BY <1>1, BeaconKeeps
<1>2. CASE StartScan
  BY <1>2, StartScanKeeps
<1>3. CASE \/ ChangeMode
           \/ \E flags \in Filters : ScanModeFilter(flags)
           \/ \E mode \in OtherModes : AskForMode(mode)
  BY <1>3, ModesKeep
<1>4. CASE Tick
  BY <1>4, TickKeeps
<1>5. CASE TickSkip
  BY <1>5, TickSkipKeeps
<1>6. CASE TickLoad
  BY <1>6, TickLoadKeeps
<1>7. CASE TickStore
  BY <1>7, TickStoreKeeps
<1>8. CASE TickExpire
  BY <1>8, TickExpireKeeps
<1>9. CASE ClearEntry
  BY <1>9, ClearKeeps
<1>10. CASE Reader \/ \E apnum \in 0 .. MaxAp - 1 : GetAPData(apnum)
  BY <1>10, ReaderKeeps
<1>11. CASE UNCHANGED vars
  BY <1>11 DEF vars, modeVars, arm7Vars, arm9Vars, ListInv, ModesOK, ListOK, AgeInv, SilenceInv,
     Counted, EntryInv, ReaderInv, CopyOfOneAp, FilterInv, Distinct
<1>12. QED
  BY <1>1, <1>2, <1>3, <1>4, <1>5, <1>6, <1>7, <1>8, <1>9, <1>10, <1>11 DEF Next, Update

(* The invariant holds in every reachable state.                            *)
THEOREM ListInvariant == Spec => []ListInv
<1>1. Init => ListInv
  BY ListInitial
<1>2. ListInv /\ [Next]_vars => ListInv'
  BY ListStep
<1>3. QED
  BY <1>1, <1>2, PTL DEF Spec

(* "There can't be another entry with this BSSID": however beacons, scans,  *)
(* timeouts and readers interleave, Wifi_AccessPointAdd never makes a       *)
(* second entry for an access point.                                        *)
THEOREM ListUnique == Spec => []UniqueBssid
<1>1. ListInv => UniqueBssid
  BY DEF ListInv, ModesOK, ListOK, Entry, Copy, Distinct, UniqueBssid, TypeOK
<1>2. QED
  BY <1>1, ListInvariant, PTL

(* What Wifi_GetAPData returns is of one access point: its channel and      *)
(* security, its Nintendo information where the flag says there is some,    *)
(* and its name where its beacons have one.                                 *)
THEOREM ListCopies == Spec => []CopyOfOneAp
<1>1. ListInv => CopyOfOneAp
  BY DEF ListInv, ReaderInv
<1>2. QED
  BY <1>1, ListInvariant, PTL

(* After Wifi_AccessPointClearAll the list holds only what the filter of    *)
(* the scan lets in.                                                        *)
THEOREM ListFiltered == Spec => []OnlyWhatWasAsked
<1>1. ListInv => OnlyWhatWasAsked
  BY DEF ListInv, FilterInv, OnlyWhatWasAsked, Inactive
<1>2. QED
  BY <1>1, ListInvariant, PTL

(* One step removes an access point only after the timeout, or to make room *)
(* for another when it is the one with the longest silence.                 *)
LEMMA StepRemovesAfterSilence ==
  ASSUME ListInv, [Next]_vars, pc7 # "clear", ~ nested,
         NEW s \in Slots \ Inactive,
         ~ (aplist'[s].active /\ aplist'[s].bssid = aplist[s].bssid)
  PROVE  \/ silent[s] > Timeout
         \/ Inactive = {} /\ \A t \in Slots : silent[s] >= silent[t]
<1>1. s \in Slots /\ aplist[s].active
  BY DEF Inactive
<1>2. ASSUME NEW a \in Ap, ProcessBeacon(a)
      PROVE  Inactive = {} /\ \A t \in Slots : silent[s] >= silent[t]
  <2>1. /\ ChosenSlot(a) \in Slots
        /\ \/ aplist[ChosenSlot(a)].bssid = a
           \/ ~ aplist[ChosenSlot(a)].active
           \/ Inactive = {} /\ ChosenSlot(a) \in Oldest
    BY ChosenSlotFacts DEF ListInv
  <2>2. pc7 = "idle" /\ aplist' = [aplist EXCEPT ![ChosenSlot(a)] =
          Stored(aplist[ChosenSlot(a)], a)]
    BY <1>2 DEF ProcessBeacon, AccessPointAdd
  <2>3. s = ChosenSlot(a) /\ aplist[s].bssid # a
    <3> HIDE DEF ChosenSlot
    <3>1. QED
      BY <2>1, <2>2, <1>1, StoredFacts DEF ListInv, ListOK
  <2>4. Inactive = {} /\ s \in Oldest
    BY <2>1, <2>3, <1>1
  <2>5. \A t \in Slots : silent[t] = aplist[t].timectr
    BY <2>2, <2>4 DEF ListInv, SilenceInv, Counted, Inactive
  <2>6. QED
    BY <2>4, <2>5, <1>1 DEF Oldest
<1>3. CASE TickExpire
  <2>1. s = i7 /\ Expired
    BY <1>1, <1>3 DEF TickExpire, ListInv, ListOK
  <2>2. silent[s] = aplist[s].timectr
    BY <2>1, <1>1, <1>3, ListAssumption DEF TickExpire, ListInv, SilenceInv, Counted, Slots
  <2>3. QED
    BY <2>1, <2>2 DEF Expired
<1>4. CASE TickStore
  BY <1>1, <1>4 DEF TickStore, ListInv, ListOK
<1>5. CASE ClearEntry
  BY <1>5 DEF ClearEntry
<1>6. CASE aplist' = aplist
  BY <1>1, <1>6
<1>7. QED
  <2>1. \/ \E a \in Ap : ProcessBeacon(a)
        \/ TickExpire \/ TickStore \/ ClearEntry
        \/ aplist' = aplist
    BY DEF Next, Update, StartScan, ChangeMode, Tick, TickSkip, TickLoad, ScanModeFilter,
       AskForMode, GetAPData, Reader, SearchEntry, CheckEntry, LockEntry, CopyBssid, CopyRest,
       ReleaseEntry, vars
  <2>2. QED
    BY <2>1, <1>2, <1>3, <1>4, <1>5, <1>6

(* "before any AP is removed from the list": where the interrupt does not   *)
(* nest, no access point disappears before its silence has lasted.          *)
THEOREM ListPatient == Spec => RemovedAfterSilence
<1>1. ListInv /\ [Next]_vars =>
        [pc7 # "clear" /\ ~ nested =>
          \A s \in Slots \ Inactive :
            ~ (aplist'[s].active /\ aplist'[s].bssid = aplist[s].bssid) =>
              \/ silent[s] > Timeout
              \/ Inactive = {} /\ \A t \in Slots : silent[s] >= silent[t]]_vars
  BY StepRemovesAfterSilence
<1>2. QED
  BY <1>1, ListInvariant, PTL DEF Spec, RemovedAfterSilence

=============================================================================
