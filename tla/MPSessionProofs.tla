--------------------------- MODULE MPSessionProofs ---------------------------
(***************************************************************************)
(* Proofs about MPHost and MPSession, for every number of consoles, slots, *)
(* frames and calls.  The table of the host is consistent and keeps what   *)
(* it has granted, also if the WiFi interrupt interrupts Wifi_NTR_Update;  *)
(* a packet is never given to the application as another player's; and     *)
(* the host and a console agree when no frame is on its way, if the        *)
(* interrupt does not nest.                                                *)
(***************************************************************************)
EXTENDS MPSession, FiniteSetTheorems, SequenceTheorems, WellFoundedInduction, TLAPS

-----------------------------------------------------------------------------
(* The inductive invariants *)

(* The slot that KickByAID is working on *)
Kicked == IF pc7 = "kicked" THEN {First(mask)} ELSE {}

(* The first half of a kick has been done; |= has loaded a mask of AIDs.    *)
LocalsInv ==
  /\ pc7 = "kicked" => mask # {} /\ First(mask) \notin Connected
  /\ pc9 = "or" => tmp9 \in (SUBSET Aids) \X Aids

(* A slot has its own AID, or none yet; a client has an address.            *)
SlotInv ==
  /\ \A a \in Aids : list[a].association_id \in {0, a}
  /\ \A a \in Associated : list[a].association_id = a
  /\ \A a \in Connected : list[a].macaddr \in Mac /\ a <= curMaxClients
  /\ \A a, b \in Connected : list[a].macaddr = list[b].macaddr => a = b

CountInv ==
  /\ num_connected = Cardinality(Connected \cup Kicked)
  /\ aid_mask \ ({0} \cup Kicked) = Associated

(* What was granted is kept, and nothing is granted outside of host mode.   *)
GrantInv ==
  /\ GrantedAidIsKept
  /\ curMode = "normal" \/ pc7 = "leave" => \A m \in Mac : told[m] = 0

HostInv == TypeOK /\ LocalsInv /\ SlotInv /\ CountInv /\ GrantInv

(* A slot that is associated belongs to the console that was told its AID.  *)
PlayerInv == \A a \in Associated : player[a] = list[a].macaddr

(* While a packet is looked up it is the first one, with the AID of a slot. *)
LookupInv == pc9 = "lookup" => rxbuf # <<>> /\ Head(rxbuf).aid \in Aids

HostFrame == [kind : {"auth", "assoc", "deauth"}, aid : 0 .. MaxClients,
              status : {"success", "full", "denied", "left"}]
ConsoleFrame == {"auth", "assoc", "deauth"}

AirOK ==
  /\ toHost \in [Mac -> Seq(ConsoleFrame)]
  /\ toStation \in [Mac -> Seq(HostFrame)]

(* The counter of retries passes its limit by two at most: a console gives  *)
(* up, a late refusal makes it try with other rates, and it gives up again. *)
RetryOK(s) ==
  \/ s.authctr <= WIFI_MAX_ASSOC_RETRY
  \/ s.authctr = WIFI_MAX_ASSOC_RETRY + 1 /\ (s.authlevel = "error" \/ ~ s.realRates)
  \/ s.authctr = WIFI_MAX_ASSOC_RETRY + 2 /\ s.authlevel = "error" /\ ~ s.realRates

RetryInv == \A m \in Mac : RetryOK(station[m])

SessionOK == SessionTypeOK /\ AirOK /\ RetryInv /\ PlayerInv /\ LookupInv

LastOf(q) == q[Len(q)]

(* A console that listens and has neither failed nor missed a frame         *)
Partner(m) == m \notin apart /\ station[m].hears /\ station[m].authlevel # "error"

(* Its last request on the way, or what became of it: a console that waits  *)
(* for the answer to an authentication is no client once the host has       *)
(* handled it; one that has sent an association request has the answer on   *)
(* its way, or a goodbye, or has got it.                                    *)
RequestOK(m) ==
  Partner(m) =>
    IF station[m].authlevel = "disconnected"
      THEN IF toHost[m] # <<>> THEN LastOf(toHost[m]) = "auth" ELSE told[m] = 0
      ELSE IF toHost[m] # <<>> THEN LastOf(toHost[m]) = "assoc" ELSE
           \/ \E i \in DOMAIN toStation[m] : toStation[m][i].kind = "deauth"
           \/ toStation[m] # <<>> /\ LastOf(toStation[m]).kind = "assoc"
           \/ /\ toStation[m] = <<>> /\ station[m].authlevel = "associated"
              /\ told[m] = station[m].curClientAID

(* A success that is the last frame on its way tells what the host keeps.   *)
AnswerOK(m) ==
  Partner(m) /\ toHost[m] = <<>> /\ toStation[m] # <<>>
  /\ LastOf(toStation[m]).kind = "assoc" /\ LastOf(toStation[m]).status = "success" =>
    told[m] = LastOf(toStation[m]).aid

(* A host that has closed down has said goodbye to everyone last.           *)
Closed == curMode = "normal" \/ pc7 = "leave"
ClosedOK(m) ==
  Closed =>
    /\ toStation[m] # <<>> => LastOf(toStation[m]).kind = "deauth"
    /\ Partner(m) /\ station[m].authlevel # "disconnected" => toStation[m] # <<>>

LinkOK(m) == RequestOK(m) /\ AnswerOK(m) /\ ClosedOK(m)
LinkInv == \A m \in Mac : LinkOK(m)

-----------------------------------------------------------------------------
(* Sets of slots *)

(* Every set of numbers that is not empty has a smallest one: the prefixes  *)
(* of the set are finite, and one of them has no smaller prefix.            *)
LEMMA LeastElement ==
  ASSUME NEW S \in SUBSET Nat, S # {}
  PROVE  \E s \in S : \A t \in S : s <= t
<1> DEFINE Upto(k) == {s \in S : s <= k}
           Parts == {Upto(k) : k \in S}
<1>1. Parts # {} /\ Parts \subseteq FiniteSubsetsOf(S)
  <2>1. ASSUME NEW k \in S PROVE Upto(k) \in FiniteSubsetsOf(S)
    <3>1. IsFiniteSet(Upto(k))
      BY FS_BoundedSetOfNaturals, k \in Nat, Upto(k) \in SUBSET Nat, \A s \in Upto(k) : s <= k
    <3>2. QED
      BY <3>1 DEF FiniteSubsetsOf
  <2>2. QED
    BY <2>1
<1>2. PICK T \in Parts : \A U \in Parts : <<U, T>> \notin StrictSubsetOrdering(S)
  <2> HIDE DEF Parts
  <2>1. QED
    BY <1>1, FS_StrictSubsetOrderingWellFounded, WFMin
<1>3. PICK k \in S : T = Upto(k)
  BY <1>2
<1>4. ASSUME NEW t \in S, ~ (k <= t) PROVE FALSE
  <2>1. k \in T /\ k \notin Upto(t)
    BY <1>3, <1>4
  <2>2. ASSUME NEW s \in Upto(t) PROVE s \in T
    <3>1. s \in Nat /\ t \in Nat /\ k \in Nat /\ s <= t
      OBVIOUS
    <3>2. s <= k
      BY <3>1, <1>4
    <3>3. QED
      BY <3>2, <1>3
  <2>3. <<Upto(t), T>> \in StrictSubsetOrdering(S)
    BY <2>1, <2>2, <1>3 DEF StrictSubsetOrdering
  <2>4. QED
    BY <2>3, <1>2
<1>5. QED
  BY <1>4

(* The loops over the slots find a slot of every set they look for.         *)
LEMMA FirstIsMember ==
  ASSUME NEW S \in SUBSET Aids, S # {}
  PROVE  First(S) \in S
<1>1. S \in SUBSET Nat
  BY HostAssumption DEF Aids
<1>2. \E s \in S : \A t \in S : s <= t
  BY <1>1, LeastElement
<1>3. QED
  BY <1>2 DEF First

(* The number of slots of a set, and what one slot more or less changes.    *)
LEMMA SlotCount ==
  ASSUME NEW S \in SUBSET Aids
  PROVE  /\ IsFiniteSet(S) /\ Cardinality(S) \in 0 .. MaxClients
         /\ \A a \in Aids \ S : Cardinality(S \cup {a}) = Cardinality(S) + 1
         /\ \A a \in S : Cardinality(S \ {a}) = Cardinality(S) - 1 /\ Cardinality(S) > 0
         /\ \A T \in SUBSET S : Cardinality(S \ T) = Cardinality(S) - Cardinality(T)
<1>1. IsFiniteSet(Aids) /\ Cardinality(Aids) = MaxClients
  BY FS_Interval, HostAssumption, 1 \in Int, MaxClients \in Int DEF Aids
<1>2. IsFiniteSet(S) /\ Cardinality(S) <= MaxClients
  BY <1>1, FS_Subset
<1>3. Cardinality(S) \in Nat
  BY <1>2, FS_CardinalityType
<1>4. ASSUME NEW a \in Aids \ S PROVE Cardinality(S \cup {a}) = Cardinality(S) + 1
  BY <1>2, FS_AddElement
<1>5. ASSUME NEW a \in S PROVE Cardinality(S \ {a}) = Cardinality(S) - 1 /\ Cardinality(S) > 0
  <2>1. Cardinality(S \ {a}) = Cardinality(S) - 1
    BY <1>2, FS_RemoveElement
  <2>2. Cardinality(S) # 0
    BY <1>2, FS_EmptySet
  <2>3. QED
    BY <2>1, <2>2, <1>3
<1>6. ASSUME NEW T \in SUBSET S PROVE Cardinality(S \ T) = Cardinality(S) - Cardinality(T)
  <2>1. Cardinality(S \ T) = Cardinality(S) - Cardinality(S \cap T)
    BY <1>2, FS_Difference
  <2>2. S \cap T = T
    OBVIOUS
  <2>3. QED
    BY <2>1, <2>2
<1>7. QED
  BY <1>2, <1>3, <1>4, <1>5, <1>6, HostAssumption

-----------------------------------------------------------------------------
(* The table of clients *)

Slot == [macaddr : Mac \cup {NoMac}, state : States, association_id : 0 .. MaxClients]

(* One slot gets another state: what that does to the sets of clients.      *)
LEMMA StateChange ==
  ASSUME TypeOK, NEW a \in Aids, NEW st \in States,
         list' = [list EXCEPT ![a].state = st]
  PROVE  /\ list' \in [Aids -> Slot]
         /\ \A b \in Aids : /\ list'[b].macaddr = list[b].macaddr
                            /\ list'[b].association_id = list[b].association_id
                            /\ b # a => list'[b] = list[b]
         /\ list'[a].state = st
         /\ st = "disconnected" => Connected' = Connected \ {a} /\ Associated' = Associated \ {a}
         /\ st = "authenticated" => Connected' = Connected \cup {a} /\ Associated' = Associated \ {a}
<1>1. list' \in [Aids -> Slot]
  BY DEF TypeOK, Slot
<1>2. /\ \A b \in Aids : /\ list'[b].macaddr = list[b].macaddr
                         /\ list'[b].association_id = list[b].association_id
                         /\ b # a => list'[b] = list[b]
      /\ list'[a].state = st
  BY DEF TypeOK
<1>3. QED
  BY <1>1, <1>2 DEF Connected, Associated

(* Grants to other consoles survive what happens to the slot of one.        *)
LEMMA OthersKeepGrants ==
  ASSUME TypeOK, GrantedAidIsKept, NEW m \in Mac, NEW a \in Aids,
         list[a].state = "associated" => list[a].macaddr = m,
         \A b \in Aids : b # a => list'[b] = list[b],
         aid_mask \ {0, a} \subseteq aid_mask',
         NEW n \in Mac, n # m, told[n] # 0
  PROVE  /\ list'[told[n]].macaddr = n
         /\ list'[told[n]].state = "associated"
         /\ told[n] \in aid_mask'
<1>1. told[n] \in Aids
  BY HostAssumption DEF TypeOK, Aids
<1>2. list[told[n]].macaddr = n /\ list[told[n]].state = "associated" /\ told[n] \in aid_mask
  BY DEF GrantedAidIsKept
<1>3. told[n] # a
  BY <1>2
<1>4. QED
  BY <1>1, <1>2, <1>3

(* When a frame arrives, no kick is half done.                              *)
LEMMA NoKickDuringFrame ==
  ASSUME FrameArrives, UNCHANGED arm7Vars
  PROVE  pc7 # "kicked" /\ Kicked = {} /\ Kicked' = {}
  BY DEF FrameArrives, Kicked, arm7Vars

(* The slots in which Wifi_MPHost_ClientGetByMacAddr looks, and the empty   *)
(* ones.                                                                    *)
LEMMA SlotsFacts ==
  ASSUME TypeOK, NEW m
  PROVE  /\ SlotsOf(m) \subseteq Connected /\ Connected \subseteq Aids
         /\ \A a \in SlotsOf(m) : list[a].macaddr = m
         /\ Associated \subseteq Connected
         /\ Empty \subseteq Aids /\ \A a \in Empty : a \notin Connected /\ a <= curMaxClients
         /\ SlotsOf(m) # {} => First(SlotsOf(m)) \in SlotsOf(m)
         /\ Empty # {} => First(Empty) \in Empty
<1>1. SlotsOf(m) \in SUBSET Aids /\ Empty \in SUBSET Aids
  BY DEF SlotsOf, Empty
<1>2. /\ SlotsOf(m) # {} => First(SlotsOf(m)) \in SlotsOf(m)
      /\ Empty # {} => First(Empty) \in Empty
  BY <1>1, FirstIsMember
<1>3. QED
  BY <1>1, <1>2 DEF SlotsOf, Empty, Connected, Associated

(* Wifi_MPHost_ProcessAuthentication: the client's slot is found or a free  *)
(* one is taken, so that no console gets two.                               *)
LEMMA AuthenticationKeeps ==
  ASSUME HostInv, NEW m \in Mac, ProcessAuthentication(m)
  PROVE  HostInv'
<1> USE DEF HostInv
<1> USE DEF modeVars, arm7Vars, arm9Vars, tableVars
<1>1. /\ FrameArrives
      /\ \/ SlotsOf(m) # {} /\ Reauthenticate(m)
         \/ SlotsOf(m) = {} /\ Empty # {} /\ AddClient(m)
         \/ UNCHANGED <<tableVars, beacon>>
      /\ told' = [told EXCEPT ![m] = 0]
      /\ UNCHANGED <<modeVars, arm7Vars, arm9Vars, kickMask, reqAllow, queuedBeacon>>
  BY DEF ProcessAuthentication, Grant
<1>2. pc7 # "kicked" /\ Kicked = {} /\ Kicked' = {}
  BY <1>1, NoKickDuringFrame
<1>3. /\ told' \in [Mac -> 0 .. MaxClients] /\ told'[m] = 0
      /\ \A n \in Mac : n # m => told'[n] = told[n]
  BY <1>1, HostAssumption DEF TypeOK
<1>4. LocalsInv'
  BY <1>1, <1>2 DEF LocalsInv
<1>5. CASE SlotsOf(m) # {} /\ Reauthenticate(m)
  <2> DEFINE a == First(SlotsOf(m))
  <2>1. a \in SlotsOf(m) /\ a \in Aids /\ a \in Connected /\ list[a].macaddr = m
    BY <1>5, SlotsFacts
  <2>2. /\ list' = [list EXCEPT ![a].state = "authenticated"]
        /\ aid_mask' = aid_mask \ {list[a].association_id}
        /\ UNCHANGED <<num_connected, beacon>>
    BY <1>5 DEF Reauthenticate
  <2> HIDE DEF a
  <2>3. /\ list' \in [Aids -> Slot]
        /\ \A b \in Aids : /\ list'[b].macaddr = list[b].macaddr
                           /\ list'[b].association_id = list[b].association_id
                           /\ b # a => list'[b] = list[b]
        /\ Connected' = Connected /\ Associated' = Associated \ {a}
    <3>1. "authenticated" \in States
      BY DEF States
    <3>2. /\ list' \in [Aids -> Slot]
          /\ \A b \in Aids : /\ list'[b].macaddr = list[b].macaddr
                             /\ list'[b].association_id = list[b].association_id
                             /\ b # a => list'[b] = list[b]
          /\ Connected' = Connected \cup {a} /\ Associated' = Associated \ {a}
      BY <2>1, <2>2, <3>1, StateChange
    <3>3. QED
      BY <2>1, <3>2
  <2>4. TypeOK'
    BY <1>1, <1>3, <2>2, <2>3 DEF TypeOK, Slot
  <2>5. SlotInv'
    BY <1>1, <2>3, SlotsFacts DEF SlotInv
  <2>6. CountInv'
    <3>1. aid_mask \ {0} = Associated /\ 0 \notin Aids
      BY <1>2 DEF CountInv, Aids
    <3>2. list[a].association_id = a \/ (list[a].association_id = 0 /\ a \notin Associated)
      BY <2>1, <3>1 DEF SlotInv
    <3>3. aid_mask' \ {0} = Associated \ {a}
      BY <2>2, <3>1, <3>2
    <3>4. QED
      BY <1>2, <2>2, <2>3, <3>3 DEF CountInv
  <2>7. GrantInv'
    <3>1. aid_mask \ {0, a} \subseteq aid_mask'
      BY <2>1, <2>2 DEF SlotInv
    <3>2. ASSUME NEW n \in Mac, n # m, told[n] # 0
          PROVE  list'[told[n]].macaddr = n /\ list'[told[n]].state = "associated" /\ told[n] \in aid_mask'
      BY <2>1, <2>3, <3>1, <3>2, OthersKeepGrants DEF GrantInv
    <3>3. QED
      BY <1>1, <1>3, <3>2 DEF GrantInv, GrantedAidIsKept
  <2>8. QED
    BY <1>4, <2>4, <2>5, <2>6, <2>7
<1>6. CASE SlotsOf(m) = {} /\ Empty # {} /\ AddClient(m)
  <2> DEFINE a == First(Empty)
  <2>1. a \in Aids /\ a \notin Connected /\ a <= curMaxClients
    BY <1>6, SlotsFacts
  <2>2. /\ list' = [list EXCEPT ![a].state = "authenticated", ![a].macaddr = m]
        /\ num_connected' = num_connected + 1
        /\ beacon' = WithPlayers(beacon, num_connected + 2)
        /\ UNCHANGED aid_mask
    BY <1>6 DEF AddClient
  <2> HIDE DEF a
  <2>3. /\ list' \in [Aids -> Slot]
        /\ \A b \in Aids : /\ list'[b].association_id = list[b].association_id
                           /\ b # a => list'[b] = list[b]
        /\ list'[a].macaddr = m /\ list'[a].state = "authenticated"
    BY <2>1, <2>2 DEF TypeOK, Slot, States
  <2>4. Connected' = Connected \cup {a} /\ Associated' = Associated
    BY <2>1, <2>3 DEF Connected, Associated
  <2>5. num_connected = Cardinality(Connected) /\ Connected \in SUBSET Aids
    BY <1>2, SlotsFacts DEF CountInv
  <2>6. /\ num_connected' = Cardinality(Connected') /\ num_connected' \in 0 .. MaxClients
        /\ num_connected + 2 \in 0 .. MaxClients + 1
    <3>1. Connected \cup {a} \in SUBSET Aids
      BY <2>1, <2>5
    <3>2. Cardinality(Connected \cup {a}) = num_connected + 1
      BY <2>1, <2>5, SlotCount
    <3>3. Cardinality(Connected \cup {a}) \in 0 .. MaxClients
      BY <3>1, SlotCount
    <3>4. QED
      BY <2>2, <2>4, <3>2, <3>3, HostAssumption DEF TypeOK
  <2>7. beacon' \in [on : BOOLEAN, players : 0 .. MaxClients + 1, allows : BOOLEAN]
    BY <2>2, <2>6 DEF TypeOK, WithPlayers
  <2>8. TypeOK'
    BY <1>1, <1>3, <2>2, <2>3, <2>6, <2>7 DEF TypeOK, Slot
  <2>9. SlotInv'
    <3>1. \A b \in Connected : list[b].macaddr # m
      BY <1>6 DEF SlotInv, SlotsOf, Connected
    <3>2. QED
      BY <1>1, <2>1, <2>3, <2>4, <2>5, <3>1, SlotsFacts DEF SlotInv
  <2>10. CountInv'
    BY <1>2, <2>2, <2>4, <2>6 DEF CountInv
  <2>11. GrantInv'
    <3>1. list[a].state # "associated" /\ aid_mask \ {0, a} \subseteq aid_mask'
      BY <2>1, <2>2 DEF Connected
    <3>2. ASSUME NEW n \in Mac, n # m, told[n] # 0
          PROVE  list'[told[n]].macaddr = n /\ list'[told[n]].state = "associated" /\ told[n] \in aid_mask'
      BY <2>1, <2>3, <3>1, <3>2, OthersKeepGrants DEF GrantInv
    <3>3. QED
      BY <1>1, <1>3, <3>2 DEF GrantInv, GrantedAidIsKept
  <2>12. QED
    BY <1>4, <2>8, <2>9, <2>10, <2>11
<1>7. CASE UNCHANGED <<tableVars, beacon>>
  <2>1. TypeOK'
    BY <1>1, <1>3, <1>7 DEF TypeOK
  <2>2. SlotInv' /\ CountInv'
    BY <1>1, <1>2, <1>7 DEF SlotInv, CountInv, Connected, Associated
  <2>3. GrantInv'
    BY <1>1, <1>3, <1>7 DEF GrantInv, GrantedAidIsKept
  <2>4. QED
    BY <1>4, <2>1, <2>2, <2>3
<1>8. QED
  BY <1>1, <1>5, <1>6, <1>7

(* A request that is answered with an error takes back what was granted.    *)
LEMMA RejectKeeps ==
  ASSUME HostInv, NEW m \in Mac, RejectRequest(m)
  PROVE  HostInv'
<1> USE DEF HostInv
<1> USE DEF modeVars, arm7Vars, arm9Vars, tableVars
<1>1. /\ told' = [told EXCEPT ![m] = 0]
      /\ UNCHANGED <<tableVars, modeVars, arm7Vars, arm9Vars, kickMask, reqAllow, beacon, queuedBeacon>>
  BY DEF RejectRequest, Grant
<1>2. TypeOK'
  BY <1>1, HostAssumption DEF TypeOK
<1>3. LocalsInv' /\ SlotInv' /\ CountInv'
  BY <1>1 DEF LocalsInv, SlotInv, CountInv, Connected, Associated, Kicked
<1>4. GrantInv'
  BY <1>1 DEF GrantInv, GrantedAidIsKept, TypeOK
<1>5. QED
  BY <1>2, <1>3, <1>4

(* What Wifi_MPHost_ClientAssociate returns is the slot of the client.      *)
LEMMA AssociateFacts ==
  ASSUME HostInv, NEW m \in Mac
  PROVE  /\ AssociateResult(m) \in 0 .. MaxClients
         /\ AssociateResult(m) # 0 => /\ AssociateResult(m) = First(SlotsOf(m))
                                      /\ AssociateResult(m) \in SlotsOf(m)
         /\ AssociateResult(m) = 0 => ~ reqAllow \/ SlotsOf(m) = {}
<1>1. CASE ~ reqAllow \/ SlotsOf(m) = {}
  BY <1>1, HostAssumption DEF AssociateResult
<1>2. CASE reqAllow /\ SlotsOf(m) # {}
  <2>1. First(SlotsOf(m)) \in SlotsOf(m) /\ First(SlotsOf(m)) \in Aids
    BY <1>2, SlotsFacts DEF HostInv
  <2>2. AssociateResult(m) = First(SlotsOf(m))
    BY <1>2, <2>1 DEF AssociateResult, HostInv, SlotInv, Associated
  <2>3. QED
    BY <2>1, <2>2, HostAssumption DEF Aids
<1>3. QED
  BY <1>1, <1>2

(* Wifi_MPHost_ProcessAssocRequest: the slot of the client becomes or stays *)
(* associated, and its AID is what the client is told.                      *)
LEMMA AssociationKeeps ==
  ASSUME HostInv, NEW m \in Mac, ProcessAssocRequest(m)
  PROVE  HostInv'
<1> USE DEF HostInv
<1> USE DEF modeVars, arm7Vars, arm9Vars
<1> DEFINE a == First(SlotsOf(m))
           r == AssociateResult(m)
<1>1. /\ FrameArrives
      /\ IF r = 0 \/ list[a].state = "associated"
           THEN UNCHANGED <<list, aid_mask>>
           ELSE /\ list' = [list EXCEPT ![a].state = "associated", ![a].association_id = a]
                /\ aid_mask' = aid_mask \cup {a}
      /\ told' = [told EXCEPT ![m] = IF pc7 = "leave" THEN 0 ELSE r]
      /\ UNCHANGED <<num_connected, modeVars, arm7Vars, arm9Vars, kickMask, reqAllow, beacon, queuedBeacon>>
  BY DEF ProcessAssocRequest, Grant
<1>2. pc7 # "kicked" /\ Kicked = {} /\ Kicked' = {} /\ curMode = "host"
  BY <1>1, NoKickDuringFrame DEF FrameArrives
<1>3. /\ r \in 0 .. MaxClients
      /\ r # 0 => r = a /\ a \in Aids /\ a \in Connected /\ list[a].macaddr = m
  BY AssociateFacts, SlotsFacts
<1> HIDE DEF a, r
<1>4. /\ told' \in [Mac -> 0 .. MaxClients] /\ told'[m] \in {0, r} /\ (pc7 = "leave" => told'[m] = 0)
      /\ \A n \in Mac : n # m => told'[n] = told[n]
  BY <1>1, <1>3, HostAssumption DEF TypeOK
<1>5. CASE r = 0 \/ list[a].state = "associated"
  <2>1. UNCHANGED <<list, aid_mask>>
    BY <1>1, <1>5
  <2>2. TypeOK'
    BY <1>1, <1>4, <2>1 DEF TypeOK
  <2>3. LocalsInv' /\ SlotInv' /\ CountInv'
    BY <1>1, <1>2, <2>1 DEF LocalsInv, SlotInv, CountInv, Connected, Associated
  <2>4. GrantInv'
    <3>1. r # 0 => list[r].macaddr = m /\ list[r].state = "associated" /\ r \in aid_mask
      BY <1>2, <1>3, <1>5 DEF CountInv, Associated
    <3>2. QED
      BY <1>1, <1>2, <1>4, <2>1, <3>1 DEF GrantInv, GrantedAidIsKept
  <2>5. QED
    BY <2>2, <2>3, <2>4
<1>6. CASE r # 0 /\ list[a].state # "associated"
  <2>1. /\ list' = [list EXCEPT ![a].state = "associated", ![a].association_id = a]
        /\ aid_mask' = aid_mask \cup {a}
    BY <1>1, <1>6
  <2>2. a \in Aids /\ a \in Connected /\ list[a].macaddr = m /\ r = a /\ a \in 1 .. MaxClients
    BY <1>3, <1>6 DEF Aids
  <2>3. /\ list' \in [Aids -> Slot]
        /\ \A b \in Aids : list'[b].macaddr = list[b].macaddr /\ (b # a => list'[b] = list[b])
        /\ list'[a].state = "associated" /\ list'[a].association_id = a
    <3>1. a \in 0 .. MaxClients /\ "associated" \in States
      BY <2>2, HostAssumption DEF States
    <3>2. QED
      BY <2>1, <2>2, <3>1 DEF TypeOK, Slot
  <2>4. Connected' = Connected /\ Associated' = Associated \cup {a}
    BY <2>2, <2>3 DEF Connected, Associated
  <2>5. TypeOK'
    BY <1>1, <1>4, <2>1, <2>2, <2>3, HostAssumption DEF TypeOK, Slot
  <2>6. LocalsInv'
    BY <1>1, <1>2 DEF LocalsInv
  <2>7. SlotInv'
    BY <1>1, <2>2, <2>3, <2>4, SlotsFacts DEF SlotInv
  <2>8. CountInv'
    BY <1>1, <1>2, <2>1, <2>2, <2>4 DEF CountInv
  <2>9. GrantInv'
    <3>0. aid_mask \ {0, a} \subseteq aid_mask' /\ a \in aid_mask'
      BY <2>1
    <3>1. ASSUME NEW n \in Mac, n # m, told[n] # 0
          PROVE  list'[told[n]].macaddr = n /\ list'[told[n]].state = "associated" /\ told[n] \in aid_mask'
      BY <2>2, <2>3, <3>0, <3>1, OthersKeepGrants DEF GrantInv
    <3>2. list'[a].macaddr = m
      BY <2>2, <2>3
    <3>3. QED
      BY <1>1, <1>2, <1>4, <2>2, <2>3, <3>0, <3>1, <3>2 DEF GrantInv, GrantedAidIsKept
  <2>10. QED
    BY <2>5, <2>6, <2>7, <2>8, <2>9
<1>7. QED
  BY <1>5, <1>6

(* A client is taken from the table, of which no kick is half done: the     *)
(* count, the mask and the list lose the same slot.                         *)
LEMMA RemoveFacts ==
  ASSUME HostInv, Kicked = {}, NEW a \in Connected,
         list' = [list EXCEPT ![a].state = "disconnected"]
  PROVE  /\ a \in Aids /\ list' \in [Aids -> Slot]
         /\ \A b \in Aids : /\ list'[b].macaddr = list[b].macaddr
                            /\ list'[b].association_id = list[b].association_id
                            /\ b # a => list'[b] = list[b]
         /\ Connected' = Connected \ {a} /\ Associated' = Associated \ {a}
         /\ aid_mask \ {0} = Associated /\ 0 \notin Aids
         /\ num_connected = Cardinality(Connected)
         /\ num_connected - 1 = Cardinality(Connected') /\ num_connected - 1 \in 0 .. MaxClients
<1> USE DEF HostInv
<1>1. a \in Aids /\ Connected \in SUBSET Aids /\ 0 \notin Aids
  BY DEF Connected, Aids
<1>2. "disconnected" \in States
  BY DEF States
<1>3. /\ list' \in [Aids -> Slot]
      /\ \A b \in Aids : /\ list'[b].macaddr = list[b].macaddr
                         /\ list'[b].association_id = list[b].association_id
                         /\ b # a => list'[b] = list[b]
      /\ Connected' = Connected \ {a} /\ Associated' = Associated \ {a}
  BY <1>1, <1>2, StateChange
<1>4. num_connected = Cardinality(Connected) /\ aid_mask \ {0} = Associated
  BY DEF CountInv
<1>5. Cardinality(Connected \ {a}) = Cardinality(Connected) - 1 /\ Cardinality(Connected) > 0
      /\ Cardinality(Connected) \in 0 .. MaxClients
  BY <1>1, SlotCount
<1>6. QED
  BY <1>1, <1>3, <1>4, <1>5, HostAssumption

(* Wifi_MPHost_ProcessDeauthentication: a client leaves.                    *)
LEMMA DeauthenticationKeeps ==
  ASSUME HostInv, NEW m \in Mac, ProcessDeauthentication(m)
  PROVE  HostInv'
<1> USE DEF HostInv
<1> USE DEF modeVars, arm7Vars, arm9Vars, tableVars
<1> DEFINE a == First(SlotsOf(m))
<1>1. /\ FrameArrives
      /\ IF SlotsOf(m) = {}
           THEN UNCHANGED <<tableVars, beacon>>
           ELSE /\ list' = [list EXCEPT ![a].state = "disconnected"]
                /\ aid_mask' = aid_mask \ {list[a].association_id}
                /\ num_connected' = num_connected - 1
                /\ beacon' = WithPlayers(beacon, num_connected)
      /\ told' = [told EXCEPT ![m] = 0]
      /\ UNCHANGED <<modeVars, arm7Vars, arm9Vars, kickMask, reqAllow, queuedBeacon>>
  BY DEF ProcessDeauthentication, Grant
<1>2. pc7 # "kicked" /\ Kicked = {} /\ Kicked' = {}
  BY <1>1, NoKickDuringFrame
<1>3. /\ told' \in [Mac -> 0 .. MaxClients] /\ told'[m] = 0
      /\ \A n \in Mac : n # m => told'[n] = told[n]
  BY <1>1, HostAssumption DEF TypeOK
<1>4. LocalsInv'
  BY <1>1, <1>2 DEF LocalsInv
<1>5. CASE SlotsOf(m) = {}
  <2>1. UNCHANGED <<tableVars, beacon>>
    BY <1>1, <1>5
  <2>2. TypeOK'
    BY <1>1, <1>3, <2>1 DEF TypeOK
  <2>3. SlotInv' /\ CountInv'
    BY <1>1, <1>2, <2>1 DEF SlotInv, CountInv, Connected, Associated
  <2>4. GrantInv'
    BY <1>1, <1>3, <2>1 DEF GrantInv, GrantedAidIsKept
  <2>5. QED
    BY <1>4, <2>2, <2>3, <2>4
<1>6. CASE SlotsOf(m) # {}
  <2>1. a \in Connected /\ list[a].macaddr = m
    BY <1>6, SlotsFacts
  <2>2. /\ list' = [list EXCEPT ![a].state = "disconnected"]
        /\ aid_mask' = aid_mask \ {list[a].association_id}
        /\ num_connected' = num_connected - 1
        /\ beacon' = WithPlayers(beacon, num_connected)
    BY <1>1, <1>6
  <2> HIDE DEF a
  <2>3. /\ a \in Aids /\ list' \in [Aids -> Slot]
        /\ \A b \in Aids : /\ list'[b].macaddr = list[b].macaddr
                           /\ list'[b].association_id = list[b].association_id
                           /\ b # a => list'[b] = list[b]
        /\ Connected' = Connected \ {a} /\ Associated' = Associated \ {a}
        /\ aid_mask \ {0} = Associated /\ 0 \notin Aids
        /\ num_connected - 1 = Cardinality(Connected') /\ num_connected - 1 \in 0 .. MaxClients
    BY <1>2, <2>1, <2>2, RemoveFacts
  <2>4. beacon' \in [on : BOOLEAN, players : 0 .. MaxClients + 1, allows : BOOLEAN]
    <3>1. num_connected \in 0 .. MaxClients + 1
      BY HostAssumption DEF TypeOK
    <3>2. QED
      BY <2>2, <3>1 DEF TypeOK, WithPlayers
  <2>5. TypeOK'
    BY <1>1, <1>3, <2>2, <2>3, <2>4 DEF TypeOK, Slot
  <2>6. SlotInv'
    BY <1>1, <2>3, SlotsFacts DEF SlotInv
  <2>7. list[a].association_id = a \/ (list[a].association_id = 0 /\ a \notin Associated)
    BY <2>3 DEF SlotInv
  <2>8. CountInv'
    <3>1. aid_mask' \ {0} = Associated \ {a}
      BY <2>2, <2>3, <2>7
    <3>2. QED
      BY <1>2, <2>2, <2>3, <3>1 DEF CountInv
  <2>9. GrantInv'
    <3>1. aid_mask \ {0, a} \subseteq aid_mask'
      BY <2>2, <2>7
    <3>2. ASSUME NEW n \in Mac, n # m, told[n] # 0
          PROVE  list'[told[n]].macaddr = n /\ list'[told[n]].state = "associated" /\ told[n] \in aid_mask'
      BY <2>1, <2>3, <3>1, <3>2, OthersKeepGrants DEF GrantInv
    <3>3. QED
      BY <1>1, <1>3, <3>2 DEF GrantInv, GrantedAidIsKept
  <2>10. QED
    BY <1>4, <2>5, <2>6, <2>8, <2>9
<1>7. QED
  BY <1>5, <1>6

(* Wifi_MPHost_ResetClients, when nothing is granted any more.              *)
LEMMA ResetKeeps ==
  ASSUME HostInv, ResetClients, pc7 = "idle", pc7' # "kicked",
         UNCHANGED <<arm9Vars, kickMask, mask, reqAllow, queuedBeacon, reqMode, reqMaxClients>>,
         curMode' \in {"normal", "host"}, curMaxClients' \in 0 .. MaxClients,
         pc7' \in {"flush", "leave"},
         told' \in [Mac -> 0 .. MaxClients], \A m \in Mac : told'[m] = 0
  PROVE  HostInv'
<1> USE DEF HostInv
<1> USE DEF arm9Vars
<1>1. /\ list' = Cleared /\ num_connected' = 0 /\ aid_mask' = {0}
      /\ beacon' = WithPlayers(beacon, 1)
  BY DEF ResetClients
<1>2. list' \in [Aids -> Slot] /\ Connected' = {} /\ Associated' = {}
      /\ \A a \in Aids : list'[a].association_id = 0
  BY <1>1, HostAssumption DEF Cleared, Slot, States, Connected, Associated
<1>3. beacon' \in [on : BOOLEAN, players : 0 .. MaxClients + 1, allows : BOOLEAN]
  BY <1>1, HostAssumption DEF WithPlayers, TypeOK
<1>4. TypeOK'
  BY <1>1, <1>2, <1>3, HostAssumption DEF TypeOK, Slot
<1>5. LocalsInv'
  BY DEF LocalsInv
<1>6. SlotInv'
  BY <1>2 DEF SlotInv
<1>7. CountInv'
  <2>1. Kicked' = {} /\ Cardinality({}) = 0
    BY FS_EmptySet DEF Kicked
  <2>2. QED
    BY <1>1, <1>2, <2>1 DEF CountInv
<1>8. GrantInv'
  BY DEF GrantInv, GrantedAidIsKept
<1>9. QED
  BY <1>4, <1>5, <1>6, <1>7, <1>8

(* The host mode begins, and ends with Wifi_MPHost_ClientKickAll.           *)
LEMMA HostModeKeeps ==
  ASSUME HostInv, EnterHostMode \/ KickAll \/ LeaveHostMode
  PROVE  HostInv'
<1> USE DEF modeVars, arm7Vars, arm9Vars, tableVars
<1>1. CASE EnterHostMode
  <2>1. /\ pc7 = "idle" /\ pc7' = "flush" /\ ResetClients /\ curMaxClients' = reqMaxClients
        /\ curMode = "normal" /\ curMode' = "host"
        /\ UNCHANGED <<arm9Vars, kickMask, mask, reqAllow, queuedBeacon, reqMode, reqMaxClients, told>>
    BY <1>1 DEF EnterHostMode, Goto7
  <2>2. /\ curMaxClients' \in 0 .. MaxClients
        /\ told' \in [Mac -> 0 .. MaxClients] /\ \A m \in Mac : told'[m] = 0
    BY <2>1 DEF HostInv, TypeOK, GrantInv
  <2>3. QED
    BY <2>1, <2>2, ResetKeeps
<1>2. CASE KickAll
  <2>1. /\ pc7 = "idle" /\ pc7' = "leave" /\ ResetClients /\ told' = [m \in Mac |-> 0]
        /\ UNCHANGED <<arm9Vars, kickMask, mask, reqAllow, queuedBeacon, modeVars>>
    BY <1>2 DEF KickAll, Goto7
  <2>2. /\ curMaxClients' \in 0 .. MaxClients /\ curMode' \in {"normal", "host"}
        /\ told' \in [Mac -> 0 .. MaxClients] /\ \A m \in Mac : told'[m] = 0
    BY <2>1, HostAssumption DEF HostInv, TypeOK
  <2>3. QED
    BY <2>1, <2>2, ResetKeeps
<1>3. CASE LeaveHostMode
  <2>1. /\ pc7 = "leave" /\ pc7' = "flush" /\ beacon' = BeaconOff /\ curMode' = "normal"
        /\ UNCHANGED <<tableVars, reqMode, curMaxClients, reqMaxClients, mask, arm9Vars, kickMask,
                       reqAllow, queuedBeacon, told>>
    BY <1>3 DEF LeaveHostMode, Goto7
  <2>2. TypeOK'
    BY <2>1, HostAssumption DEF HostInv, TypeOK, BeaconOff
  <2>3. LocalsInv' /\ SlotInv' /\ CountInv' /\ GrantInv'
    BY <2>1 DEF HostInv, LocalsInv, SlotInv, CountInv, GrantInv, GrantedAidIsKept, Connected, Associated, Kicked
  <2>4. QED
    BY <2>2, <2>3 DEF HostInv
<1>4. QED
  BY <1>1, <1>2, <1>3

(* The first half of a kick: the slot leaves the list, and is still counted. *)
LEMMA KickKeeps ==
  ASSUME HostInv, KickByAID
  PROVE  HostInv'
<1> USE DEF HostInv
<1> USE DEF modeVars, arm9Vars
<1> DEFINE a == First(mask)
<1>1. /\ pc7 = "kick" /\ mask # {}
      /\ IF Kickable(a)
           THEN /\ told' = [told EXCEPT ![list[a].macaddr] = 0]
                /\ list' = [list EXCEPT ![a].state = "disconnected"]
                /\ pc7' = "kicked" /\ UNCHANGED mask
           ELSE mask' = mask \ {a} /\ UNCHANGED <<told, list, pc7>>
      /\ UNCHANGED <<aid_mask, num_connected, modeVars, arm9Vars, kickMask, reqAllow, beacon, queuedBeacon>>
  BY DEF KickByAID, Goto7
<1>2. a \in mask /\ a \in Aids /\ Kicked = {}
  BY <1>1, FirstIsMember DEF TypeOK, Kicked
<1>3. CASE Kickable(a)
  <2>1. /\ told' = [told EXCEPT ![list[a].macaddr] = 0]
        /\ list' = [list EXCEPT ![a].state = "disconnected"]
        /\ pc7' = "kicked" /\ UNCHANGED mask
    BY <1>1, <1>3
  <2>2. a \in Connected
    BY <1>2, <1>3 DEF Kickable, Connected
  <2>3. Kicked' = {a}
    BY <2>1 DEF Kicked, First
  <2> HIDE DEF a
  <2>4. /\ list' \in [Aids -> Slot]
        /\ \A b \in Aids : /\ list'[b].macaddr = list[b].macaddr
                           /\ list'[b].association_id = list[b].association_id
                           /\ b # a => list'[b] = list[b]
        /\ Connected' = Connected \ {a} /\ Associated' = Associated \ {a}
        /\ aid_mask \ {0} = Associated /\ 0 \notin Aids
        /\ num_connected = Cardinality(Connected)
    BY <1>2, <2>1, <2>2, RemoveFacts
  <2>5. list[a].macaddr \in Mac
    BY <2>2 DEF SlotInv
  <2>6. /\ told' \in [Mac -> 0 .. MaxClients] /\ told'[list[a].macaddr] = 0
        /\ \A n \in Mac : n # list[a].macaddr => told'[n] = told[n]
    BY <2>1, <2>5, HostAssumption DEF TypeOK
  <2>7. TypeOK'
    BY <1>1, <2>1, <2>4, <2>6 DEF TypeOK, Slot
  <2>8. LocalsInv'
    <3>1. First(mask)' = a
      BY <2>1 DEF a, First
    <3>2. QED
      BY <1>1, <2>1, <2>4, <3>1 DEF LocalsInv
  <2>9. SlotInv'
    BY <1>1, <2>4, SlotsFacts DEF SlotInv
  <2>10. CountInv'
    <3>1. Connected' \cup {a} = Connected
      BY <2>2, <2>4
    <3>2. aid_mask' \ ({0} \cup {a}) = Associated \ {a}
      BY <1>1, <2>4
    <3>3. QED
      BY <1>1, <2>3, <2>4, <3>1, <3>2 DEF CountInv
  <2>11. GrantInv'
    <3>1. aid_mask \ {0, a} \subseteq aid_mask'
      BY <1>1
    <3>2. ASSUME NEW n \in Mac, n # list[a].macaddr, told[n] # 0
          PROVE  list'[told[n]].macaddr = n /\ list'[told[n]].state = "associated" /\ told[n] \in aid_mask'
      BY <1>2, <2>4, <2>5, <3>1, <3>2, OthersKeepGrants DEF GrantInv
    <3>3. QED
      BY <1>1, <2>1, <2>6, <3>2 DEF GrantInv, GrantedAidIsKept
  <2>12. QED
    BY <2>7, <2>8, <2>9, <2>10, <2>11
<1>4. CASE ~ Kickable(a)
  <2>1. mask' = mask \ {a} /\ UNCHANGED <<told, list, pc7>>
    BY <1>1, <1>4
  <2>2. TypeOK'
    BY <1>1, <2>1 DEF TypeOK
  <2>3. LocalsInv' /\ SlotInv' /\ CountInv' /\ GrantInv'
    BY <1>1, <2>1 DEF LocalsInv, SlotInv, CountInv, GrantInv, GrantedAidIsKept, Connected, Associated, Kicked
  <2>4. QED
    BY <2>2, <2>3
<1>5. QED
  BY <1>3, <1>4

(* The second half: the count and the mask follow.                          *)
LEMMA FinishKickKeeps ==
  ASSUME HostInv, FinishKick
  PROVE  HostInv'
<1> USE DEF HostInv
<1> USE DEF modeVars, arm9Vars
<1> DEFINE a == First(mask)
<1>1. /\ pc7 = "kicked" /\ pc7' = "kick"
      /\ aid_mask' = aid_mask \ {a} /\ num_connected' = num_connected - 1
      /\ beacon' = WithPlayers(beacon, num_connected) /\ mask' = mask \ {a}
      /\ UNCHANGED <<list, modeVars, arm9Vars, kickMask, reqAllow, queuedBeacon, told>>
  BY DEF FinishKick, Goto7
<1>2. a \in Aids /\ a \notin Connected /\ Kicked = {a} /\ Kicked' = {}
  <2>1. mask # {} /\ a \notin Connected
    BY <1>1 DEF LocalsInv
  <2>2. a \in mask
    BY <2>1, FirstIsMember DEF TypeOK
  <2>3. QED
    BY <1>1, <2>1, <2>2 DEF TypeOK, Kicked
<1> HIDE DEF a
<1>3. Connected' = Connected /\ Associated' = Associated /\ Connected \in SUBSET Aids
      /\ Associated \subseteq Connected
  BY <1>1 DEF Connected, Associated
<1>4. num_connected - 1 = Cardinality(Connected) /\ num_connected - 1 \in 0 .. MaxClients
  <2>1. num_connected = Cardinality(Connected) + 1
    BY <1>2, <1>3, SlotCount DEF CountInv
  <2>2. Cardinality(Connected) \in 0 .. MaxClients
    BY <1>3, SlotCount
  <2>3. QED
    BY <2>1, <2>2, HostAssumption
<1>5. beacon' \in [on : BOOLEAN, players : 0 .. MaxClients + 1, allows : BOOLEAN]
  <2>1. num_connected \in 0 .. MaxClients + 1
    BY HostAssumption DEF TypeOK
  <2>2. QED
    BY <1>1, <2>1 DEF TypeOK, WithPlayers
<1>6. TypeOK'
  BY <1>1, <1>4, <1>5 DEF TypeOK
<1>7. LocalsInv' /\ SlotInv'
  BY <1>1, <1>3 DEF LocalsInv, SlotInv
<1>8. CountInv'
  <2>1. aid_mask \ ({0} \cup {a}) = Associated
    BY <1>2 DEF CountInv
  <2>2. aid_mask' \ {0} = Associated
    BY <1>1, <2>1
  <2>3. QED
    BY <1>1, <1>2, <1>3, <1>4, <2>2 DEF CountInv
<1>9. GrantInv'
  <2>1. ASSUME NEW m \in Mac, told[m] # 0 PROVE told[m] # a
    <3>1. list[told[m]].state = "associated"
      BY <2>1 DEF GrantInv, GrantedAidIsKept
    <3>2. QED
      BY <1>2, <3>1 DEF Connected
  <2>2. QED
    BY <1>1, <2>1 DEF GrantInv, GrantedAidIsKept
<1>10. QED
  BY <1>6, <1>7, <1>8, <1>9

(* Closing the host drops those that are not associated yet.                *)
LEMMA UpdateAllowKeeps ==
  ASSUME HostInv, UpdateAllow
  PROVE  HostInv'
<1> USE DEF HostInv
<1> USE DEF modeVars, arm9Vars, tableVars
<1>1. /\ pc7 = "allow" /\ pc7' = "flush"
      /\ UNCHANGED <<modeVars, mask, arm9Vars, kickMask, reqAllow, queuedBeacon>>
  BY DEF UpdateAllow, Goto7
<1>2. Kicked = {} /\ Kicked' = {}
  BY <1>1 DEF Kicked
<1>3. LocalsInv'
  BY <1>1 DEF LocalsInv
<1>4. CASE BeaconAllows /\ ~ reqAllow
  <2>1. /\ list' = [a \in Aids |-> IF a \in Joining THEN [list[a] EXCEPT !.state = "disconnected"] ELSE list[a]]
        /\ aid_mask' = aid_mask \ Joining
        /\ num_connected' = num_connected - Cardinality(Joining)
        /\ beacon' = WithPlayers(WithAllows(beacon, FALSE), num_connected' + 1)
        /\ told' = [m \in Mac |-> IF \E a \in Joining : list[a].macaddr = m THEN 0 ELSE told[m]]
    BY <1>4 DEF UpdateAllow
  <2>2. Joining \in SUBSET Connected /\ Connected \in SUBSET Aids /\ Joining \cap Associated = {}
        /\ Associated \subseteq Connected
    BY DEF Joining, Connected, Associated
  <2>3. /\ list' \in [Aids -> Slot]
        /\ \A b \in Aids : /\ list'[b].macaddr = list[b].macaddr
                           /\ list'[b].association_id = list[b].association_id
                           /\ b \notin Joining => list'[b] = list[b]
                           /\ b \in Joining => list'[b].state = "disconnected"
    BY <2>1 DEF TypeOK, Slot, States
  <2>4. Connected' = Connected \ Joining /\ Associated' = Associated
    BY <2>2, <2>3 DEF Connected, Associated
  <2>5. num_connected' = Cardinality(Connected') /\ num_connected' \in 0 .. MaxClients
    <3>1. num_connected = Cardinality(Connected)
      BY <1>2 DEF CountInv
    <3>2. Cardinality(Connected \ Joining) = Cardinality(Connected) - Cardinality(Joining)
      BY <2>2, SlotCount
    <3>3. Cardinality(Connected \ Joining) \in 0 .. MaxClients
      <4>1. Connected \ Joining \in SUBSET Aids
        BY <2>2
      <4>2. QED
        BY <4>1, SlotCount
    <3>4. QED
      BY <2>1, <2>4, <3>1, <3>2, <3>3
  <2>6. beacon' \in [on : BOOLEAN, players : 0 .. MaxClients + 1, allows : BOOLEAN]
    <3>1. num_connected' + 1 \in 0 .. MaxClients + 1
      BY <2>5, HostAssumption
    <3>2. WithAllows(beacon, FALSE) \in [on : BOOLEAN, players : 0 .. MaxClients + 1, allows : BOOLEAN]
      BY DEF TypeOK, WithAllows
    <3>3. QED
      BY <2>1, <3>1, <3>2 DEF WithPlayers
  <2>7. told' \in [Mac -> 0 .. MaxClients] /\ \A m \in Mac : told'[m] \in {0, told[m]}
    BY <2>1, HostAssumption DEF TypeOK
  <2>8. TypeOK'
    BY <1>1, <2>1, <2>3, <2>5, <2>6, <2>7 DEF TypeOK, Slot
  <2>9. SlotInv'
    BY <1>1, <2>2, <2>3, <2>4 DEF SlotInv
  <2>10. CountInv'
    <3>1. aid_mask \ {0} = Associated
      BY <1>2 DEF CountInv
    <3>2. aid_mask' \ {0} = Associated
      BY <2>1, <2>2, <3>1
    <3>3. QED
      BY <1>2, <2>4, <2>5, <3>2 DEF CountInv
  <2>11. GrantInv'
    <3>1. ASSUME NEW m \in Mac, told'[m] # 0
          PROVE  /\ list'[told'[m]].macaddr = m /\ list'[told'[m]].state = "associated"
                 /\ told'[m] \in aid_mask'
      <4>1. told'[m] = told[m] /\ told[m] \in Aids
        BY <2>7, <3>1, HostAssumption DEF TypeOK, Aids
      <4>2. list[told[m]].macaddr = m /\ list[told[m]].state = "associated" /\ told[m] \in aid_mask
        BY <3>1, <4>1 DEF GrantInv, GrantedAidIsKept
      <4>3. told[m] \notin Joining
        BY <4>2 DEF Joining
      <4>4. QED
        BY <2>1, <2>3, <4>1, <4>2, <4>3
    <3>2. QED
      BY <1>1, <2>7, <3>1 DEF GrantInv, GrantedAidIsKept
  <2>12. QED
    BY <1>3, <2>8, <2>9, <2>10, <2>11
<1>5. CASE ~ (BeaconAllows /\ ~ reqAllow)
  <2>1. beacon' = WithAllows(beacon, reqAllow) /\ UNCHANGED <<tableVars, told>>
    BY <1>5 DEF UpdateAllow
  <2>2. TypeOK'
    BY <1>1, <2>1 DEF TypeOK, WithAllows
  <2>3. SlotInv' /\ CountInv' /\ GrantInv'
    BY <1>1, <1>2, <2>1 DEF SlotInv, CountInv, GrantInv, GrantedAidIsKept, Connected, Associated
  <2>4. QED
    BY <1>3, <2>2, <2>3
<1>6. QED
  BY <1>4, <1>5

(* The other steps of Wifi_NTR_Update leave the table alone.                *)
LEMMA QuietUpdateKeeps ==
  ASSUME HostInv,
         StayNormal \/ ReadKickMask \/ ClearKickMask \/ KicksDone \/ FlushBeacon \/ FlushOther
  PROVE  HostInv'
<1> USE DEF HostInv
<1> USE DEF modeVars, arm9Vars, tableVars, Goto7
<1>1. UNCHANGED <<tableVars, modeVars, arm9Vars, reqAllow, told>>
  BY DEF StayNormal, ReadKickMask, ClearKickMask, KicksDone, FlushBeacon, FlushOther
<1>2. /\ pc7 # "kicked" /\ pc7' \in {"flush", "allow", "clear", "kick", "idle"}
      /\ mask' \subseteq Aids /\ kickMask' \subseteq Aids /\ queuedBeacon' \subseteq BOOLEAN
  BY DEF StayNormal, ReadKickMask, ClearKickMask, KicksDone, FlushBeacon, FlushOther, TypeOK
<1>3. beacon' \in [on : BOOLEAN, players : 0 .. MaxClients + 1, allows : BOOLEAN]
  <2>1. CASE FlushBeacon
    <3>1. 1 \in 0 .. MaxClients + 1
      BY HostAssumption
    <3>2. PICK allow \in queuedBeacon : beacon' = [on |-> TRUE, players |-> 1, allows |-> allow]
      BY <2>1 DEF FlushBeacon
    <3>3. QED
      BY <3>1, <3>2 DEF TypeOK
  <2>2. CASE UNCHANGED beacon
    BY <2>2 DEF TypeOK
  <2>3. QED
    BY <2>1, <2>2 DEF StayNormal, ReadKickMask, ClearKickMask, KicksDone, FlushOther
<1>4. TypeOK'
  BY <1>1, <1>2, <1>3 DEF TypeOK
<1>5. LocalsInv' /\ GrantInv'
  BY <1>1, <1>2 DEF LocalsInv, GrantInv, GrantedAidIsKept
<1>6. SlotInv' /\ CountInv'
  <2>1. Kicked = {} /\ Kicked' = {} /\ Connected' = Connected /\ Associated' = Associated
    BY <1>1, <1>2 DEF Kicked, Connected, Associated
  <2>2. QED
    BY <1>1, <2>1 DEF SlotInv, CountInv
<1>7. QED
  BY <1>4, <1>5, <1>6

(* What the application does: it asks, or holds the lock while it reads.    *)
AppStep == App \/ AppReturns \/ \E aid \in Nat : LockAndCheck(aid)

(* The application changes requests and its own variables.                  *)
LEMMA AppKeeps ==
  ASSUME HostInv, AppStep
  PROVE  HostInv'
<1> USE DEF HostInv
<1> USE DEF modeVars, arm7Vars, tableVars
<1> USE DEF AppStep, App, AppReturns, MultiplayerHostMode, IdleMode, BeaconStart, AllowNewClients,
         KickClientByAID, GetClients, LookUpAID, LockAndCheck, StoreKickMask, LookedUp
<1>1. UNCHANGED <<tableVars, curMode, curMaxClients, pc7, mask, beacon, told>>
  BY DEF arm9Vars
<1>2. /\ reqMode' \in {"normal", "host"} /\ reqAllow' \in BOOLEAN /\ queuedBeacon' \subseteq BOOLEAN
      /\ spinlock' \in {"nobody", "arm9", "left"} /\ pc9' \in {"app", "or", "lookup"}
  BY DEF arm9Vars, TypeOK
<1>3. reqMaxClients' \in 0 .. MaxClients
  BY HostAssumption DEF TypeOK
<1>4. /\ kickMask' \subseteq Aids
      /\ pc9' = "or" => tmp9' \in (SUBSET Aids) \X Aids
  <2>1. CASE StoreKickMask
    BY <2>1 DEF LocalsInv
  <2>2. CASE \E aid \in KickAids : KickClientByAID(aid)
    <3>1. KickAids \subseteq Aids
      BY HostAssumption DEF Aids
    <3>2. QED
      BY <2>2, <3>1 DEF TypeOK
  <2>3. CASE UNCHANGED kickMask /\ (pc9' # "or" \/ UNCHANGED <<pc9, tmp9>>)
    BY <2>3 DEF TypeOK, LocalsInv
  <2>4. QED
    BY <2>1, <2>2, <2>3 DEF arm9Vars
<1>5. TypeOK'
  BY <1>1, <1>2, <1>3, <1>4 DEF TypeOK
<1>6. LocalsInv' /\ SlotInv' /\ CountInv' /\ GrantInv'
  BY <1>1, <1>4 DEF LocalsInv, SlotInv, CountInv, GrantInv, GrantedAidIsKept, Connected, Associated, Kicked
<1>7. QED
  BY <1>5, <1>6

(* The table is empty at first.                                             *)
LEMMA HostInitial ==
  ASSUME Init
  PROVE  HostInv
<1>1. list \in [Aids -> Slot] /\ Connected = {} /\ Associated = {}
      /\ \A a \in Aids : list[a].association_id = 0
  BY HostAssumption DEF Init, Cleared, Slot, States, Connected, Associated
<1>2. TypeOK
  <2>1. /\ beacon \in [on : BOOLEAN, players : 0 .. MaxClients + 1, allows : BOOLEAN]
        /\ told \in [Mac -> 0 .. MaxClients]
    BY HostAssumption DEF Init, BeaconOff
  <2>2. /\ num_connected \in 0 .. MaxClients /\ curMaxClients \in 0 .. MaxClients
        /\ reqMaxClients \in 0 .. MaxClients
    BY HostAssumption DEF Init
  <2>3. /\ aid_mask = {} /\ spinlock = "nobody" /\ curMode = "normal" /\ reqMode = "normal"
        /\ reqAllow = FALSE /\ queuedBeacon = {} /\ pc7 = "idle" /\ mask = {} /\ pc9 = "app"
        /\ kickMask = {}
    BY DEF Init
  <2>4. QED
    BY <1>1, <2>1, <2>2, <2>3 DEF TypeOK, Slot
<1>3. LocalsInv /\ SlotInv /\ GrantInv
  BY <1>1 DEF Init, LocalsInv, SlotInv, GrantInv, GrantedAidIsKept
<1>4. CountInv
  <2>1. Kicked = {} /\ Cardinality({}) = 0
    BY FS_EmptySet DEF Init, Kicked
  <2>2. QED
    BY <1>1, <2>1 DEF Init, CountInv
<1>5. QED
  BY <1>2, <1>3, <1>4 DEF HostInv

(* Every step of the host keeps its invariant.                              *)
LEMMA HostStep ==
  ASSUME HostInv, (\E m \in Mac : Frame(m)) \/ Update \/ AppStep \/ UNCHANGED vars
  PROVE  HostInv'
<1>1. ASSUME NEW m \in Mac, Frame(m) PROVE HostInv'
  BY <1>1, AuthenticationKeeps, RejectKeeps, AssociationKeeps, DeauthenticationKeeps DEF Frame
<1>2. CASE Update
  BY <1>2, HostModeKeeps, KickKeeps, FinishKickKeeps, UpdateAllowKeeps, QuietUpdateKeeps DEF Update
<1>3. CASE AppStep
  BY <1>3, AppKeeps
<1>4. CASE UNCHANGED vars
  <2>1. Connected' = Connected /\ Associated' = Associated /\ Kicked' = Kicked
    BY <1>4 DEF vars, tableVars, arm7Vars, Connected, Associated, Kicked, First
  <2>2. TypeOK'
    BY <1>4 DEF vars, tableVars, modeVars, arm7Vars, arm9Vars, HostInv, TypeOK
  <2>3. LocalsInv'
    <3>1. First(mask)' = First(mask)
      BY <1>4 DEF vars, arm7Vars, First
    <3>2. QED
      BY <1>4, <2>1, <3>1 DEF vars, arm7Vars, arm9Vars, HostInv, LocalsInv
  <2>4. SlotInv' /\ CountInv' /\ GrantInv'
    BY <1>4, <2>1 DEF vars, tableVars, modeVars, arm7Vars, HostInv, SlotInv, CountInv, GrantInv, GrantedAidIsKept
  <2>5. QED
    BY <2>2, <2>3, <2>4 DEF HostInv
<1>5. QED
  BY <1>1, <1>2, <1>3, <1>4

(* The invariant holds in every reachable state of the host.                *)
THEOREM HostInvariant == Spec => []HostInv
<1>1. Init => HostInv
  BY HostInitial
<1>2. HostInv /\ [Next]_vars => HostInv'
  BY HostStep DEF Next, AppStep
<1>3. QED
  BY <1>1, <1>2, PTL DEF Spec

(* The number of clients, the mask of AIDs and the list of                  *)
(* WifiData->clients describe the same clients, however authentications,    *)
(* associations, goodbyes, kicks and closing the host interleave, and no    *)
(* console has two slots.                                                   *)
THEOREM HostTableConsistent == Spec => []TableConsistent
<1>1. HostInv => TableConsistent
  BY DEF HostInv, SlotInv, CountInv, Kicked, TableConsistent
<1>2. QED
  BY <1>1, HostInvariant, PTL

(* A console that was told its AID keeps its slot until it is told          *)
(* otherwise or says goodbye.                                               *)
THEOREM HostKeepsGrants == Spec => []GrantedAidIsKept
<1>1. HostInv => GrantedAidIsKept
  BY DEF HostInv, GrantInv
<1>2. QED
  BY <1>1, HostInvariant, PTL

-----------------------------------------------------------------------------
(* The frames between the host and a console *)

(* The first frame of a queue is taken.                                     *)
LEMMA TakeFirst ==
  ASSUME NEW S, NEW q \in Seq(S), q # <<>>
  PROVE  /\ Head(q) \in S /\ Tail(q) \in Seq(S)
         /\ Tail(q) # <<>> => LastOf(Tail(q)) = LastOf(q)
         /\ Tail(q) = <<>> => Head(q) = LastOf(q)
         /\ \A i \in DOMAIN q : q[i] = Head(q) \/ \E j \in DOMAIN Tail(q) : Tail(q)[j] = q[i]
<1>1. Head(q) \in S /\ Tail(q) \in Seq(S) /\ Head(q) = q[1] /\ Len(Tail(q)) = Len(q) - 1
      /\ \A j \in 1 .. Len(q) - 1 : Tail(q)[j] = q[j + 1]
  OBVIOUS
<1>2. Len(q) \in Nat /\ Len(q) > 0
  OBVIOUS
<1>3. /\ Tail(q) # <<>> => LastOf(Tail(q)) = LastOf(q)
      /\ Tail(q) = <<>> => Head(q) = LastOf(q)
  <2>1. CASE Tail(q) = <<>>
    <3>1. Len(Tail(q)) = 0
      BY <2>1, EmptySeq
    <3>2. Len(q) - 1 = 0
      BY <3>1, HeadTailProperties
    <3>3. Len(q) = 1
      BY <1>2, <3>2
    <3>4. QED
      BY <1>1, <2>1, <3>3 DEF LastOf
  <2>2. CASE Tail(q) # <<>>
    <3>1. Len(Tail(q)) \in Nat /\ Len(Tail(q)) > 0
      BY <1>1, <2>2
    <3>2. Len(q) - 1 \in 1 .. Len(q) - 1 /\ (Len(q) - 1) + 1 = Len(q)
      BY <1>1, <1>2, <3>1
    <3>3. Tail(q)[Len(q) - 1] = q[Len(q)]
      BY <1>1, <3>2
    <3>4. QED
      BY <1>1, <2>2, <3>3 DEF LastOf
  <2>3. QED
    BY <2>1, <2>2
<1>4. ASSUME NEW i \in DOMAIN q
      PROVE  q[i] = Head(q) \/ \E j \in DOMAIN Tail(q) : Tail(q)[j] = q[i]
  <2>1. CASE i = 1
    BY <1>1, <2>1
  <2>2. CASE i # 1
    <3>1. i - 1 \in DOMAIN Tail(q) /\ Tail(q)[i - 1] = q[i]
      BY <1>1, <1>2, <2>2
    <3>2. QED
      BY <3>1
  <2>3. QED
    BY <2>1, <2>2
<1>5. QED
  BY <1>1, <1>3, <1>4

(* A frame joins the end of a queue.                                        *)
LEMMA AddLast ==
  ASSUME NEW S, NEW q \in Seq(S), NEW f \in S
  PROVE  /\ Append(q, f) \in Seq(S) /\ Append(q, f) # <<>> /\ LastOf(Append(q, f)) = f
         /\ \E i \in DOMAIN Append(q, f) : Append(q, f)[i] = f
         /\ q \o <<f>> = Append(q, f) /\ q \o <<>> = q
         /\ q # <<>> => Head(Append(q, f)) = Head(q)
<1>1. /\ Append(q, f) \in Seq(S) /\ Append(q, f) # <<>> /\ LastOf(Append(q, f)) = f
      /\ q # <<>> => Head(Append(q, f)) = Head(q)
  <2>1. Append(q, f) \in Seq(S) /\ Append(q, f) # <<>> /\ Len(Append(q, f)) = Len(q) + 1
    BY AppendProperties
  <2>2. Append(q, f)[Len(q) + 1] = f
    BY AppendProperties
  <2>3. ASSUME q # <<>> PROVE Head(Append(q, f)) = Head(q)
    <3>1. Len(q) \in Nat /\ Len(q) > 0
      BY <2>3
    <3>2. 1 \in 1 .. Len(q) /\ Append(q, f)[1] = q[1]
      BY <3>1
    <3>3. QED
      BY <2>1, <3>2
  <2>4. QED
    BY <2>1, <2>2, <2>3 DEF LastOf
<1>2. Len(q) + 1 \in DOMAIN Append(q, f) /\ Append(q, f)[Len(q) + 1] = f
  OBVIOUS
<1>3. q \o <<f>> = Append(q, f) /\ q \o <<>> = q
  OBVIOUS
<1>4. QED
  BY <1>1, <1>2, <1>3

ConsoleState == [reqMode : {"normal", "connected"},
                 curMode : {"normal", "connecting", "connected", "cannotconnect"},
                 authlevel : {"disconnected", "authenticated", "associated", "error"},
                 authctr : 0 .. WIFI_MAX_ASSOC_RETRY + 2, realRates : BOOLEAN,
                 curClientAID : 0 .. MaxClients, hears : BOOLEAN]

(* What a frame of the host does to a console, in all cases.                *)
LEMMA HandledCases ==
  ASSUME NEW s \in ConsoleState, RetryOK(s), NEW f \in HostFrame
  PROVE  LET h == Handled(s, f) IN
         /\ h[1] \in ConsoleState /\ RetryOK(h[1])
         /\ h[2] \in {<<>>, <<"auth">>, <<"assoc">>}
         /\ \/ ~ s.hears /\ h[1] = s /\ h[2] = <<>>
            \/ h[1].authlevel = "error" /\ h[2] = <<>>
            \/ /\ f.kind = "auth" /\ s.authlevel = "disconnected" /\ s.hears
               /\ h[1].authlevel = "authenticated" /\ h[2] = <<"assoc">>
            \/ h[1].authlevel = "disconnected" /\ h[2] = <<"auth">>
            \/ f.kind = "auth" /\ s.authlevel # "disconnected" /\ h[1] = s /\ h[2] = <<>>
            \/ /\ f.kind = "assoc" /\ f.status = "success" /\ h[2] = <<>> /\ s.hears
               /\ h[1].hears /\ h[1].curClientAID = f.aid
               /\ h[1].authlevel = IF s.authlevel = "authenticated" THEN "associated" ELSE s.authlevel
<1> DEFINE h == Handled(s, f)
<1>0. /\ s.authctr \in Nat /\ WIFI_MAX_ASSOC_RETRY \in Nat /\ 0 \in 0 .. WIFI_MAX_ASSOC_RETRY + 2
      /\ 0 \in 0 .. MaxClients
  BY SessionAssumption, HostAssumption DEF ConsoleState
<1>1. CASE ~ s.hears
  <2>1. h = <<s, <<>>>>
    BY <1>1 DEF Handled
  <2>2. QED
    BY <1>1, <2>1
<1>2. CASE s.hears /\ f.kind = "auth"
  <2>1. h = AuthReply(s, f)
    BY <1>2 DEF Handled
  <2>2. CASE f.status = "full"
    <3> DEFINE t == [s EXCEPT !.authlevel = "error"]
    <3>1. h = <<t, <<>>>>
      BY <2>1, <2>2 DEF AuthReply
    <3>2. t \in ConsoleState /\ t.authlevel = "error" /\ RetryOK(t)
      BY DEF ConsoleState, RetryOK
    <3> HIDE DEF t, h
    <3>3. h[1] = t /\ h[2] = <<>>
      BY <3>1
    <3>4. QED
      BY <3>2, <3>3 DEF h
  <2>3. CASE f.status # "full" /\ s.authlevel = "disconnected"
    <3> DEFINE t == [s EXCEPT !.authlevel = "authenticated", !.authctr = 0]
    <3>1. h = <<t, <<"assoc">>>>
      BY <2>1, <2>3 DEF AuthReply
    <3>a. t \in ConsoleState /\ t.authlevel = "authenticated" /\ t.authctr = 0
      BY <1>0 DEF ConsoleState
    <3>2. t \in ConsoleState /\ t.authlevel = "authenticated" /\ RetryOK(t)
      BY <1>0, <3>a, 0 <= WIFI_MAX_ASSOC_RETRY DEF RetryOK
    <3> HIDE DEF t, h
    <3>3. h[1] = t /\ h[2] = <<"assoc">>
      BY <3>1
    <3>4. QED
      BY <1>2, <2>3, <3>2, <3>3 DEF h
  <2>4. CASE f.status # "full" /\ s.authlevel # "disconnected"
    <3>1. h = <<s, <<>>>>
      BY <2>1, <2>4 DEF AuthReply
    <3>2. QED
      BY <1>2, <2>4, <3>1
  <2>5. QED
    BY <2>2, <2>3, <2>4
<1>3. CASE s.hears /\ f.kind = "assoc"
  <2>1. h = AssocReply(s, f)
    BY <1>3 DEF Handled
  <2>2. CASE f.status = "success"
    <3> DEFINE t == [s EXCEPT !.curClientAID = f.aid]
               u == IF s.authlevel = "authenticated"
                      THEN [t EXCEPT !.authlevel = "associated", !.authctr = 0] ELSE t
    <3>1. h = <<u, <<>>>>
      BY <2>1, <2>2 DEF AssocReply
    <3>2. /\ u \in ConsoleState /\ RetryOK(u) /\ u.hears /\ u.curClientAID = f.aid
          /\ u.authlevel = IF s.authlevel = "authenticated" THEN "associated" ELSE s.authlevel
      <4>1. /\ t \in ConsoleState /\ t.hears /\ t.curClientAID = f.aid /\ t.authctr = s.authctr
            /\ t.authlevel = s.authlevel /\ t.realRates = s.realRates
        BY <1>3 DEF ConsoleState, HostFrame
      <4>2. RetryOK(t)
        BY <4>1 DEF RetryOK
      <4> HIDE DEF t
      <4>3. CASE s.authlevel # "authenticated"
        BY <4>1, <4>2, <4>3
      <4>4. CASE s.authlevel = "authenticated"
        <5> DEFINE v == [t EXCEPT !.authlevel = "associated", !.authctr = 0]
        <5>1. /\ v \in ConsoleState /\ v.hears = t.hears /\ v.curClientAID = t.curClientAID
              /\ v.authctr = 0 /\ v.authlevel = "associated"
          BY <1>0, <4>1 DEF ConsoleState
        <5> HIDE DEF v
        <5>2. RetryOK(v)
          BY <1>0, <5>1, 0 <= WIFI_MAX_ASSOC_RETRY DEF RetryOK
        <5>3. u = v
          BY <4>4 DEF v
        <5>4. QED
          BY <4>1, <4>4, <5>1, <5>2, <5>3
      <4>5. QED
        BY <4>3, <4>4
    <3> HIDE DEF u, h
    <3>3. h[1] = u /\ h[2] = <<>>
      BY <3>1
    <3>4. QED
      BY <1>3, <2>2, <3>2, <3>3 DEF h
  <2>3. CASE f.status # "success" /\ s.realRates
    <3> DEFINE t == [s EXCEPT !.realRates = FALSE, !.authlevel = "disconnected"]
    <3>1. h = <<t, <<"auth">>>>
      BY <2>1, <2>3 DEF AssocReply
    <3>2. t \in ConsoleState /\ t.authlevel = "disconnected" /\ RetryOK(t)
      BY <2>3 DEF ConsoleState, RetryOK
    <3> HIDE DEF t, h
    <3>3. h[1] = t /\ h[2] = <<"auth">>
      BY <3>1
    <3>4. QED
      BY <3>2, <3>3 DEF h
  <2>4. CASE f.status # "success" /\ ~ s.realRates
    <3> DEFINE t == [s EXCEPT !.authlevel = "error"]
    <3>1. h = <<t, <<>>>>
      BY <2>1, <2>4 DEF AssocReply
    <3>2. t \in ConsoleState /\ t.authlevel = "error" /\ RetryOK(t)
      BY DEF ConsoleState, RetryOK
    <3> HIDE DEF t, h
    <3>3. h[1] = t /\ h[2] = <<>>
      BY <3>1
    <3>4. QED
      BY <3>2, <3>3 DEF h
  <2>5. QED
    BY <2>2, <2>3, <2>4
<1>4. CASE s.hears /\ f.kind = "deauth"
  <2> DEFINE t == [s EXCEPT !.authlevel = "error", !.hears = FALSE, !.curClientAID = 0]
  <2>1. h = <<t, <<>>>>
    BY <1>4 DEF Handled, Goodbye
  <2>2. t \in ConsoleState /\ t.authlevel = "error" /\ RetryOK(t)
    BY <1>0 DEF ConsoleState, RetryOK
  <2> HIDE DEF t, h
  <2>3. h[1] = t /\ h[2] = <<>>
    BY <2>1
  <2>4. QED
    BY <2>2, <2>3 DEF h
<1>5. QED
  BY <1>1, <1>2, <1>3, <1>4 DEF HostFrame

-----------------------------------------------------------------------------
(* The consoles, the frames and the packets *)

(* One answer, or the same one twice, is added to a queue.                  *)
LEMMA AddAnswer ==
  ASSUME NEW q \in Seq(HostFrame), NEW f \in HostFrame, NEW fs \in {<<f>>, <<f, f>>}
  PROVE  q \o fs \in Seq(HostFrame) /\ q \o fs # <<>> /\ LastOf(q \o fs) = f
<1>1. fs \in Seq(HostFrame) /\ Len(fs) \in {1, 2} /\ fs[Len(fs)] = f
  <2>1. CASE fs = <<f>>
    BY <2>1
  <2>2. CASE fs = <<f, f>>
    BY <2>2
  <2>3. QED
    BY <2>1, <2>2
<1>2. /\ Len(q) \in Nat /\ Len(q \o fs) = Len(q) + Len(fs) /\ q \o fs \in Seq(HostFrame)
      /\ \A i \in 1 .. Len(q) + Len(fs) :
           (q \o fs)[i] = IF i <= Len(q) THEN q[i] ELSE fs[i - Len(q)]
  BY <1>1, ConcatProperties, LenProperties
<1>3. /\ Len(q) + Len(fs) \in 1 .. Len(q) + Len(fs) /\ ~ (Len(q) + Len(fs) <= Len(q))
      /\ (Len(q) + Len(fs)) - Len(q) = Len(fs)
  BY <1>1, <1>2
<1>4. (q \o fs)[Len(q) + Len(fs)] = f
  BY <1>1, <1>2, <1>3
<1>5. q \o fs # <<>>
  <2>1. Len(q \o fs) # 0
    BY <1>1, <1>2
  <2>2. Len(<<>>) = 0
    OBVIOUS
  <2>3. QED
    BY <2>1, <2>2, Zenon
<1>6. QED
  BY <1>2, <1>4, <1>5 DEF LastOf

(* The first frame on its way to the host is one of the three it handles.   *)
LEMMA HostHearsFrame ==
  ASSUME AirOK, NEW m \in Mac, HostHears(m)
  PROVE  /\ toHost[m] \in Seq(ConsoleFrame) /\ toHost[m] # <<>>
         /\ \/ /\ Head(toHost[m]) = "auth" /\ ProcessAuthentication(m)
               /\ UNCHANGED player
               /\ Answers(m, <<AuthAnswer(m)>>)
            \/ /\ Head(toHost[m]) = "assoc" /\ ProcessAssocRequest(m)
               /\ player' = [aid \in Aids |-> IF aid = AssociateResult(m) THEN m ELSE player[aid]]
               /\ Answers(m, AssocAnswers(m))
            \/ /\ Head(toHost[m]) = "deauth" /\ ProcessDeauthentication(m)
               /\ UNCHANGED <<toStation, player>>
         /\ Taken(m)
         /\ UNCHANGED <<station, lost, calls, rxbuf, given, apart>>
<1>1. toHost[m] \in Seq(ConsoleFrame) /\ toHost[m] # <<>>
  BY DEF AirOK, HostHears
<1>2. Head(toHost[m]) \in ConsoleFrame
  BY <1>1, TakeFirst
<1>3. CASE Head(toHost[m]) = "auth"
  BY <1>1, <1>3 DEF HostHears
<1>4. CASE Head(toHost[m]) = "assoc"
  BY <1>1, <1>4 DEF HostHears
<1>5. CASE Head(toHost[m]) = "deauth"
  BY <1>1, <1>5 DEF HostHears
<1>6. QED
  BY <1>2, <1>3, <1>4, <1>5 DEF ConsoleFrame

(* The host of a session is the host of MPHost.                             *)
LEMMA SessionIsHost ==
  ASSUME HostInv, SessionOK, [SessionNext]_sessionVars
  PROVE  HostInv'
<1>1. ASSUME NEW m \in Mac, Console(m) \/ Lose(m) \/ HostIgnores(m) PROVE UNCHANGED vars
  BY <1>1 DEF Console, StationHears, Requests, Connects, StopsConnecting, Settles, Retries, Leaves,
              LeavesError, SendPacket, Lose, HostIgnores
<1>2. ASSUME NEW m \in Mac, HostHears(m) PROVE Frame(m)
  BY <1>2, HostHearsFrame DEF SessionOK, Frame
<1>3. CASE HostUpdates
  <2>1. Update
    BY <1>3 DEF HostUpdates, Update
  <2>2. QED
    BY <2>1, HostStep
<1>4. CASE HostApp
  <2>1. AppStep
    BY <1>4 DEF HostApp, AppStep, App, AppReturns
  <2>2. QED
    BY <2>1, HostStep
<1>5. CASE RefusePacket \/ UNCHANGED sessionVars
  <2>1. UNCHANGED vars
    BY <1>5 DEF RefusePacket, sessionVars
  <2>2. QED
    BY <2>1, HostStep
<1>6. CASE CheckPacket
  <2>1. rxbuf \in Seq([from : Mac, aid : 0 .. MaxClients]) /\ rxbuf # <<>>
    BY <1>6 DEF CheckPacket, SessionOK, SessionTypeOK
  <2>2. Head(rxbuf) \in [from : Mac, aid : 0 .. MaxClients]
    BY <2>1, TakeFirst
  <2>3. Head(rxbuf).aid \in Nat
    BY <2>2, HostAssumption
  <2>4. AppStep
    BY <1>6, <2>3 DEF CheckPacket, AppStep
  <2>5. QED
    BY <2>4, HostStep
<1>7. CASE HandlePacket
  <2>1. AppStep
    BY <1>7 DEF HandlePacket, AppStep, AppReturns
  <2>2. QED
    BY <2>1, HostStep
<1>8. QED
  BY <1>1, <1>2, <1>3, <1>4, <1>5, <1>6, <1>7, HostStep DEF SessionNext, Host

(* A step of a console changes its own state, which stays a state of a      *)
(* console with a counter within its limits.                                *)
LEMMA ConsoleBecomes ==
  ASSUME SessionOK, NEW m \in Mac, Console(m)
  PROVE  \E t \in ConsoleState : RetryOK(t) /\ station' = [station EXCEPT ![m] = t]
<1> DEFINE s == station[m]
<1>1. s \in ConsoleState /\ RetryOK(s)
  BY DEF SessionOK, SessionTypeOK, RetryInv, ConsoleState
<1>2. /\ s.authctr \in Nat /\ WIFI_MAX_ASSOC_RETRY \in Nat /\ 0 \in 0 .. WIFI_MAX_ASSOC_RETRY + 2
      /\ 0 \in 0 .. MaxClients
  BY <1>1, SessionAssumption, HostAssumption DEF ConsoleState
<1>3. CASE StationHears(m)
  <2> DEFINE h == Handled(s, Head(toStation[m]))
  <2>1. toStation[m] \in Seq(HostFrame) /\ toStation[m] # <<>>
    BY <1>3 DEF StationHears, SessionOK, AirOK
  <2>2. Head(toStation[m]) \in HostFrame
    BY <2>1, TakeFirst
  <2>3. h[1] \in ConsoleState /\ RetryOK(h[1])
    BY <1>1, <2>2, HandledCases
  <2>4. station' = [station EXCEPT ![m] = h[1]]
    BY <1>3 DEF StationHears, Become
  <2> HIDE DEF h
  <2>5. QED
    BY <2>3, <2>4
<1>4. CASE Requests(m)
  <2> DEFINE t == [s EXCEPT !.reqMode = IF @ = "normal" THEN "connected" ELSE "normal"]
  <2>1. t \in ConsoleState /\ t.authctr = s.authctr /\ t.authlevel = s.authlevel /\ t.realRates = s.realRates
    BY <1>1 DEF ConsoleState
  <2>2. station' = [station EXCEPT ![m] = t]
    BY <1>4 DEF Requests, Become
  <2> HIDE DEF t
  <2>3. RetryOK(t)
    BY <1>1, <2>1 DEF RetryOK
  <2>4. QED
    BY <2>1, <2>2, <2>3
<1>5. CASE Connects(m)
  <2> DEFINE t == [s EXCEPT !.curMode = "connecting", !.hears = TRUE, !.realRates = TRUE,
                            !.authctr = 0, !.authlevel = "disconnected"]
  <2>1. t \in ConsoleState /\ t.authctr = 0
    BY <1>1, <1>2 DEF ConsoleState
  <2>2. station' = [station EXCEPT ![m] = t]
    BY <1>5 DEF Connects, Become
  <2> HIDE DEF t
  <2>3. RetryOK(t)
    BY <1>2, <2>1, 0 <= WIFI_MAX_ASSOC_RETRY DEF RetryOK
  <2>4. QED
    BY <2>1, <2>2, <2>3
<1>6. CASE StopsConnecting(m) \/ LeavesError(m)
  <2> DEFINE t == [s EXCEPT !.curMode = "normal", !.hears = FALSE]
  <2>1. t \in ConsoleState /\ t.authctr = s.authctr /\ t.authlevel = s.authlevel /\ t.realRates = s.realRates
    BY <1>1 DEF ConsoleState
  <2>2. station' = [station EXCEPT ![m] = t]
    BY <1>6 DEF StopsConnecting, LeavesError, Become
  <2> HIDE DEF t
  <2>3. RetryOK(t)
    BY <1>1, <2>1 DEF RetryOK
  <2>4. QED
    BY <2>1, <2>2, <2>3
<1>7. CASE Settles(m)
  <2>1. ASSUME NEW c \in {"connected", "cannotconnect"}, station' = [station EXCEPT ![m] = [s EXCEPT !.curMode = c]]
        PROVE  \E t \in ConsoleState : RetryOK(t) /\ station' = [station EXCEPT ![m] = t]
    <3> DEFINE t == [s EXCEPT !.curMode = c]
    <3>1. t \in ConsoleState /\ t.authctr = s.authctr /\ t.authlevel = s.authlevel /\ t.realRates = s.realRates
      BY <1>1 DEF ConsoleState
    <3>2. station' = [station EXCEPT ![m] = t]
      BY <2>1
    <3> HIDE DEF t
    <3>3. RetryOK(t)
      BY <1>1, <3>1 DEF RetryOK
    <3>4. QED
      BY <3>1, <3>2, <3>3
  <2>2. QED
    BY <1>7, <2>1 DEF Settles, Become
<1>8. CASE Retries(m)
  <2> DEFINE r == [s EXCEPT !.authctr = @ + 1]
  <2>1. s.authlevel # "error"
    BY <1>8 DEF Retries
  <2>2. s.authctr <= WIFI_MAX_ASSOC_RETRY + 1 /\ (s.authctr > WIFI_MAX_ASSOC_RETRY => ~ s.realRates)
    BY <1>1, <1>2, <2>1 DEF RetryOK
  <2>3. r \in ConsoleState /\ r.authctr = s.authctr + 1 /\ r.realRates = s.realRates
    <3>1. s.authctr + 1 \in 0 .. WIFI_MAX_ASSOC_RETRY + 2
      BY <1>2, <2>2
    <3>2. QED
      BY <1>1, <3>1 DEF ConsoleState
  <2>4. CASE r.authctr > WIFI_MAX_ASSOC_RETRY
    <3> DEFINE t == [r EXCEPT !.authlevel = "error"]
    <3>1. station' = [station EXCEPT ![m] = t]
      BY <1>8, <2>4 DEF Retries, Become
    <3> HIDE DEF r
    <3>2. t \in ConsoleState /\ t.authctr = s.authctr + 1 /\ t.realRates = s.realRates /\ t.authlevel = "error"
      BY <2>3 DEF ConsoleState
    <3> HIDE DEF t
    <3>3. RetryOK(t)
      BY <1>2, <2>2, <3>2 DEF RetryOK
    <3>4. QED
      BY <3>1, <3>2, <3>3
  <2>5. CASE ~ (r.authctr > WIFI_MAX_ASSOC_RETRY)
    <3> DEFINE t == [r EXCEPT !.authlevel = "disconnected",
                              !.realRates = @ \/ s.authlevel = "authenticated"]
    <3>1. station' = [station EXCEPT ![m] = t]
      BY <1>8, <2>5 DEF Retries, Become
    <3> HIDE DEF r
    <3>2. t \in ConsoleState /\ t.authctr = s.authctr + 1
      <4>1. (r.realRates \/ s.authlevel = "authenticated") \in BOOLEAN
        OBVIOUS
      <4>2. QED
        BY <2>3, <4>1 DEF ConsoleState
    <3> HIDE DEF t
    <3>3. RetryOK(t)
      BY <1>2, <2>3, <2>5, <3>2 DEF RetryOK
    <3>4. QED
      BY <3>1, <3>2, <3>3
  <2>6. QED
    BY <2>4, <2>5
<1>9. CASE Leaves(m)
  <2> DEFINE t == [s EXCEPT !.curMode = "normal", !.hears = FALSE, !.curClientAID = 0]
  <2>1. t \in ConsoleState /\ t.authctr = s.authctr /\ t.authlevel = s.authlevel /\ t.realRates = s.realRates
    BY <1>1, <1>2 DEF ConsoleState
  <2>2. station' = [station EXCEPT ![m] = t]
    BY <1>9 DEF Leaves, Become
  <2> HIDE DEF t
  <2>3. RetryOK(t)
    BY <1>1, <2>1 DEF RetryOK
  <2>4. QED
    BY <2>1, <2>2, <2>3
<1>10. CASE SendPacket(m)
  <2>1. station' = [station EXCEPT ![m] = s]
    <3>1. station' = station /\ station \in [Mac -> ConsoleState]
      BY <1>10 DEF SendPacket, SessionOK, SessionTypeOK, ConsoleState
    <3>2. QED
      BY <3>1
  <2>2. QED
    BY <1>1, <2>1
<1>11. QED
  BY <1>3, <1>4, <1>5, <1>6, <1>7, <1>8, <1>9, <1>10 DEF Console

(* The consoles keep their types and the limits of their counters.          *)
LEMMA StationsKeep ==
  ASSUME SessionOK, [SessionNext]_sessionVars
  PROVE  station' \in [Mac -> ConsoleState] /\ RetryInv'
<1>1. station \in [Mac -> ConsoleState] /\ \A m \in Mac : RetryOK(station[m])
  BY DEF SessionOK, SessionTypeOK, ConsoleState, RetryInv
<1>2. ASSUME NEW m \in Mac, Console(m) PROVE station' \in [Mac -> ConsoleState] /\ RetryInv'
  <2>1. PICK t \in ConsoleState : RetryOK(t) /\ station' = [station EXCEPT ![m] = t]
    BY <1>2, ConsoleBecomes
  <2>2. station' \in [Mac -> ConsoleState] /\ \A n \in Mac : station'[n] = t \/ station'[n] = station[n]
    BY <1>1, <2>1
  <2>3. QED
    BY <1>1, <2>1, <2>2 DEF RetryInv, RetryOK
<1>3. CASE UNCHANGED station
  BY <1>1, <1>3 DEF RetryInv, RetryOK
<1>4. UNCHANGED station \/ \E m \in Mac : Console(m)
  BY DEF SessionNext, Host, HostHears, HostIgnores, HostUpdates, HostApp, RefusePacket, CheckPacket,
         HandlePacket, Lose, sessionVars
<1>5. QED
  BY <1>2, <1>3, <1>4

(* What the host answers is a frame.                                        *)
LEMMA AnswerIsFrame ==
  ASSUME TypeOK, SlotInv, NEW m \in Mac
  PROVE  AssociateResult(m) \in 0 .. MaxClients
<1>1. 0 \in 0 .. MaxClients /\ Aids \subseteq 0 .. MaxClients
  BY HostAssumption DEF Aids
<1>2. CASE ~ reqAllow \/ SlotsOf(m) = {}
  BY <1>1, <1>2 DEF AssociateResult
<1>3. CASE reqAllow /\ SlotsOf(m) # {}
  <2>1. First(SlotsOf(m)) \in Aids
    <3>1. SlotsOf(m) \in SUBSET Aids
      BY DEF SlotsOf
    <3>2. QED
      BY <1>3, <3>1, FirstIsMember
  <2>2. list[First(SlotsOf(m))].association_id \in 0 .. MaxClients
    BY <2>1 DEF TypeOK
  <2>3. QED
    BY <1>1, <1>3, <2>1, <2>2 DEF AssociateResult
<1>4. QED
  BY <1>2, <1>3

(* What the host answers: a console it does not know is refused twice.      *)
LEMMA HostAnswers ==
  ASSUME TypeOK, SlotInv, NEW m \in Mac
  PROVE  /\ \E f \in HostFrame : f.kind = "auth" /\ <<AuthAnswer(m)>> \in {<<f>>, <<f, f>>}
         /\ \E f \in HostFrame : /\ f.kind = "assoc" /\ f.aid = AssociateResult(m)
                               /\ AssocAnswers(m) \in {<<f>>, <<f, f>>}
<1>1. AuthAnswer(m) \in HostFrame /\ AuthAnswer(m).kind = "auth"
  BY HostAssumption DEF HostFrame, AuthAnswer
<1>2. AssociateResult(m) \in 0 .. MaxClients
  BY AnswerIsFrame
<1>3. ASSUME NEW st \in {"success", "denied"}
      PROVE  LET f == [kind |-> "assoc", aid |-> AssociateResult(m), status |-> st] IN
             f \in HostFrame /\ f.kind = "assoc" /\ f.aid = AssociateResult(m)
  BY <1>2 DEF HostFrame
<1>4. QED
  BY <1>1, <1>3 DEF AssocAnswers

(* The frames on their way are frames.                                      *)
LEMMA AirKeeps ==
  ASSUME HostInv, SessionOK, [SessionNext]_sessionVars
  PROVE  AirOK'
<1>1. toHost \in [Mac -> Seq(ConsoleFrame)] /\ toStation \in [Mac -> Seq(HostFrame)]
  BY DEF SessionOK, AirOK
<1>2. ASSUME NEW m \in Mac, NEW q \in Seq(ConsoleFrame), toHost' = [toHost EXCEPT ![m] = q]
      PROVE  toHost' \in [Mac -> Seq(ConsoleFrame)]
  BY <1>1, <1>2
<1>3. ASSUME NEW m \in Mac, NEW q \in Seq(HostFrame), toStation' = [toStation EXCEPT ![m] = q]
      PROVE  toStation' \in [Mac -> Seq(HostFrame)]
  BY <1>1, <1>3
<1>4. ASSUME NEW m \in Mac, Taken(m), toHost[m] # <<>> PROVE toHost' \in [Mac -> Seq(ConsoleFrame)]
  <2>1. Tail(toHost[m]) \in Seq(ConsoleFrame)
    BY <1>1, <1>4, TakeFirst
  <2>2. QED
    BY <1>2, <1>4, <2>1 DEF Taken
<1>5. ASSUME NEW m \in Mac, NEW k \in ConsoleFrame, Sends(m, k)
      PROVE  toHost' \in [Mac -> Seq(ConsoleFrame)]
  <2>1. Append(toHost[m], k) \in Seq(ConsoleFrame)
    BY <1>1, AppendProperties
  <2>2. QED
    BY <1>2, <1>5, <2>1 DEF Sends
<1>6. ASSUME NEW m \in Mac, NEW f \in HostFrame, NEW fs \in {<<f>>, <<f, f>>}, Answers(m, fs)
      PROVE  toStation' \in [Mac -> Seq(HostFrame)]
  <2>1. toStation[m] \o fs \in Seq(HostFrame)
    BY <1>1, AddAnswer
  <2>2. QED
    BY <1>3, <1>6, <2>1 DEF Answers
<1>7. ASSUME NEW m \in Mac, toStation[m] # <<>>, toStation' = [toStation EXCEPT ![m] = Tail(@)]
      PROVE  toStation' \in [Mac -> Seq(HostFrame)]
  <2>1. Tail(toStation[m]) \in Seq(HostFrame)
    BY <1>1, <1>7, TakeFirst
  <2>2. QED
    BY <1>3, <1>7, <2>1
<1>8. ASSUME NEW S, Dismiss(S) PROVE toStation' \in [Mac -> Seq(HostFrame)]
  <2> DEFINE f == [kind |-> "deauth", aid |-> 0, status |-> "left"]
  <2>1. f \in HostFrame
    BY HostAssumption DEF HostFrame
  <2> HIDE DEF f
  <2>2. toStation' = [m \in Mac |-> IF m \notin S THEN toStation[m] ELSE Append(toStation[m], f)]
    BY <1>8 DEF Dismiss, f
  <2>3. \A m \in Mac : toStation[m] \in Seq(HostFrame) /\ Append(toStation[m], f) \in Seq(HostFrame)
    BY <1>1, <2>1, AppendProperties
  <2>4. QED
    BY <2>2, <2>3
<1>9. ASSUME NEW m \in Mac, Console(m) \/ Lose(m) PROVE AirOK'
  <2>1. CASE StationHears(m)
    <3> DEFINE h == Handled(station[m], Head(toStation[m]))
    <3>1. toStation[m] # <<>> /\ toHost' = [toHost EXCEPT ![m] = @ \o h[2]]
          /\ toStation' = [toStation EXCEPT ![m] = Tail(@)]
      BY <2>1 DEF StationHears
    <3>2. station[m] \in ConsoleState /\ RetryOK(station[m])
      BY DEF SessionOK, SessionTypeOK, RetryInv, ConsoleState
    <3>3. Head(toStation[m]) \in HostFrame
      BY <1>1, <3>1, TakeFirst
    <3>4. h[2] \in {<<>>, <<"auth">>, <<"assoc">>}
      BY <3>2, <3>3, HandledCases
    <3> HIDE DEF h
    <3>5. h[2] \in Seq(ConsoleFrame)
      <4>1. <<>> \in Seq(ConsoleFrame) /\ <<"auth">> \in Seq(ConsoleFrame) /\ <<"assoc">> \in Seq(ConsoleFrame)
        BY DEF ConsoleFrame
      <4>2. QED
        BY <3>4, <4>1
    <3>6. toHost[m] \o h[2] \in Seq(ConsoleFrame)
      BY <1>1, <3>5, ConcatProperties
    <3>7. toHost' \in [Mac -> Seq(ConsoleFrame)]
      BY <1>2, <3>1, <3>6
    <3>8. QED
      BY <1>7, <3>1, <3>7 DEF AirOK
  <2>2. CASE Connects(m) \/ Retries(m) \/ Leaves(m)
    <3>1. toStation' = toStation /\ (UNCHANGED toHost \/ Sends(m, "auth") \/ Sends(m, "deauth"))
      BY <2>2 DEF Connects, Retries, Leaves
    <3>2. QED
      BY <1>1, <1>5, <3>1 DEF AirOK, ConsoleFrame
  <2>3. CASE Lose(m)
    <3>1. \/ toHost[m] # <<>> /\ Taken(m) /\ UNCHANGED toStation
          \/ toStation[m] # <<>> /\ toStation' = [toStation EXCEPT ![m] = Tail(@)] /\ UNCHANGED toHost
      BY <2>3 DEF Lose
    <3>2. QED
      BY <1>1, <1>4, <1>7, <3>1 DEF AirOK
  <2>4. CASE Requests(m) \/ StopsConnecting(m) \/ Settles(m) \/ LeavesError(m) \/ SendPacket(m)
    BY <1>1, <2>4 DEF AirOK, Requests, StopsConnecting, Settles, LeavesError, SendPacket, airVars
  <2>5. QED
    BY <1>9, <2>1, <2>2, <2>3, <2>4 DEF Console
<1>10. ASSUME NEW m \in Mac, HostHears(m) PROVE AirOK'
  <2>1. toHost' \in [Mac -> Seq(ConsoleFrame)]
    BY <1>4, <1>10 DEF HostHears
  <2>2. UNCHANGED toStation \/ Answers(m, <<AuthAnswer(m)>>) \/ Answers(m, AssocAnswers(m))
    <3>1. AirOK
      BY DEF SessionOK
    <3>2. QED
      BY <1>10, <3>1, HostHearsFrame
  <2>3. UNCHANGED toStation \/ \E f \in HostFrame : \E fs \in {<<f>>, <<f, f>>} : Answers(m, fs)
    <3>1. TypeOK /\ SlotInv
      BY DEF HostInv
    <3>2. QED
      BY <2>2, <3>1, HostAnswers
  <2>4. QED
    BY <1>1, <1>6, <2>1, <2>3 DEF AirOK
<1>11. ASSUME NEW m \in Mac, HostIgnores(m) PROVE AirOK'
  BY <1>1, <1>4, <1>11 DEF HostIgnores, AirOK
<1>12. CASE HostUpdates
  <2>1. toHost' = toHost /\ (UNCHANGED toStation \/ \E S \in SUBSET (Mac \cup {NoMac}) : Dismiss(S))
    <3>1. CASE KickAll /\ Dismiss(Mac)
      BY <1>12, <3>1 DEF HostUpdates
    <3>2. ASSUME NEW S \in SUBSET Aids, Dismiss({list[a].macaddr : a \in S})
          PROVE  \E T \in SUBSET (Mac \cup {NoMac}) : Dismiss(T)
      <4>1. \A a \in S : list[a].macaddr \in Mac \cup {NoMac}
        BY DEF HostInv, TypeOK
      <4>2. QED
        BY <3>2, <4>1
    <3>3. CASE KickByAID /\ Dismiss({list[a].macaddr : a \in {b \in {First(mask)} : Kickable(b)}})
      <4>1. First(mask) \in Aids
        <5>1. mask \in SUBSET Aids /\ mask # {}
          BY <3>3 DEF KickByAID, HostInv, TypeOK
        <5>2. QED
          BY <5>1, FirstIsMember
      <4>2. {b \in {First(mask)} : Kickable(b)} \in SUBSET Aids
        BY <4>1
      <4>3. QED
        BY <1>12, <3>2, <3>3, <4>2 DEF HostUpdates
    <3>4. CASE UpdateAllow /\ Dismiss(Dismissed)
      <4>1. (IF BeaconAllows /\ ~ reqAllow THEN Joining ELSE {}) \in SUBSET Aids
        BY DEF Joining
      <4>2. QED
        BY <1>12, <3>2, <3>4, <4>1 DEF HostUpdates, Dismissed
    <3>5. QED
      BY <1>12, <3>1, <3>3, <3>4 DEF HostUpdates
  <2>2. QED
    BY <1>1, <1>8, <2>1 DEF AirOK
<1>13. CASE HostApp \/ RefusePacket \/ CheckPacket \/ HandlePacket \/ UNCHANGED sessionVars
  <2>1. UNCHANGED <<toHost, toStation>>
    BY <1>13 DEF HostApp, RefusePacket, CheckPacket, HandlePacket, sessionVars, airVars
  <2>2. QED
    BY <1>1, <2>1 DEF AirOK
<1>14. QED
  BY <1>9, <1>10, <1>11, <1>12, <1>13 DEF SessionNext, Host

(* Apart from an association, no step makes a slot associated or changes    *)
(* the address of one that is.                                              *)
LEMMA OnlyAssociationAssociates ==
  ASSUME HostInv, NEW m \in Mac,
         \/ ProcessAuthentication(m) \/ ProcessDeauthentication(m)
         \/ Update \/ AppStep \/ UNCHANGED vars
  PROVE  \A b \in Aids : list'[b] = list[b] \/ list'[b].state # "associated"
<1>1. list \in [Aids -> Slot]
  BY DEF HostInv, TypeOK, Slot
<1>2. ASSUME NEW a \in Aids, NEW r \in Slot, r.state # "associated", list' = [list EXCEPT ![a] = r]
      PROVE  \A b \in Aids : list'[b] = list[b] \/ list'[b].state # "associated"
  BY <1>1, <1>2
<1>3. CASE UNCHANGED list
  BY <1>3
<1>4. ASSUME NEW a \in Aids, NEW st \in {"authenticated", "disconnected"},
             list' = [list EXCEPT ![a].state = st]
      PROVE  \A b \in Aids : list'[b] = list[b] \/ list'[b].state # "associated"
  <2>1. list' = [list EXCEPT ![a] = [list[a] EXCEPT !.state = st]]
    BY <1>4
  <2>2. [list[a] EXCEPT !.state = st] \in Slot /\ [list[a] EXCEPT !.state = st].state # "associated"
    BY <1>1 DEF Slot, States
  <2>3. QED
    BY <1>2, <2>1, <2>2
<1>5. ASSUME NEW S \in SUBSET Aids, S # {} PROVE First(S) \in Aids
  BY <1>5, FirstIsMember
<1>6. SlotsOf(m) \in SUBSET Aids /\ Empty \in SUBSET Aids /\ mask \in SUBSET Aids
  BY DEF SlotsOf, Empty, HostInv, TypeOK
<1>7. CASE ProcessAuthentication(m)
  <2>1. CASE SlotsOf(m) # {} /\ Reauthenticate(m)
    BY <1>4, <1>5, <1>6, <2>1 DEF Reauthenticate
  <2>2. CASE Empty # {} /\ AddClient(m)
    <3> DEFINE a == First(Empty)
               r == [list[a] EXCEPT !.state = "authenticated", !.macaddr = m]
    <3>1. a \in Aids
      BY <1>5, <1>6, <2>2
    <3>2. list' = [list EXCEPT ![a].state = "authenticated", ![a].macaddr = m]
      BY <2>2 DEF AddClient
    <3> HIDE DEF a
    <3>3. r \in Slot /\ r.state # "associated"
      BY <1>1, <3>1 DEF Slot, States
    <3>4. list' = [list EXCEPT ![a] = r]
      BY <1>1, <3>1, <3>2 DEF Slot
    <3> HIDE DEF r
    <3>5. QED
      BY <1>2, <3>1, <3>3, <3>4
  <2>3. QED
    BY <1>3, <1>7, <2>1, <2>2 DEF ProcessAuthentication, tableVars
<1>8. CASE ProcessDeauthentication(m)
  <2>1. CASE SlotsOf(m) = {}
    BY <1>3, <1>8, <2>1 DEF ProcessDeauthentication, tableVars
  <2>2. CASE SlotsOf(m) # {}
    <3>1. list' = [list EXCEPT ![First(SlotsOf(m))].state = "disconnected"]
      BY <1>8, <2>2 DEF ProcessDeauthentication
    <3>2. QED
      BY <1>4, <1>5, <1>6, <2>2, <3>1
  <2>3. QED
    BY <2>1, <2>2
<1>9. CASE EnterHostMode \/ KickAll
  BY <1>9 DEF EnterHostMode, KickAll, ResetClients, Cleared
<1>10. CASE KickByAID
  <2>1. mask # {} /\ (UNCHANGED list \/ list' = [list EXCEPT ![First(mask)].state = "disconnected"])
    BY <1>10 DEF KickByAID
  <2>2. QED
    BY <1>3, <1>4, <1>5, <1>6, <2>1
<1>11. CASE UpdateAllow
  <2>1. CASE BeaconAllows /\ ~ reqAllow
    <3>1. list' = [a \in Aids |-> IF a \in Joining
                     THEN [list[a] EXCEPT !.state = "disconnected"] ELSE list[a]]
      BY <1>11, <2>1 DEF UpdateAllow
    <3>2. \A a \in Aids : [list[a] EXCEPT !.state = "disconnected"].state # "associated"
      BY <1>1 DEF Slot
    <3>3. QED
      BY <3>1, <3>2
  <2>2. CASE ~ (BeaconAllows /\ ~ reqAllow)
    BY <1>3, <1>11, <2>2 DEF UpdateAllow, tableVars
  <2>3. QED
    BY <2>1, <2>2
<1>12. CASE StayNormal \/ LeaveHostMode \/ ReadKickMask \/ ClearKickMask \/ FinishKick \/ KicksDone
            \/ FlushBeacon \/ FlushOther \/ UNCHANGED vars
  BY <1>3, <1>12 DEF StayNormal, LeaveHostMode, ReadKickMask, ClearKickMask, FinishKick, KicksDone,
                     FlushBeacon, FlushOther, vars, tableVars
<1>13. CASE AppStep
  BY <1>3, <1>13 DEF AppStep, App, AppReturns, MultiplayerHostMode, IdleMode, BeaconStart,
       AllowNewClients, KickClientByAID, GetClients, LookUpAID, LockAndCheck, StoreKickMask,
       LookedUp, tableVars
<1>14. QED
  BY <1>7, <1>8, <1>9, <1>10, <1>11, <1>12, <1>13 DEF Update

(* The console that is told an AID has the slot.                            *)
LEMMA AssociationTells ==
  ASSUME HostInv, PlayerInv, player \in [Aids -> Mac \cup {NoMac}], NEW m \in Mac, ProcessAssocRequest(m),
         player' = [aid \in Aids |-> IF aid = AssociateResult(m) THEN m ELSE player[aid]]
  PROVE  PlayerInv'
<1> DEFINE a == First(SlotsOf(m))
           r == AssociateResult(m)
<1>1. list \in [Aids -> Slot]
  BY DEF HostInv, TypeOK, Slot
<1>2. \A b \in Aids : player'[b] = IF b = r THEN m ELSE player[b]
  OBVIOUS
<1>3. ASSUME NEW b \in Associated PROVE player[b] = list[b].macaddr /\ b \in Aids
  BY DEF PlayerInv, Associated
<1>4. CASE r = 0
  <2>1. UNCHANGED list
    BY <1>4 DEF ProcessAssocRequest
  <2>2. \A b \in Aids : player'[b] = player[b]
    BY <1>2, <1>4, HostAssumption DEF Aids
  <2>3. QED
    BY <1>3, <2>1, <2>2 DEF PlayerInv, Associated
<1>5. CASE r # 0
  <2>1. reqAllow /\ SlotsOf(m) # {}
    BY <1>5 DEF AssociateResult
  <2>2. a \in SlotsOf(m)
    <3>1. SlotsOf(m) \in SUBSET Aids
      BY DEF SlotsOf
    <3>2. QED
      BY <2>1, <3>1, FirstIsMember
  <2>3. a \in Aids /\ list[a].macaddr = m
    BY <2>2 DEF SlotsOf
  <2>4. CASE list[a].state = "associated"
    <3>1. UNCHANGED list
      BY <2>4 DEF ProcessAssocRequest
    <3>2. r = a
      <4>1. a \in Associated
        BY <2>3, <2>4 DEF Associated
      <4>2. QED
        BY <2>1, <2>4, <4>1 DEF AssociateResult, HostInv, SlotInv
    <3> HIDE DEF a, r
    <3>3. QED
      BY <1>2, <1>3, <2>3, <3>1, <3>2 DEF PlayerInv, Associated
  <2>5. CASE list[a].state # "associated"
    <3>1. r = a
      BY <2>1, <2>5 DEF AssociateResult
    <3>2. list' = [list EXCEPT ![a].state = "associated", ![a].association_id = a]
      BY <1>5, <2>5 DEF ProcessAssocRequest
    <3> HIDE DEF a, r
    <3>3. list'[a].macaddr = m /\ \A b \in Aids : b # a => list'[b] = list[b]
      BY <1>1, <2>3, <3>2 DEF Slot
    <3>4. ASSUME NEW b \in Associated' PROVE player'[b] = list'[b].macaddr
      <4>1. b \in Aids /\ list'[b].state = "associated"
        BY DEF Associated
      <4>2. CASE b = a
        BY <1>2, <2>3, <3>1, <3>3, <4>2
      <4>3. CASE b # a
        <5>1. b \in Associated /\ list'[b] = list[b]
          BY <3>3, <4>1, <4>3 DEF Associated
        <5>2. QED
          BY <1>2, <1>3, <3>1, <4>1, <4>3, <5>1
      <4>4. QED
        BY <4>2, <4>3
    <3>5. QED
      BY <3>4 DEF PlayerInv
  <2>6. QED
    BY <2>4, <2>5
<1>6. QED
  BY <1>4, <1>5

Packet == [from : Mac, aid : 0 .. MaxClients]

(* The players, the packets and the one that is looked up.                  *)
LEMMA PacketsKeep ==
  ASSUME HostInv, SessionOK, [SessionNext]_sessionVars
  PROVE  /\ rxbuf' \in Seq(Packet)
         /\ given' \in [from : Mac \cup {NoMac}, aid : 0 .. MaxClients]
         /\ player' \in [Aids -> Mac \cup {NoMac}]
         /\ PlayerInv' /\ LookupInv'
<1>1. /\ rxbuf \in Seq(Packet) /\ player \in [Aids -> Mac \cup {NoMac}]
      /\ given \in [from : Mac \cup {NoMac}, aid : 0 .. MaxClients]
      /\ PlayerInv /\ LookupInv
  BY DEF SessionOK, SessionTypeOK, Packet
<1>2. NoPacket \in [from : Mac \cup {NoMac}, aid : 0 .. MaxClients]
  BY HostAssumption DEF NoPacket
<1>3. ASSUME UNCHANGED player, \A b \in Aids : list'[b] = list[b] \/ list'[b].state # "associated"
      PROVE  PlayerInv'
  BY <1>1, <1>3 DEF PlayerInv, Associated
<1>4. ASSUME UNCHANGED rxbuf, pc9' = "lookup" => pc9 = "lookup" PROVE LookupInv'
  BY <1>1, <1>4 DEF LookupInv
<1>5. ASSUME UNCHANGED <<vars, packetVars>>
      PROVE  PlayerInv' /\ LookupInv' /\ UNCHANGED <<rxbuf, given, player>>
  BY <1>3, <1>4, <1>5 DEF vars, tableVars, arm9Vars, packetVars
<1>6. ASSUME NEW m \in Mac, SendPacket(m)
      PROVE  rxbuf' \in Seq(Packet) /\ given' = NoPacket /\ UNCHANGED player /\ PlayerInv' /\ LookupInv'
  <2> DEFINE p == [from |-> m, aid |-> station[m].curClientAID]
  <2>1. p \in Packet
    BY DEF Packet, SessionOK, SessionTypeOK
  <2>2. rxbuf' = Append(rxbuf, p) /\ given' = NoPacket /\ UNCHANGED <<vars, player>>
    BY <1>6 DEF SendPacket
  <2> HIDE DEF p
  <2>3. rxbuf' \in Seq(Packet)
    BY <1>1, <2>1, <2>2, AppendProperties
  <2>4. rxbuf # <<>> => rxbuf' # <<>> /\ Head(rxbuf') = Head(rxbuf)
    BY <1>1, <2>1, <2>2, AddLast
  <2>5. LookupInv' /\ PlayerInv'
    BY <1>1, <1>3, <2>2, <2>4 DEF LookupInv, vars, arm9Vars, tableVars
  <2>6. QED
    BY <2>2, <2>3, <2>5
<1>7. ASSUME NEW m \in Mac, Console(m) \/ Lose(m) \/ HostIgnores(m), ~ SendPacket(m)
      PROVE  UNCHANGED <<vars, packetVars>>
  BY <1>7 DEF Console, StationHears, Requests, Connects, StopsConnecting, Settles, Retries, Leaves,
              LeavesError, Lose, HostIgnores
<1>8. ASSUME NEW m \in Mac, HostHears(m)
      PROVE  UNCHANGED <<rxbuf, given>> /\ player' \in [Aids -> Mac \cup {NoMac}] /\ PlayerInv' /\ LookupInv'
  <2>1. AirOK
    BY DEF SessionOK
  <2>2. UNCHANGED <<rxbuf, given, pc9>>
    BY <1>8, <2>1, HostHearsFrame DEF ProcessAuthentication, ProcessAssocRequest, ProcessDeauthentication, arm9Vars
  <2>3. \/ (ProcessAuthentication(m) \/ ProcessDeauthentication(m)) /\ UNCHANGED player
        \/ /\ ProcessAssocRequest(m)
           /\ player' = [aid \in Aids |-> IF aid = AssociateResult(m) THEN m ELSE player[aid]]
    BY <1>8, <2>1, HostHearsFrame
  <2>4. player' \in [Aids -> Mac \cup {NoMac}]
    BY <1>1, <2>3
  <2>5. PlayerInv'
    BY <1>1, <1>3, <2>3, OnlyAssociationAssociates, AssociationTells
  <2>6. QED
    BY <1>4, <2>2, <2>4, <2>5
<1>9. CASE HostUpdates \/ HostApp
  <2>1. UNCHANGED <<rxbuf, given, player>>
    BY <1>9 DEF HostUpdates, HostApp, packetVars
  <2>2. Update \/ AppStep
    BY <1>9 DEF HostUpdates, HostApp, Update, AppStep, App, AppReturns
  <2>3. \A b \in Aids : list'[b] = list[b] \/ list'[b].state # "associated"
    <3>1. CASE Mac # {}
      BY <2>2, <3>1, OnlyAssociationAssociates
    <3>2. CASE Mac = {}
      <4>1. HostInv'
        BY <2>2, HostStep
      <4>2. QED
        BY <3>2, <4>1 DEF HostInv, SlotInv, Connected
    <3>3. QED
      BY <3>1, <3>2
  <2>4. pc9' # "lookup" \/ UNCHANGED pc9
    <3>1. CASE HostApp
      BY <3>1 DEF HostApp, MultiplayerHostMode, IdleMode, BeaconStart, AllowNewClients, KickClientByAID,
                  StoreKickMask, arm9Vars
    <3>2. CASE HostUpdates
      BY <3>2 DEF HostUpdates, KickAll, KickByAID, UpdateAllow, EnterHostMode, StayNormal, LeaveHostMode,
             ReadKickMask, ClearKickMask, FinishKick, KicksDone, FlushBeacon, FlushOther, arm9Vars
    <3>3. QED
      BY <1>9, <3>1, <3>2
  <2>5. QED
    BY <1>1, <1>3, <1>4, <2>1, <2>3, <2>4
<1>10. ASSUME rxbuf # <<>> PROVE Head(rxbuf) \in Packet /\ Tail(rxbuf) \in Seq(Packet)
  BY <1>1, <1>10, TakeFirst
<1>11. CASE RefusePacket
  <2>1. rxbuf' = Tail(rxbuf) /\ rxbuf # <<>> /\ pc9 = "app" /\ UNCHANGED <<vars, given, player>>
    BY <1>11 DEF RefusePacket, InApp
  <2>2. pc9' = "app" /\ UNCHANGED list
    BY <2>1 DEF vars, arm9Vars, tableVars
  <2>3. QED
    BY <1>1, <1>3, <1>10, <2>1, <2>2 DEF LookupInv
<1>12. CASE CheckPacket
  <2>1. /\ rxbuf # <<>> /\ Head(rxbuf).aid # 0 /\ UNCHANGED <<list, given, player>>
        /\ pc9' = IF Head(rxbuf).aid > curMaxClients THEN "app" ELSE "lookup"
        /\ rxbuf' = IF Head(rxbuf).aid > curMaxClients THEN Tail(rxbuf) ELSE rxbuf
    BY <1>12 DEF CheckPacket, LockAndCheck, tableVars
  <2>2. Head(rxbuf).aid \in Aids
    BY <1>10, <2>1, HostAssumption DEF Packet, Aids
  <2>3. QED
    BY <1>1, <1>3, <1>10, <2>1, <2>2 DEF LookupInv
<1>13. CASE HandlePacket
  <2>1. /\ pc9 = "lookup" /\ pc9' = "app" /\ UNCHANGED <<list, player>> /\ rxbuf' = Tail(rxbuf)
        /\ given' \in {Head(rxbuf), NoPacket}
    BY <1>13 DEF HandlePacket, LookedUp, tableVars
  <2>2. rxbuf # <<>>
    BY <1>1, <2>1 DEF LookupInv
  <2>3. given' \in [from : Mac \cup {NoMac}, aid : 0 .. MaxClients]
    BY <1>2, <1>10, <2>1, <2>2 DEF Packet
  <2>4. QED
    BY <1>1, <1>3, <1>10, <2>1, <2>2, <2>3 DEF LookupInv
<1>14. CASE UNCHANGED sessionVars
  <2>1. UNCHANGED <<vars, packetVars>>
    BY <1>14 DEF sessionVars
  <2>2. QED
    BY <1>1, <1>5, <2>1
<1>15. QED
  BY <1>1, <1>2, <1>5, <1>6, <1>7, <1>8, <1>9, <1>11, <1>12, <1>13, <1>14 DEF SessionNext, Host, Console

(* The counters stay within their bounds.                                   *)
LEMMA CountersKeep ==
  ASSUME SessionOK, [SessionNext]_sessionVars
  PROVE  lost' \in 0 .. MaxLost /\ calls' \in 0 .. MaxCalls /\ apart' \subseteq Mac
<1>1. lost \in 0 .. MaxLost /\ calls \in 0 .. MaxCalls /\ apart \subseteq Mac
  BY DEF SessionOK, SessionTypeOK
<1>2. UNCHANGED lost \/ (lost < MaxLost /\ lost' = lost + 1)
  <2>1. ASSUME NEW m \in Mac, HostHears(m) \/ HostIgnores(m) PROVE UNCHANGED lost
    BY <2>1 DEF HostHears, HostIgnores
  <2>2. ASSUME NEW m \in Mac, Console(m) PROVE UNCHANGED lost
    BY <2>2 DEF Console, StationHears, Requests, Connects, StopsConnecting, Settles, Retries, Leaves,
                LeavesError, SendPacket, airVars
  <2>3. ASSUME NEW m \in Mac, Lose(m) PROVE lost < MaxLost /\ lost' = lost + 1
    BY <2>3 DEF Lose
  <2>4. CASE HostUpdates \/ HostApp \/ RefusePacket \/ CheckPacket \/ HandlePacket \/ UNCHANGED sessionVars
    BY <2>4 DEF HostUpdates, HostApp, RefusePacket, CheckPacket, HandlePacket, sessionVars, airVars
  <2>5. QED
    BY <2>1, <2>2, <2>3, <2>4 DEF SessionNext, Host
<1>3. UNCHANGED calls \/ (calls < MaxCalls /\ calls' = calls + 1)
  <2>1. ASSUME NEW m \in Mac, HostHears(m) \/ HostIgnores(m) \/ Lose(m) PROVE UNCHANGED calls
    BY <2>1 DEF HostHears, HostIgnores, Lose
  <2>2. ASSUME NEW m \in Mac, Console(m) PROVE UNCHANGED calls \/ Call
    BY <2>2 DEF Console, StationHears, Requests, Connects, StopsConnecting, Settles, Retries, Leaves,
                LeavesError, SendPacket
  <2>3. CASE HostUpdates \/ HostApp \/ RefusePacket \/ CheckPacket \/ HandlePacket \/ UNCHANGED sessionVars
    BY <2>3 DEF HostUpdates, HostApp, RefusePacket, CheckPacket, HandlePacket, sessionVars, Call
  <2>4. QED
    BY <2>1, <2>2, <2>3 DEF SessionNext, Host, Call
<1>4. UNCHANGED apart \/ \E m \in Mac : apart' \in {apart \ {m}, apart \cup {m}}
  BY DEF SessionNext, Host, Console, HostHears, HostIgnores, HostUpdates, HostApp, RefusePacket, CheckPacket,
         HandlePacket, StationHears, Requests, Connects, StopsConnecting, Settles, Retries, Leaves,
         LeavesError, SendPacket, Lose, sessionVars
<1>5. lost' \in 0 .. MaxLost
  BY <1>1, <1>2, SessionAssumption
<1>6. calls' \in 0 .. MaxCalls
  BY <1>1, <1>3, SessionAssumption
<1>7. QED
  BY <1>1, <1>4, <1>5, <1>6

LEMMA SessionInitial ==
  ASSUME SessionInit
  PROVE  HostInv /\ SessionOK
<1>1. HostInv
  BY HostInitial DEF SessionInit
<1>2. 0 \in 0 .. WIFI_MAX_ASSOC_RETRY + 2 /\ 0 \in 0 .. MaxClients /\ 0 \in 0 .. MaxLost /\ 0 \in 0 .. MaxCalls
      /\ 0 <= WIFI_MAX_ASSOC_RETRY
  BY HostAssumption, SessionAssumption
<1>3. station \in [Mac -> ConsoleState] /\ \A m \in Mac : station[m].authctr = 0
  BY <1>2 DEF SessionInit, ConsoleState
<1>4. RetryInv
  BY <1>2, <1>3 DEF RetryInv, RetryOK
<1>5. AirOK
  BY DEF SessionInit, AirOK
<1>6. given \in [from : Mac \cup {NoMac}, aid : 0 .. MaxClients]
  BY <1>2 DEF SessionInit, NoPacket
<1>7. /\ rxbuf \in Seq(Packet) /\ player \in [Aids -> Mac \cup {NoMac}]
      /\ lost \in 0 .. MaxLost /\ calls \in 0 .. MaxCalls /\ apart \subseteq Mac
  BY <1>2 DEF SessionInit
<1>8. PlayerInv /\ LookupInv
  BY DEF SessionInit, Init, Cleared, PlayerInv, LookupInv, Associated
<1>9. QED
  BY <1>1, <1>3, <1>4, <1>5, <1>6, <1>7, <1>8 DEF SessionOK, SessionTypeOK, ConsoleState, Packet

LEMMA SessionStep ==
  ASSUME HostInv, SessionOK, [SessionNext]_sessionVars
  PROVE  HostInv' /\ SessionOK'
<1>1. station' \in [Mac -> ConsoleState] /\ RetryInv'
  BY StationsKeep
<1>2. AirOK'
  BY AirKeeps
<1>3. lost' \in 0 .. MaxLost /\ calls' \in 0 .. MaxCalls /\ apart' \subseteq Mac
  BY CountersKeep
<1>4. /\ rxbuf' \in Seq(Packet)
      /\ given' \in [from : Mac \cup {NoMac}, aid : 0 .. MaxClients]
      /\ player' \in [Aids -> Mac \cup {NoMac}]
      /\ PlayerInv' /\ LookupInv'
  BY PacketsKeep
<1>5. SessionTypeOK'
  BY <1>1, <1>3, <1>4 DEF SessionTypeOK, ConsoleState, Packet
<1>6. QED
  BY <1>1, <1>2, <1>4, <1>5, SessionIsHost DEF SessionOK

(* The host of a session keeps its table, the consoles, the frames and the  *)
(* packets have their types, and an associated slot is the player's.        *)
THEOREM SessionInvariant == SessionSpec => [](HostInv /\ SessionOK)
<1>1. SessionInit => HostInv /\ SessionOK
  BY SessionInitial
<1>2. (HostInv /\ SessionOK) /\ [SessionNext]_sessionVars => (HostInv /\ SessionOK)'
  BY SessionStep
<1>3. QED
  BY <1>1, <1>2, PTL DEF SessionSpec

(* A packet is given to the application of the host as from the player with *)
(* number k only if its sender is the console that was told k last          *)
(* (Wifi_MultiplayerHandlePacketFromClient), whatever is late or lost and   *)
(* whoever had the slot before; also if the WiFi interrupt nests.           *)
THEOREM SessionRightSender == SessionSpec => RightSender
<1>1. ASSUME HostInv /\ SessionOK, [SessionNext]_sessionVars, given' \notin {given, NoPacket}
      PROVE  player'[given'.aid] = given'.from
  <2>1. HandlePacket
    BY <1>1 DEF SessionNext, Host, Console, HostHears, HostIgnores, HostUpdates, HostApp, RefusePacket,
         CheckPacket, HandlePacket, StationHears, Requests, Connects, StopsConnecting, Settles, Retries,
         Leaves, LeavesError, SendPacket, Lose, sessionVars, packetVars
  <2>2. pc9 = "lookup" /\ given' = Head(rxbuf) /\ MatchesMacAndAID(Head(rxbuf)) /\ UNCHANGED player
    BY <1>1, <2>1 DEF HandlePacket, LookedUp
  <2>3. Head(rxbuf).aid \in Aids
    BY <1>1, <2>2 DEF SessionOK, LookupInv
  <2>4. Head(rxbuf).aid \in Associated /\ list[Head(rxbuf).aid].macaddr = Head(rxbuf).from
    BY <2>2, <2>3 DEF MatchesMacAndAID, Associated
  <2>5. QED
    BY <1>1, <2>2, <2>4 DEF SessionOK, PlayerInv
<1>2. (HostInv /\ SessionOK) /\ [SessionNext]_sessionVars =>
        [given' \notin {given, NoPacket} => player'[given'.aid] = given'.from]_sessionVars
  BY <1>1
<1>3. QED
  BY <1>2, SessionInvariant, PTL DEF SessionSpec, RightSender

-----------------------------------------------------------------------------
(* The host and a console agree *)

(* What a step does to a queue of frames of the host: nothing, or the first *)
(* one is taken.                                                            *)
Kept(q, r) == r = q \/ (q # <<>> /\ r = Tail(q))

(* Nothing that concerns the console has changed.                           *)
LEMMA LinkSame ==
  ASSUME NEW n \in Mac, LinkOK(n), Closed' => Closed,
         toHost'[n] = toHost[n], toStation'[n] = toStation[n], told'[n] = told[n],
         Partner(n)' => /\ Partner(n) /\ station'[n].authlevel = station[n].authlevel
                        /\ station'[n].curClientAID = station[n].curClientAID
  PROVE  LinkOK(n)'
<1>1. RequestOK(n)'
  BY DEF LinkOK, RequestOK, LastOf
<1>2. AnswerOK(n)'
  BY DEF LinkOK, AnswerOK, LastOf
<1>3. ClosedOK(n)'
  BY DEF LinkOK, ClosedOK, LastOf
<1>4. QED
  BY <1>1, <1>2, <1>3 DEF LinkOK

(* What remains of a queue ends as it did.                                  *)
LEMMA LastKept ==
  ASSUME AirOK, NEW n \in Mac, Kept(toStation[n], toStation'[n]), toStation'[n] # <<>>
  PROVE  toStation[n] # <<>> /\ LastOf(toStation'[n]) = LastOf(toStation[n])
<1>1. toStation[n] \in Seq(HostFrame)
  BY DEF AirOK
<1>2. QED
  BY <1>1, TakeFirst DEF Kept

(* A console that does not listen, has failed or has missed a frame          *)
LEMMA LinkGone ==
  ASSUME AirOK, NEW n \in Mac, LinkOK(n), Closed' => Closed,
         Kept(toStation[n], toStation'[n]), ~ Partner(n)'
  PROVE  LinkOK(n)'
<1>1. Closed' /\ toStation'[n] # <<>> => LastOf(toStation'[n]).kind = "deauth"
  BY LastKept DEF LinkOK, ClosedOK
<1>2. ClosedOK(n)'
  BY <1>1 DEF ClosedOK, LastOf
<1>3. QED
  BY <1>2 DEF LinkOK, RequestOK, AnswerOK

(* A console that has just asked for authentication                         *)
LEMMA LinkAsks ==
  ASSUME AirOK, NEW n \in Mac, LinkOK(n), Closed' => Closed,
         Kept(toStation[n], toStation'[n]), station'[n].authlevel = "disconnected",
         toHost'[n] # <<>>, LastOf(toHost'[n]) = "auth"
  PROVE  LinkOK(n)'
<1>1. Closed' /\ toStation'[n] # <<>> => LastOf(toStation'[n]).kind = "deauth"
  BY LastKept DEF LinkOK, ClosedOK
<1>2. ClosedOK(n)'
  BY <1>1 DEF ClosedOK, LastOf
<1>3. RequestOK(n)'
  BY DEF RequestOK, LastOf
<1>4. AnswerOK(n)'
  BY DEF AnswerOK
<1>5. QED
  BY <1>2, <1>3, <1>4 DEF LinkOK

(* What a console does with a frame of the host                             *)
LEMMA StationHearsLinks ==
  ASSUME HostInv, SessionOK, NEW m \in Mac, LinkOK(m), StationHears(m)
  PROVE  LinkOK(m)'
<1> DEFINE s == station[m]
           q == toStation[m]
           f == Head(toStation[m])
           h == Handled(s, f)
<1>1. AirOK /\ toHost[m] \in Seq(ConsoleFrame) /\ q \in Seq(HostFrame) /\ q # <<>>
  BY DEF SessionOK, AirOK, StationHears
<1>2. s \in ConsoleState /\ RetryOK(s) /\ station \in [Mac -> ConsoleState]
  BY DEF SessionOK, SessionTypeOK, RetryInv, ConsoleState
<1>3. /\ f \in HostFrame /\ (Tail(q) # <<>> => LastOf(Tail(q)) = LastOf(q))
      /\ Tail(q) = <<>> => f = LastOf(q)
      /\ \A i \in DOMAIN q : q[i] = f \/ \E j \in DOMAIN Tail(q) : Tail(q)[j] = q[i]
  BY <1>1, TakeFirst
<1>4. station'[m] = h[1] /\ toHost'[m] = toHost[m] \o h[2] /\ toStation'[m] = Tail(q)
  BY <1>1, <1>2 DEF StationHears, Become, SessionOK, AirOK
<1>5. UNCHANGED <<told, curMode, pc7, apart>>
  BY DEF StationHears, vars, modeVars, arm7Vars
<1>6. (Closed' <=> Closed) /\ Kept(q, toStation'[m]) /\ told'[m] = told[m]
  BY <1>1, <1>4, <1>5 DEF Closed, Kept
<1>7. /\ \/ ~ s.hears /\ h[1] = s /\ h[2] = <<>>
         \/ h[1].authlevel = "error" /\ h[2] = <<>>
         \/ /\ f.kind = "auth" /\ s.authlevel = "disconnected" /\ s.hears
            /\ h[1].authlevel = "authenticated" /\ h[2] = <<"assoc">>
         \/ h[1].authlevel = "disconnected" /\ h[2] = <<"auth">>
         \/ f.kind = "auth" /\ s.authlevel # "disconnected" /\ h[1] = s /\ h[2] = <<>>
         \/ /\ f.kind = "assoc" /\ f.status = "success" /\ h[2] = <<>> /\ s.hears
            /\ h[1].hears /\ h[1].curClientAID = f.aid
            /\ h[1].authlevel = IF s.authlevel = "authenticated" THEN "associated" ELSE s.authlevel
  BY <1>2, <1>3, HandledCases
<1> HIDE DEF f, h
<1>8. ASSUME NEW k \in ConsoleFrame
      PROVE  /\ toHost[m] \o <<k>> # <<>> /\ LastOf(toHost[m] \o <<k>>) = k
             /\ toHost[m] \o <<>> = toHost[m]
  <2>1. /\ Append(toHost[m], k) # <<>> /\ LastOf(Append(toHost[m], k)) = k
        /\ toHost[m] \o <<k>> = Append(toHost[m], k) /\ toHost[m] \o <<>> = toHost[m]
    BY <1>1, AddLast
  <2>2. QED
    BY <2>1, Zenon
<1>9. Closed /\ f.kind # "deauth" => Tail(q) # <<>> /\ LastOf(Tail(q)).kind = "deauth"
  BY <1>1, <1>3 DEF LinkOK, ClosedOK
<1>10. CASE ~ s.hears /\ h[1] = s /\ h[2] = <<>>
  <2>1. ~ Partner(m)'
    BY <1>4, <1>10 DEF Partner
  <2>2. QED
    BY <1>1, <1>6, <2>1, LinkGone
<1>11. CASE h[1].authlevel = "error" /\ h[2] = <<>>
  <2>1. ~ Partner(m)'
    BY <1>4, <1>11 DEF Partner
  <2>2. QED
    BY <1>1, <1>6, <2>1, LinkGone
<1>12. CASE h[1].authlevel = "disconnected" /\ h[2] = <<"auth">>
  <2>1. toHost'[m] # <<>> /\ LastOf(toHost'[m]) = "auth" /\ station'[m].authlevel = "disconnected"
    BY <1>4, <1>8, <1>12 DEF ConsoleFrame
  <2>2. QED
    BY <1>1, <1>6, <2>1, LinkAsks
<1>13. CASE /\ f.kind = "auth" /\ s.authlevel = "disconnected" /\ s.hears
            /\ h[1].authlevel = "authenticated" /\ h[2] = <<"assoc">>
  <2>1. toHost'[m] # <<>> /\ LastOf(toHost'[m]) = "assoc" /\ station'[m].authlevel = "authenticated"
    BY <1>4, <1>8, <1>13 DEF ConsoleFrame
  <2>2. RequestOK(m)' /\ AnswerOK(m)'
    BY <2>1 DEF RequestOK, AnswerOK, LastOf
  <2>3. ClosedOK(m)'
    BY <1>4, <1>6, <1>9, <1>13 DEF ClosedOK, LastOf
  <2>4. QED
    BY <2>2, <2>3 DEF LinkOK
<1>14. CASE \/ f.kind = "auth" /\ s.authlevel # "disconnected" /\ h[1] = s /\ h[2] = <<>>
            \/ /\ f.kind = "assoc" /\ f.status = "success" /\ h[2] = <<>> /\ s.hears
               /\ h[1].hears /\ h[1].curClientAID = f.aid
               /\ h[1].authlevel = IF s.authlevel = "authenticated" THEN "associated" ELSE s.authlevel
  <2>1. toHost'[m] = toHost[m] /\ f.kind # "deauth"
    BY <1>4, <1>8, <1>14 DEF ConsoleFrame
  <2>2. Partner(m)' => /\ Partner(m)
                       /\ (station'[m].authlevel = "disconnected" <=> s.authlevel = "disconnected")
    BY <1>4, <1>5, <1>14 DEF Partner
  <2>3. ClosedOK(m)'
    BY <1>4, <1>6, <1>9, <2>1 DEF ClosedOK, LastOf
  <2>4. AnswerOK(m)'
    <3>1. AnswerOK(m)
      BY DEF LinkOK
    <3>2. QED
      BY <1>1, <1>3, <1>4, <1>6, <2>1, <2>2, <3>1 DEF AnswerOK, LastOf
  <2>5. ASSUME Partner(m)', toHost[m] = <<>>, s.authlevel # "disconnected"
        PROVE  \/ \E i \in DOMAIN toStation'[m] : toStation'[m][i].kind = "deauth"
               \/ toStation'[m] # <<>> /\ LastOf(toStation'[m]).kind = "assoc"
               \/ /\ toStation'[m] = <<>> /\ station'[m].authlevel = "associated"
                  /\ told'[m] = station'[m].curClientAID
    <3>1. \/ \E i \in DOMAIN q : q[i].kind = "deauth"
          \/ q # <<>> /\ LastOf(q).kind = "assoc"
      BY <1>1, <2>2, <2>5 DEF LinkOK, RequestOK
    <3>2. CASE \E i \in DOMAIN q : q[i].kind = "deauth"
      <4>1. PICK i \in DOMAIN q : q[i].kind = "deauth"
        BY <3>2
      <4>2. q[i] # f
        BY <2>1, <4>1
      <4>3. \E j \in DOMAIN Tail(q) : Tail(q)[j] = q[i]
        BY <1>3, <4>2
      <4>4. QED
        BY <1>4, <4>1, <4>3
    <3>3. CASE LastOf(q).kind = "assoc" /\ Tail(q) # <<>>
      BY <1>3, <1>4, <3>3
    <3>4. CASE LastOf(q).kind = "assoc" /\ Tail(q) = <<>>
      <4>1. f = LastOf(q) /\ f.kind = "assoc" /\ f.status = "success"
        BY <1>3, <1>14, <3>4
      <4>2. told[m] = f.aid
        BY <1>1, <2>2, <2>5, <4>1 DEF LinkOK, AnswerOK
      <4>3. s.authlevel \in {"authenticated", "associated"}
        BY <1>2, <2>2, <2>5 DEF Partner, ConsoleState
      <4>4. station'[m].authlevel = "associated" /\ station'[m].curClientAID = f.aid
        BY <1>4, <1>14, <4>1, <4>3
      <4>5. QED
        BY <1>4, <1>6, <3>4, <4>2, <4>4
    <3>5. QED
      BY <3>1, <3>2, <3>3, <3>4
  <2>6. RequestOK(m)'
    <3>1. RequestOK(m)
      BY DEF LinkOK
    <3>2. QED
      BY <1>6, <2>1, <2>2, <2>5, <3>1 DEF RequestOK, LastOf
  <2>7. QED
    BY <2>3, <2>4, <2>6 DEF LinkOK
<1>15. QED
  BY <1>7, <1>10, <1>11, <1>12, <1>13, <1>14

(* The other steps of a console                                             *)
LEMMA ConsoleLinks ==
  ASSUME HostInv, SessionOK, NEW m \in Mac, LinkOK(m), Console(m)
  PROVE  LinkOK(m)'
<1> DEFINE s == station[m]
<1>1. AirOK /\ toHost[m] \in Seq(ConsoleFrame)
  BY DEF SessionOK, AirOK
<1>2. s \in ConsoleState /\ station \in [Mac -> ConsoleState]
  BY DEF SessionOK, SessionTypeOK, ConsoleState
<1>3. UNCHANGED <<told, curMode, pc7>>
  BY DEF Console, StationHears, Requests, Connects, StopsConnecting, Settles, Retries, Leaves,
         LeavesError, SendPacket, vars, modeVars, arm7Vars
<1>4. (Closed' => Closed) /\ told'[m] = told[m]
  BY <1>3 DEF Closed
<1>5. ASSUME NEW t, Become(m, t) PROVE station'[m] = t
  BY <1>2, <1>5 DEF Become
<1>6. CASE StationHears(m)
  BY <1>6, StationHearsLinks
<1>7. CASE Requests(m) \/ Settles(m) \/ SendPacket(m)
  <2>1. UNCHANGED <<toHost, toStation, apart>>
    BY <1>7 DEF Requests, Settles, SendPacket, airVars
  <2>2. /\ station'[m].authlevel = s.authlevel /\ station'[m].curClientAID = s.curClientAID
        /\ station'[m].hears = s.hears
    <3>1. CASE SendPacket(m)
      BY <3>1 DEF SendPacket
    <3>2. CASE Requests(m)
      <4>1. station'[m] = [s EXCEPT !.reqMode = IF @ = "normal" THEN "connected" ELSE "normal"]
        BY <1>5, <3>2 DEF Requests
      <4>2. QED
        BY <1>2, <4>1 DEF ConsoleState
    <3>3. CASE Settles(m)
      <4>1. \E c \in {"connected", "cannotconnect"} : station'[m] = [s EXCEPT !.curMode = c]
        BY <1>5, <3>3 DEF Settles
      <4>2. QED
        BY <1>2, <4>1 DEF ConsoleState
    <3>4. QED
      BY <1>7, <3>1, <3>2, <3>3
  <2>3. Partner(m)' => Partner(m)
    BY <2>1, <2>2 DEF Partner
  <2>4. QED
    BY <1>4, <2>1, <2>2, <2>3, LinkSame
<1>8. CASE Connects(m)
  <2>1. /\ station'[m] = [s EXCEPT !.curMode = "connecting", !.hears = TRUE, !.realRates = TRUE,
                                   !.authctr = 0, !.authlevel = "disconnected"]
        /\ toHost' = [toHost EXCEPT ![m] = Append(@, "auth")] /\ UNCHANGED toStation
    BY <1>5, <1>8 DEF Connects, Sends
  <2>2. station'[m].authlevel = "disconnected"
    BY <1>2, <2>1 DEF ConsoleState
  <2>3. toHost'[m] = Append(toHost[m], "auth")
    BY <2>1 DEF SessionOK, AirOK
  <2>4. toHost'[m] # <<>> /\ LastOf(toHost'[m]) = "auth"
    BY <1>1, <2>3, AddLast DEF ConsoleFrame
  <2>5. QED
    BY <1>1, <1>4, <2>1, <2>2, <2>4, LinkAsks DEF Kept
<1>9. CASE StopsConnecting(m) \/ Leaves(m) \/ LeavesError(m)
  <2>1. ~ station'[m].hears
    <3>1. \/ station'[m] = [s EXCEPT !.curMode = "normal", !.hears = FALSE]
          \/ station'[m] = [s EXCEPT !.curMode = "normal", !.hears = FALSE, !.curClientAID = 0]
      BY <1>5, <1>9 DEF StopsConnecting, Leaves, LeavesError
    <3>2. QED
      BY <1>2, <3>1 DEF ConsoleState
  <2>2. ~ Partner(m)' /\ UNCHANGED toStation
    BY <1>9, <2>1 DEF Partner, StopsConnecting, Leaves, LeavesError, airVars
  <2>3. QED
    BY <1>1, <1>4, <2>2, LinkGone DEF Kept
<1>10. CASE Retries(m)
  <2> DEFINE r == [s EXCEPT !.authctr = @ + 1]
  <2>1. r = [s EXCEPT !.authctr = s.authctr + 1] /\ UNCHANGED toStation
    BY <1>10 DEF Retries
  <2>2. CASE r.authctr > WIFI_MAX_ASSOC_RETRY
    <3>1. station'[m] = [r EXCEPT !.authlevel = "error"]
      BY <1>5, <1>10, <2>2 DEF Retries
    <3>2. station'[m].authlevel = "error"
      BY <1>2, <3>1 DEF ConsoleState
    <3>3. ~ Partner(m)'
      BY <3>2 DEF Partner
    <3>4. QED
      BY <1>1, <1>4, <2>1, <3>3, LinkGone DEF Kept
  <2>3. CASE ~ (r.authctr > WIFI_MAX_ASSOC_RETRY)
    <3>1. /\ station'[m] = [r EXCEPT !.authlevel = "disconnected",
                                     !.realRates = @ \/ s.authlevel = "authenticated"]
          /\ toHost' = [toHost EXCEPT ![m] = Append(@, "auth")]
      BY <1>5, <1>10, <2>3 DEF Retries, Sends
    <3>2. station'[m].authlevel = "disconnected"
      BY <1>2, <3>1 DEF ConsoleState
    <3>3. toHost'[m] = Append(toHost[m], "auth")
      BY <3>1 DEF SessionOK, AirOK
    <3>4. toHost'[m] # <<>> /\ LastOf(toHost'[m]) = "auth"
      BY <1>1, <3>3, AddLast DEF ConsoleFrame
    <3>5. QED
      BY <1>1, <1>4, <2>1, <3>2, <3>4, LinkAsks DEF Kept
  <2>4. QED
    BY <2>2, <2>3
<1>11. QED
  BY <1>6, <1>7, <1>8, <1>9, <1>10 DEF Console

(* A request that the host has handled, while it is in host mode            *)
LEMMA HostHearsLinks ==
  ASSUME NestedIrq = FALSE, HostInv, SessionOK, NEW m \in Mac, LinkOK(m), HostHears(m)
  PROVE  LinkOK(m)' /\ ~ Closed' /\ \A n \in Mac : n # m => told'[n] = told[n]
<1> DEFINE q == toHost[m]
<1>1. AirOK /\ q \in Seq(ConsoleFrame) /\ toStation[m] \in Seq(HostFrame) /\ q # <<>>
  BY DEF SessionOK, AirOK, HostHears
<1>2. /\ Tail(q) # <<>> => LastOf(Tail(q)) = LastOf(q)
      /\ Tail(q) = <<>> => Head(q) = LastOf(q)
  BY <1>1, TakeFirst
<1>3. told \in [Mac -> 0 .. MaxClients]
  BY DEF HostInv, TypeOK
<1>4. FrameArrives /\ UNCHANGED <<curMode, pc7>>
  BY <1>1, HostHearsFrame DEF ProcessAuthentication, ProcessAssocRequest, ProcessDeauthentication,
                              modeVars, arm7Vars
<1>5. ~ Closed' /\ pc7 = "idle"
  BY <1>4 DEF FrameArrives, Closed
<1>6. UNCHANGED <<station, apart>> /\ toHost'[m] = Tail(q)
  BY <1>1 DEF HostHears, Taken, AirOK
<1>7. Partner(m)' <=> Partner(m)
  BY <1>6 DEF Partner
<1>8. ASSUME NEW r, Grant(m, r) PROVE told'[m] = r /\ \A n \in Mac : n # m => told'[n] = told[n]
  BY <1>3, <1>5, <1>8 DEF Grant
<1>9. ClosedOK(m)'
  BY <1>5 DEF ClosedOK
<1>10. ASSUME NEW fs, Answers(m, fs) PROVE toStation'[m] = toStation[m] \o fs
  BY <1>1, <1>10 DEF Answers, AirOK
<1>11. ASSUME NEW f \in HostFrame, NEW fs \in {<<f>>, <<f, f>>}, Answers(m, fs)
       PROVE  toStation'[m] # <<>> /\ LastOf(toStation'[m]) = f
  <2>1. toStation[m] \o fs # <<>> /\ LastOf(toStation[m] \o fs) = f
    <3>1. toStation[m] \in Seq(HostFrame) /\ fs \in {<<f>>, <<f, f>>}
      BY <1>1, <1>11
    <3> DEFINE p == toStation[m]
    <3>2. p \in Seq(HostFrame)
      BY <3>1
    <3> HIDE DEF p
    <3>3. p \o fs # <<>> /\ LastOf(p \o fs) = f
      BY <3>1, <3>2, AddAnswer
    <3>4. QED
      BY <3>3 DEF p
  <2>2. QED
    BY <1>10, <1>11, <2>1, Zenon
<1>12. RequestOK(m)
  BY DEF LinkOK
<1>13. CASE /\ Head(q) = "auth" /\ ProcessAuthentication(m)
            /\ \E f \in HostFrame : \E fs \in {<<f>>, <<f, f>>} : f.kind = "auth" /\ Answers(m, fs)
  <2>1. told'[m] = 0 /\ \A n \in Mac : n # m => told'[n] = told[n]
    BY <1>8, <1>13 DEF ProcessAuthentication
  <2>2. LastOf(toStation'[m]).kind = "auth"
    BY <1>11, <1>13
  <2>3. AnswerOK(m)'
    BY <2>2 DEF AnswerOK, LastOf
  <2>4. RequestOK(m)'
    BY <1>1, <1>2, <1>6, <1>7, <1>12, <1>13, <2>1 DEF RequestOK, LastOf
  <2>5. QED
    BY <1>5, <1>9, <2>1, <2>3, <2>4 DEF LinkOK
<1>14. CASE /\ Head(q) = "assoc" /\ ProcessAssocRequest(m)
            /\ \E f \in HostFrame : \E fs \in {<<f>>, <<f, f>>} :
                 f.kind = "assoc" /\ f.aid = AssociateResult(m) /\ Answers(m, fs)
  <2>1. told'[m] = AssociateResult(m) /\ \A n \in Mac : n # m => told'[n] = told[n]
    BY <1>8, <1>14 DEF ProcessAssocRequest
  <2>2. /\ toStation'[m] # <<>> /\ LastOf(toStation'[m]).kind = "assoc"
        /\ LastOf(toStation'[m]).aid = AssociateResult(m)
    BY <1>11, <1>14
  <2>3. AnswerOK(m)'
    BY <2>1, <2>2 DEF AnswerOK, LastOf
  <2>4. RequestOK(m)'
    BY <1>1, <1>2, <1>6, <1>7, <1>12, <1>14, <2>2 DEF RequestOK, LastOf
  <2>5. QED
    BY <1>5, <1>9, <2>1, <2>3, <2>4 DEF LinkOK
<1>15. CASE Head(q) = "deauth" /\ ProcessDeauthentication(m) /\ UNCHANGED toStation
  <2>1. told'[m] = 0 /\ \A n \in Mac : n # m => told'[n] = told[n]
    BY <1>8, <1>15 DEF ProcessDeauthentication
  <2>2. Partner(m) => Tail(q) # <<>>
    BY <1>1, <1>2, <1>12, <1>15 DEF RequestOK
  <2>3. AnswerOK(m)'
    BY <1>6, <1>7, <2>2 DEF AnswerOK
  <2>4. RequestOK(m)'
    BY <1>1, <1>2, <1>6, <1>7, <1>12, <2>2 DEF RequestOK, LastOf
  <2>5. QED
    BY <1>5, <1>9, <2>1, <2>3, <2>4 DEF LinkOK
<1>16. TypeOK /\ SlotInv
  BY DEF HostInv
<1>17. QED
  BY <1>1, <1>13, <1>14, <1>15, <1>16, HostHearsFrame, HostAnswers

(* A request that reaches a host outside of host mode: the goodbye is on    *)
(* its way, or has arrived.                                                 *)
LEMMA HostIgnoresLinks ==
  ASSUME HostInv, SessionOK, NEW m \in Mac, LinkOK(m), HostIgnores(m)
  PROVE  LinkOK(m)'
<1> DEFINE q == toHost[m]
           r == toStation[m]
<1>1. AirOK /\ q \in Seq(ConsoleFrame) /\ r \in Seq(HostFrame) /\ q # <<>>
  BY DEF SessionOK, AirOK, HostIgnores
<1>2. /\ Tail(q) # <<>> => LastOf(Tail(q)) = LastOf(q)
      /\ Tail(q) = <<>> => Head(q) = LastOf(q)
  BY <1>1, TakeFirst
<1>3. curMode = "normal"
  BY DEF HostIgnores, HostInv, TypeOK
<1>4. Closed /\ told[m] = 0
  BY <1>3 DEF Closed, HostInv, GrantInv
<1>5. UNCHANGED <<station, apart, told, curMode, pc7, toStation>> /\ toHost'[m] = Tail(q)
  BY <1>1 DEF HostIgnores, Taken, AirOK, vars, modeVars, arm7Vars
<1>6. Partner(m)' <=> Partner(m)
  BY <1>5 DEF Partner
<1>7. ClosedOK(m) /\ RequestOK(m)
  BY DEF LinkOK
<1>8. ClosedOK(m)'
  BY <1>4, <1>5, <1>6, <1>7 DEF ClosedOK, LastOf
<1>9. AnswerOK(m)'
  BY <1>4, <1>5, <1>7 DEF AnswerOK, ClosedOK, LastOf
<1>10. r # <<>> => \E i \in DOMAIN r : r[i].kind = "deauth"
  <2>1. ASSUME r # <<>> PROVE Len(r) \in DOMAIN r /\ r[Len(r)].kind = "deauth"
    BY <1>1, <1>4, <1>7, <2>1 DEF ClosedOK, LastOf
  <2>2. QED
    BY <2>1
<1>11. RequestOK(m)'
  <2>1. CASE Tail(q) # <<>>
    BY <1>1, <1>2, <1>5, <1>6, <1>7, <2>1 DEF RequestOK, LastOf
  <2>2. CASE Tail(q) = <<>>
    <3>1. Partner(m) /\ station[m].authlevel # "disconnected" => r # <<>>
      BY <1>4, <1>7 DEF ClosedOK
    <3>2. QED
      BY <1>4, <1>5, <1>6, <1>10, <2>2, <3>1 DEF RequestOK
  <2>3. QED
    BY <2>1, <2>2
<1>12. QED
  BY <1>8, <1>9, <1>11 DEF LinkOK

(* The goodbyes of Wifi_NTR_Update: who gets one is no client any more, and *)
(* a host that closes down sends them to everyone.                          *)
LEMMA UpdateDismisses ==
  ASSUME HostInv, HostUpdates
  PROVE  \E D \in SUBSET Mac :
           /\ Closed' => Closed \/ D = Mac
           /\ \A n \in D : /\ told'[n] = 0
                           /\ toStation'[n] = Append(toStation[n], [kind |-> "deauth", aid |-> 0, status |-> "left"])
           /\ \A n \in Mac \ D : told'[n] = told[n] /\ toStation'[n] = toStation[n]
<1> DEFINE f == [kind |-> "deauth", aid |-> 0, status |-> "left"]
           Goal(D) == /\ Closed' => Closed \/ D = Mac
                      /\ \A n \in D : told'[n] = 0 /\ toStation'[n] = Append(toStation[n], f)
                      /\ \A n \in Mac \ D : told'[n] = told[n] /\ toStation'[n] = toStation[n]
<1> SUFFICES \E D \in SUBSET Mac : Goal(D)
  OBVIOUS
<1>1. told \in [Mac -> 0 .. MaxClients]
  BY DEF HostInv, TypeOK
<1>2. ASSUME NEW S, Dismiss(S)
      PROVE  \A n \in Mac : toStation'[n] = IF n \notin S THEN toStation[n] ELSE Append(toStation[n], f)
  BY <1>2 DEF Dismiss
<1>3. CASE KickAll /\ Dismiss(Mac)
  <2>1. \A n \in Mac : told'[n] = 0
    BY <1>3 DEF KickAll
  <2>2. Goal(Mac)
    BY <1>2, <1>3, <2>1
  <2>3. QED
    BY <2>2
<1>4. CASE KickByAID /\ Dismiss({list[a].macaddr : a \in {b \in {First(mask)} : Kickable(b)}})
  <2> DEFINE a == First(mask)
             S == {list[c].macaddr : c \in {b \in {First(mask)} : Kickable(b)}}
  <2>1. Closed' => Closed
    BY <1>4 DEF KickByAID, Closed, modeVars, Goto7
  <2>2. CASE Kickable(a)
    <3>1. S = {list[a].macaddr}
      BY <2>2
    <3>2. told' = [told EXCEPT ![list[a].macaddr] = 0]
      BY <1>4, <2>2 DEF KickByAID
    <3>3. \A n \in Mac : told'[n] = IF n \in S THEN 0 ELSE told[n]
      BY <1>1, <3>1, <3>2
    <3>4. Dismiss(S)
      BY <1>4
    <3> HIDE DEF S, a
    <3>5. Goal(Mac \cap S)
      BY <1>2, <2>1, <3>3, <3>4
    <3>6. QED
      BY <3>5
  <2>3. CASE ~ Kickable(a)
    <3>1. S = {}
      BY <2>3
    <3>2. told' = told
      BY <1>4, <2>3 DEF KickByAID
    <3>3. Dismiss(S)
      BY <1>4
    <3> HIDE DEF S, a
    <3>4. Goal({})
      BY <1>2, <2>1, <3>1, <3>2, <3>3
    <3> HIDE DEF Goal
    <3>5. QED
      BY <3>4, {} \in SUBSET Mac
  <2>4. QED
    BY <2>2, <2>3
<1>5. CASE UpdateAllow /\ Dismiss(Dismissed)
  <2>1. Closed' => Closed
    BY <1>5 DEF UpdateAllow, Closed, modeVars, Goto7
  <2>2. \A n \in Mac : told'[n] = IF n \in Dismissed THEN 0 ELSE told[n]
    <3>1. CASE BeaconAllows /\ ~ reqAllow
      <4>1. told' = [m \in Mac |-> IF \E a \in Joining : list[a].macaddr = m THEN 0 ELSE told[m]]
        BY <1>5, <3>1 DEF UpdateAllow
      <4>2. Dismissed = {list[a].macaddr : a \in Joining}
        BY <3>1 DEF Dismissed
      <4>3. QED
        BY <4>1, <4>2
    <3>2. CASE ~ (BeaconAllows /\ ~ reqAllow)
      <4>1. told' = told
        BY <1>5, <3>2 DEF UpdateAllow
      <4>2. Dismissed = {}
        BY <3>2 DEF Dismissed
      <4>3. QED
        BY <4>1, <4>2
    <3>3. QED
      BY <3>1, <3>2
  <2>3. Goal(Mac \cap Dismissed)
    BY <1>2, <1>5, <2>1, <2>2
  <2>4. QED
    BY <2>3
<1>6. CASE /\ \/ EnterHostMode \/ StayNormal \/ LeaveHostMode \/ ReadKickMask \/ ClearKickMask
              \/ FinishKick \/ KicksDone \/ FlushBeacon \/ FlushOther
           /\ UNCHANGED toStation
  <2>1. UNCHANGED <<told, toStation>>
    BY <1>6 DEF EnterHostMode, StayNormal, LeaveHostMode, ReadKickMask, ClearKickMask, FinishKick,
                KicksDone, FlushBeacon, FlushOther
  <2>2. Closed' => Closed
    <3>1. CASE EnterHostMode \/ StayNormal \/ LeaveHostMode
      BY <3>1 DEF EnterHostMode, StayNormal, LeaveHostMode, Closed, Goto7
    <3>2. CASE ReadKickMask \/ ClearKickMask \/ FinishKick \/ KicksDone \/ FlushBeacon \/ FlushOther
      BY <3>2 DEF ReadKickMask, ClearKickMask, FinishKick, KicksDone, FlushBeacon, FlushOther, Closed,
                  Goto7, modeVars
    <3>3. QED
      BY <1>6, <3>1, <3>2
  <2>3. Goal({})
    BY <2>1, <2>2
  <2> HIDE DEF Goal
  <2>4. QED
    BY <2>3, {} \in SUBSET Mac
<1>7. QED
  BY <1>3, <1>4, <1>5, <1>6 DEF HostUpdates

LEMMA HostUpdatesLinks ==
  ASSUME HostInv, SessionOK, LinkInv, HostUpdates
  PROVE  LinkInv'
<1> DEFINE f == [kind |-> "deauth", aid |-> 0, status |-> "left"]
<1>1. PICK D \in SUBSET Mac :
        /\ Closed' => Closed \/ D = Mac
        /\ \A n \in D : told'[n] = 0 /\ toStation'[n] = Append(toStation[n], f)
        /\ \A n \in Mac \ D : told'[n] = told[n] /\ toStation'[n] = toStation[n]
  BY UpdateDismisses
<1>2. UNCHANGED <<station, toHost, apart>>
  BY DEF HostUpdates
<1>3. f \in HostFrame /\ f.kind = "deauth"
  BY HostAssumption DEF HostFrame
<1> HIDE DEF f
<1>4. ASSUME NEW n \in D PROVE LinkOK(n)'
  <2>1. toStation[n] \in Seq(HostFrame) /\ LinkOK(n)
    BY DEF SessionOK, AirOK, LinkInv
  <2>2. /\ Append(toStation[n], f) # <<>> /\ LastOf(Append(toStation[n], f)) = f
        /\ \E i \in DOMAIN Append(toStation[n], f) : Append(toStation[n], f)[i] = f
    BY <1>3, <2>1, AddLast
  <2>3. /\ toStation'[n] # <<>> /\ LastOf(toStation'[n]).kind = "deauth" /\ told'[n] = 0
        /\ \E i \in DOMAIN toStation'[n] : toStation'[n][i].kind = "deauth"
    BY <1>1, <1>3, <2>2
  <2>4. Partner(n)' <=> Partner(n)
    BY <1>2 DEF Partner
  <2>5. ClosedOK(n)' /\ AnswerOK(n)'
    BY <2>3 DEF ClosedOK, AnswerOK, LastOf
  <2>6. RequestOK(n)
    BY <2>1 DEF LinkOK
  <2>7. RequestOK(n)'
    BY <1>2, <2>3, <2>4, <2>6 DEF RequestOK, LastOf
  <2>8. QED
    BY <2>5, <2>7 DEF LinkOK
<1>5. ASSUME NEW n \in Mac \ D PROVE LinkOK(n)'
  <2>1. Partner(n)' => Partner(n)
    BY <1>2 DEF Partner
  <2>2. LinkOK(n) /\ (Closed' => Closed)
    BY <1>1 DEF LinkInv
  <2>3. toStation'[n] = toStation[n] /\ told'[n] = told[n]
    BY <1>1
  <2>4. QED
    BY <1>2, <2>1, <2>2, <2>3, LinkSame
<1>6. QED
  BY <1>4, <1>5 DEF LinkInv

(* Every step keeps the links, if the WiFi interrupt does not nest.         *)
LEMMA LinkStep ==
  ASSUME NestedIrq = FALSE, HostInv, SessionOK, LinkInv, [SessionNext]_sessionVars
  PROVE  LinkInv'
<1>1. toHost \in [Mac -> Seq(ConsoleFrame)] /\ toStation \in [Mac -> Seq(HostFrame)] /\ AirOK
  BY DEF SessionOK, AirOK
<1>2. ASSUME NEW n \in Mac, UNCHANGED <<told, curMode, pc7>>, station'[n] = station[n],
             toHost'[n] = toHost[n], toStation'[n] = toStation[n], n \in apart' <=> n \in apart
      PROVE  LinkOK(n)'
  <2>1. Partner(n)' => Partner(n)
    BY <1>2 DEF Partner
  <2>2. LinkOK(n) /\ (Closed' => Closed)
    BY <1>2 DEF LinkInv, Closed
  <2>3. told'[n] = told[n]
    BY <1>2
  <2>4. QED
    BY <1>2, <2>1, <2>2, <2>3, LinkSame
<1>3. ASSUME NEW m \in Mac, Console(m) PROVE LinkInv'
  <2>1. LinkOK(m)'
    BY <1>3, ConsoleLinks DEF LinkInv
  <2>2. UNCHANGED vars
    BY <1>3 DEF Console, StationHears, Requests, Connects, StopsConnecting, Settles, Retries, Leaves,
                LeavesError, SendPacket
  <2>3. ASSUME NEW n \in Mac, n # m
        PROVE  /\ station'[n] = station[n] /\ toHost'[n] = toHost[n] /\ toStation'[n] = toStation[n]
               /\ n \in apart' <=> n \in apart
    <3>1. station'[n] = station[n]
      <4>1. \E t \in ConsoleState : RetryOK(t) /\ station' = [station EXCEPT ![m] = t]
        BY <1>3, ConsoleBecomes
      <4>2. station \in [Mac -> ConsoleState]
        BY DEF SessionOK, SessionTypeOK, ConsoleState
      <4>3. QED
        BY <2>3, <4>1, <4>2
    <3>2. toHost'[n] = toHost[n] /\ toStation'[n] = toStation[n]
      BY <1>1, <1>3, <2>3 DEF Console, StationHears, Requests, Connects, StopsConnecting, Settles, Retries,
             Leaves, LeavesError, SendPacket, Sends, airVars
    <3>3. apart' \in {apart, apart \ {m}, apart \cup {m}}
      BY <1>3 DEF Console, StationHears, Requests, Connects, StopsConnecting, Settles, Retries,
                  Leaves, LeavesError, SendPacket
    <3>4. QED
      BY <2>3, <3>1, <3>2, <3>3
  <2>4. UNCHANGED <<told, curMode, pc7>>
    BY <2>2 DEF vars, modeVars, arm7Vars
  <2>5. ASSUME NEW n \in Mac, n # m PROVE LinkOK(n)'
    BY <1>2, <2>3, <2>4, <2>5
  <2>6. QED
    BY <2>1, <2>5 DEF LinkInv
<1>4. ASSUME NEW m \in Mac, Lose(m) PROVE LinkInv'
  <2>1. /\ UNCHANGED <<vars, station>> /\ apart' = apart \cup {m}
        /\ \/ toHost[m] # <<>> /\ Taken(m) /\ UNCHANGED toStation
           \/ toStation[m] # <<>> /\ toStation' = [toStation EXCEPT ![m] = Tail(@)] /\ UNCHANGED toHost
    BY <1>4 DEF Lose
  <2>2. UNCHANGED <<told, curMode, pc7>>
    BY <2>1 DEF vars, modeVars, arm7Vars
  <2>3. LinkOK(m)'
    <3>1. Kept(toStation[m], toStation'[m])
      BY <1>1, <2>1 DEF Kept
    <3>2. ~ Partner(m)'
      BY <2>1 DEF Partner
    <3>3. LinkOK(m) /\ (Closed' => Closed)
      BY <2>2 DEF LinkInv, Closed
    <3>4. QED
      BY <1>1, <3>1, <3>2, <3>3, LinkGone
  <2>4. ASSUME NEW n \in Mac, n # m PROVE LinkOK(n)'
    <3>1. toHost'[n] = toHost[n] /\ toStation'[n] = toStation[n]
      BY <1>1, <2>1, <2>4 DEF Taken
    <3>2. station'[n] = station[n] /\ (n \in apart' <=> n \in apart)
      BY <2>1, <2>4
    <3>3. QED
      BY <1>2, <2>2, <3>1, <3>2
  <2>5. QED
    BY <2>3, <2>4 DEF LinkInv
<1>5. ASSUME NEW m \in Mac, HostHears(m) PROVE LinkInv'
  <2>1. LinkOK(m)' /\ ~ Closed' /\ \A n \in Mac : n # m => told'[n] = told[n]
    BY <1>5, HostHearsLinks DEF LinkInv
  <2>2. ASSUME NEW n \in Mac, n # m PROVE LinkOK(n)'
    <3>1. UNCHANGED <<station, apart>> /\ toHost'[n] = toHost[n]
      BY <1>1, <1>5, <2>2 DEF HostHears, Taken
    <3>2. toStation'[n] = toStation[n]
      <4>1. UNCHANGED toStation \/ \E g : toStation' = [toStation EXCEPT ![m] = g]
        BY <1>1, <1>5, HostHearsFrame DEF Answers
      <4>2. QED
        BY <1>1, <2>2, <4>1
    <3>3. Partner(n)' => Partner(n)
      BY <3>1 DEF Partner
    <3>4. LinkOK(n) /\ told'[n] = told[n]
      BY <2>1, <2>2 DEF LinkInv
    <3>5. QED
      BY <2>1, <3>1, <3>2, <3>3, <3>4, LinkSame
  <2>3. QED
    BY <2>1, <2>2 DEF LinkInv
<1>6. ASSUME NEW m \in Mac, HostIgnores(m) PROVE LinkInv'
  <2>1. LinkOK(m)'
    BY <1>6, HostIgnoresLinks DEF LinkInv
  <2>2. UNCHANGED <<told, curMode, pc7, station, toStation, apart>>
    BY <1>6 DEF HostIgnores, vars, modeVars, arm7Vars
  <2>3. \A n \in Mac : n # m => toHost'[n] = toHost[n]
    BY <1>1, <1>6 DEF HostIgnores, Taken
  <2>4. ASSUME NEW n \in Mac, n # m PROVE LinkOK(n)'
    BY <1>2, <2>2, <2>3, <2>4
  <2>5. QED
    BY <2>1, <2>4 DEF LinkInv
<1>7. CASE HostUpdates
  BY <1>7, HostUpdatesLinks
<1>8. CASE HostApp \/ RefusePacket \/ CheckPacket \/ HandlePacket \/ UNCHANGED sessionVars
  <2>1. UNCHANGED <<station, toHost, toStation, apart>>
    BY <1>8 DEF HostApp, RefusePacket, CheckPacket, HandlePacket, sessionVars, airVars
  <2>2. UNCHANGED <<told, curMode, pc7>>
    <3>1. CASE HostApp
      BY <3>1 DEF HostApp, MultiplayerHostMode, IdleMode, BeaconStart, AllowNewClients, KickClientByAID,
                  StoreKickMask, modeVars, arm7Vars
    <3>2. CASE CheckPacket \/ HandlePacket
      BY <3>2 DEF CheckPacket, HandlePacket, LockAndCheck, LookedUp, modeVars, arm7Vars
    <3>3. CASE RefusePacket \/ UNCHANGED sessionVars
      BY <3>3 DEF RefusePacket, sessionVars, vars, modeVars, arm7Vars
    <3>4. QED
      BY <1>8, <3>1, <3>2, <3>3
  <2>3. ASSUME NEW n \in Mac PROVE LinkOK(n)'
    BY <1>2, <2>1, <2>2
  <2>4. QED
    BY <2>3 DEF LinkInv
<1>9. QED
  BY <1>3, <1>4, <1>5, <1>6, <1>7, <1>8 DEF SessionNext, Host

(* When no frame is on its way between the host and a console that listens  *)
(* and has missed none, both think the same: it is a client with the AID    *)
(* the host keeps for it, or it is none.  The WiFi interrupt is assumed not *)
(* to interrupt Wifi_NTR_Update, as in the run.                             *)
THEOREM SessionAgreement == NestedIrq = FALSE /\ SessionSpec => []Agreement
<1> SUFFICES ASSUME NestedIrq = FALSE PROVE SessionSpec => []Agreement
  OBVIOUS
<1>1. SessionInit => LinkInv
  <2>1. SUFFICES ASSUME SessionInit, NEW m \in Mac PROVE LinkOK(m)
    BY DEF LinkInv
  <2>2. ~ station[m].hears /\ toStation[m] = <<>>
    BY <2>1 DEF SessionInit
  <2>3. QED
    BY <2>2 DEF LinkOK, RequestOK, AnswerOK, ClosedOK, Partner
<1>2. (HostInv /\ SessionOK) /\ LinkInv /\ [SessionNext]_sessionVars => LinkInv'
  BY LinkStep
<1>3. (HostInv /\ SessionOK) /\ LinkInv => Agreement
  <2>1. SUFFICES ASSUME SessionOK, LinkInv, NEW m \in Mac, Quiet(m), m \notin apart,
                        station[m].hears, station[m].authlevel # "error"
                 PROVE  told[m] = IF station[m].authlevel = "associated" THEN station[m].curClientAID ELSE 0
    BY DEF Agreement, SessionOK
  <2>2. Partner(m) /\ toHost[m] = <<>> /\ toStation[m] = <<>> /\ RequestOK(m)
    BY <2>1 DEF Partner, Quiet, LinkInv, LinkOK
  <2>3. ~ \E i \in DOMAIN toStation[m] : toStation[m][i].kind = "deauth"
    <3>1. DOMAIN toStation[m] = {}
      BY <2>2
    <3>2. QED
      BY <3>1
  <2>4. QED
    BY <2>2, <2>3 DEF RequestOK
<1>4. QED
  BY <1>1, <1>2, <1>3, SessionInvariant, PTL DEF SessionSpec

=============================================================================
