-------------------------- MODULE TwlStationProofs --------------------------
(***************************************************************************)
(* Proofs about TwlStation, for every set of access points, any number of  *)
(* channels, calls and faults, and however deep the calculations of the    *)
(* PMK are nested: once nothing is on its way between the ARM7 and the     *)
(* card, WMI's flags, the mode and the keys agree with the card.           *)
(***************************************************************************)
EXTENDS TwlStation, TLAPS

-----------------------------------------------------------------------------
(* The inductive invariant *)

Events == [k : {"regdomain", "connect", "disconnect", "error", "m1", "m3", "group"},
           ap : Ap \cup {NoAp}, live : BOOLEAN]
Commands == [k : {"connect", "disconnect", "m2", "m4", "key"},
             ap : Ap \cup {NoAp}, live : BOOLEAN, ok : BOOLEAN]
Calc == [block : 1 .. 2, pass : Ap \cup {NoAp}, ssid : Ap \cup {NoAp}]

QueuesOK ==
  /\ evq \in Seq(Events)
  /\ cmdq \in Seq(Commands)
  /\ calc \in Seq(Calc)
  /\ \A b \in {ap_connected, ptk, keyed, irq} : b \in BOOLEAN

(* The last event, or command, in a queue that is about a connection        *)
About(q, i) == q[i].k \in {"connect", "disconnect"}
LastAbout(q, i) == i \in DOMAIN q /\ About(q, i) /\ \A j \in DOMAIN q : j > i => ~ About(q, j)
NoneAbout(q) == \A i \in DOMAIN q : ~ About(q, i)

(* What WMI knows of the card, or will know when it has handled the events, *)
(* is what the card does.                                                   *)
ConnectionInv ==
  /\ trying # NoAp => link = NoAp
  /\ \A i \in DOMAIN evq : LastAbout(evq, i) => (evq[i].k = "connect" <=> link # NoAp)
  /\ NoneAbout(evq) => (ap_connected <=> link # NoAp)

(* In a mode without a connection the card has none and tries none, or has  *)
(* been told to end it.                                                     *)
Linked == {"connecting", "connected"}
ModeInv ==
  curMode \notin Linked =>
    /\ \A i \in DOMAIN cmdq : LastAbout(cmdq, i) => cmdq[i].k = "disconnect"
    /\ NoneAbout(cmdq) => link = NoAp /\ trying = NoAp

(* Messages of the handshake, and those of the connection the card has      *)
Live(q, i) == q[i].k \in Handshake /\ q[i].live
Stale(q, i) == q[i].k \in Handshake /\ ~ q[i].live
StaleFirst(q) == \A i, j \in DOMAIN q : Live(q, i) /\ Stale(q, j) => j < i
AllStale(q) == \A i \in DOMAIN q : ~ Live(q, i)
NoneStale(q) == \A i \in DOMAIN q : ~ Stale(q, i)

(* Messages of earlier connections come first; they are handled, and their  *)
(* answers are away, before the ones of this connection are.                *)
OrderInv ==
  /\ StaleFirst(evq) /\ StaleFirst(cmdq)
  /\ told # "none" \/ ptk \/ ~ AllStale(cmdq) => NoneStale(evq)
  /\ told = "done" => NoneStale(cmdq)
  /\ link = NoAp => /\ told = "none" /\ ~ ptk
                    /\ AllStale(evq) /\ AllStale(cmdq)

(* One message of the access point, or an answer to it, is on its way.      *)
Asks(q, i) == q[i].k \in {"m1", "m3"} /\ q[i].live
Answers(q, i) == q[i].k \in {"m2", "m4"} /\ q[i].live
TurnInv ==
  /\ \A i, j \in DOMAIN evq : Asks(evq, i) /\ Asks(evq, j) => i = j
  /\ \A i \in DOMAIN evq, j \in DOMAIN cmdq : ~ (Asks(evq, i) /\ Answers(cmdq, j))

(* The PTK is right from the moment the access point accepts message 2, and *)
(* the keys are made from it.                                               *)
KeyInv ==
  /\ told \in {"sent3", "done"} => ptk
  /\ \A i \in DOMAIN evq : evq[i].live =>
       /\ evq[i].k = "m1" => told \in {"none", "refused"}
       /\ evq[i].k = "m3" => ptk
       /\ evq[i].k = "group" => told = "done"
  /\ \A i \in DOMAIN cmdq : cmdq[i].live =>
       /\ cmdq[i].k = "m2" => (cmdq[i].ok => ptk)
       /\ cmdq[i].k = "m4" => ptk
       /\ cmdq[i].k = "key" => cmdq[i].ok

(* Unless the ARM7 has not seen the end of an earlier request, the last     *)
(* command to connect is for the access point in curAp, and so is what the  *)
(* card does once it has had all commands.                                  *)
Sound == curMode \in Linked /\ ~ unseen /\ NoneAbout(cmdq)

ApInv ==
  /\ curMode \in Linked /\ ~ unseen =>
       \A i \in DOMAIN cmdq : LastAbout(cmdq, i) /\ cmdq[i].k = "connect" => cmdq[i].ap = curAp
  /\ Sound => /\ link # NoAp => link = curAp
              /\ trying # NoAp => trying = curAp

(* Only an access point with WPA2 sends messages of the handshake.          *)
WpaInv == \A i \in DOMAIN evq : Live(evq, i) => link \in Wpa2

(* In that case message 4 is followed by the keys: they are in the card, or *)
(* on their way to it, when the access point thinks that it is over.        *)
Follows(q, i) == \E j \in DOMAIN q : j > i /\ q[j].k = "key" /\ q[j].live
LoadInv ==
  Sound =>
    /\ \A i \in DOMAIN cmdq : cmdq[i].k = "m4" /\ cmdq[i].live => Follows(cmdq, i)
    /\ told = "done" => keyed \/ \E i \in DOMAIN cmdq : cmdq[i].k = "key" /\ cmdq[i].live

TypeInv == TypeOK /\ QueuesOK
CardInv == ConnectionInv /\ ModeInv /\ OrderInv /\ TurnInv /\ KeyInv
AskedInv == ApInv /\ WpaInv /\ LoadInv
TwlInv == TypeInv /\ CardInv /\ AskedInv

-----------------------------------------------------------------------------
(* Queues *)

(* Where a message is after the first one has left its queue.               *)
LEMMA TailFacts ==
  ASSUME NEW S, NEW q \in Seq(S), q # <<>>
  PROVE  /\ Head(q) \in S /\ Head(q) = q[1] /\ 1 \in DOMAIN q
         /\ Tail(q) \in Seq(S)
         /\ \A i \in DOMAIN q : i \in Nat /\ i >= 1
         /\ \A i \in DOMAIN Tail(q) : i \in Nat /\ i >= 1 /\ i + 1 \in DOMAIN q /\ Tail(q)[i] = q[i + 1]
         /\ \A i \in DOMAIN q : i # 1 => i - 1 \in DOMAIN Tail(q) /\ Tail(q)[i - 1] = q[i]
  OBVIOUS

(* Where it is after another one was queued.                                *)
LEMMA AppendFacts ==
  ASSUME NEW S, NEW q \in Seq(S), NEW x \in S
  PROVE  /\ Append(q, x) \in Seq(S)
         /\ \A i \in DOMAIN q : i \in Nat /\ i >= 1 /\ i < Len(q) + 1
         /\ \A i \in DOMAIN q : i \in DOMAIN Append(q, x) /\ Append(q, x)[i] = q[i]
         /\ Len(q) + 1 \in DOMAIN Append(q, x) /\ Append(q, x)[Len(q) + 1] = x
         /\ \A i \in DOMAIN Append(q, x) : i \in DOMAIN q \/ i = Len(q) + 1
  OBVIOUS

(* What the loss of the connection does to a queue *)
LEMMA DeadFacts ==
  ASSUME NEW q
  PROVE  /\ DOMAIN Dead(q) = DOMAIN q
         /\ \A i \in DOMAIN q : Dead(q)[i] = IF q[i].k \in Handshake
                                             THEN [q[i] EXCEPT !.live = FALSE] ELSE q[i]
  BY DEF Dead

(* It keeps the kinds and leaves nothing alive.                             *)
LEMMA DeadMessages ==
  ASSUME NEW S \in {Events, Commands}, NEW q \in Seq(S)
  PROVE  /\ Dead(q) \in Seq(S)
         /\ DOMAIN Dead(q) = DOMAIN q
         /\ \A i \in DOMAIN q : Dead(q)[i].k = q[i].k /\ (q[i].k \in Handshake => ~ Dead(q)[i].live)
<1>1. ASSUME NEW i \in DOMAIN q
      PROVE  Dead(q)[i] \in S /\ Dead(q)[i].k = q[i].k
             /\ (q[i].k \in Handshake => ~ Dead(q)[i].live)
  <2>1. q[i] \in S
    OBVIOUS
  <2>2. Dead(q)[i] = IF q[i].k \in Handshake THEN [q[i] EXCEPT !.live = FALSE] ELSE q[i]
    BY DeadFacts
  <2>3. CASE S = Events
    BY <2>1, <2>2, <2>3 DEF Events
  <2>4. CASE S = Commands
    BY <2>1, <2>2, <2>4 DEF Commands
  <2>5. QED
    BY <2>3, <2>4
<1>2. Dead(q) = [i \in 1 .. Len(q) |-> Dead(q)[i]] /\ DOMAIN q = 1 .. Len(q) /\ Len(q) \in Nat
  BY DEF Dead
<1>3. Dead(q) \in [1 .. Len(q) -> S]
  BY <1>1, <1>2
<1>4. QED
  BY <1>1, <1>2, <1>3, DeadFacts

(* What is said of the last message about a connection, and of the order,   *)
(* after the first message has left                                         *)
LEMMA TailKeeps ==
  ASSUME NEW S, NEW q \in Seq(S), q # <<>>
  PROVE  /\ \A i \in DOMAIN Tail(q) : LastAbout(Tail(q), i) => LastAbout(q, i + 1)
         /\ NoneAbout(Tail(q)) => IF About(q, 1) THEN LastAbout(q, 1) ELSE NoneAbout(q)
         /\ StaleFirst(q) => StaleFirst(Tail(q))
         /\ AllStale(q) => AllStale(Tail(q))
         /\ NoneStale(q) => NoneStale(Tail(q))
         /\ StaleFirst(q) /\ Live(q, 1) => NoneStale(q)
<1> DEFINE t == Tail(q)
<1>1. /\ 1 \in DOMAIN q
      /\ \A i \in DOMAIN q : i \in Nat /\ i >= 1
      /\ \A i \in DOMAIN t : i \in Nat /\ i >= 1 /\ i + 1 \in DOMAIN q /\ t[i] = q[i + 1]
      /\ \A i \in DOMAIN q : i # 1 => i - 1 \in DOMAIN t /\ t[i - 1] = q[i]
  BY TailFacts
<1> HIDE DEF t
<1>2. ASSUME NEW i \in DOMAIN t, LastAbout(t, i) PROVE LastAbout(q, i + 1)
  <2>1. i + 1 \in DOMAIN q /\ About(q, i + 1)
    BY <1>1, <1>2 DEF LastAbout, About
  <2>2. ASSUME NEW j \in DOMAIN q, j > i + 1 PROVE ~ About(q, j)
    <3>1. j # 1 /\ j - 1 \in DOMAIN t /\ t[j - 1] = q[j] /\ j - 1 > i
      BY <1>1, <2>2
    <3>2. QED
      BY <3>1, <1>2 DEF LastAbout, About
  <2>3. QED
    BY <2>1, <2>2 DEF LastAbout
<1>3. ASSUME NoneAbout(t) PROVE IF About(q, 1) THEN LastAbout(q, 1) ELSE NoneAbout(q)
  <2>1. \A j \in DOMAIN q : j # 1 => ~ About(q, j)
    BY <1>1, <1>3 DEF NoneAbout, About
  <2>2. QED
    BY <2>1, <1>1 DEF NoneAbout, LastAbout
<1>4. ASSUME StaleFirst(q) PROVE StaleFirst(t)
  <2>1. ASSUME NEW i \in DOMAIN t, NEW j \in DOMAIN t, Live(t, i), Stale(t, j) PROVE j < i
    <3>1. Live(q, i + 1) /\ Stale(q, j + 1) /\ i + 1 \in DOMAIN q /\ j + 1 \in DOMAIN q
      BY <2>1, <1>1 DEF Live, Stale
    <3>2. j + 1 < i + 1
      BY <3>1, <1>4 DEF StaleFirst
    <3>3. QED
      BY <3>2, <1>1
  <2>2. QED
    BY <2>1 DEF StaleFirst
<1>5. /\ AllStale(q) => AllStale(t)
      /\ NoneStale(q) => NoneStale(t)
  BY <1>1 DEF AllStale, NoneStale, Live, Stale
<1>6. ASSUME StaleFirst(q), Live(q, 1) PROVE NoneStale(q)
  <2>1. ASSUME NEW j \in DOMAIN q, Stale(q, j) PROVE FALSE
    <3>1. j < 1
      BY <2>1, <1>6, <1>1 DEF StaleFirst
    <3>2. QED
      BY <3>1, <1>1
  <2>2. QED
    BY <2>1 DEF NoneStale
<1>7. QED
  BY <1>2, <1>3, <1>4, <1>5, <1>6 DEF t

(* The same after another message was queued.  A message of an earlier      *)
(* connection may only be queued when none of this one is there.            *)
LEMMA AppendKeeps ==
  ASSUME NEW S, NEW q \in Seq(S), NEW x \in S
  PROVE  /\ x.k \in {"connect", "disconnect"} =>
              ~ NoneAbout(Append(q, x)) /\ \A i : LastAbout(Append(q, x), i) => Append(q, x)[i] = x
         /\ x.k \notin {"connect", "disconnect"} =>
              /\ NoneAbout(Append(q, x)) => NoneAbout(q)
              /\ \A i \in DOMAIN Append(q, x) :
                   LastAbout(Append(q, x), i) => LastAbout(q, i) /\ Append(q, x)[i] = q[i]
         /\ x.k \in Handshake /\ x.live => (StaleFirst(q) => StaleFirst(Append(q, x)))
         /\ x.k \in Handshake /\ ~ x.live => (StaleFirst(q) /\ AllStale(q) => StaleFirst(Append(q, x)))
         /\ x.k \notin Handshake => (StaleFirst(q) => StaleFirst(Append(q, x)))
         /\ ~ (x.k \in Handshake /\ x.live) => (AllStale(q) => AllStale(Append(q, x)))
         /\ ~ (x.k \in Handshake /\ ~ x.live) => (NoneStale(q) => NoneStale(Append(q, x)))
<1> DEFINE n == Len(q) + 1
           r == Append(q, x)
<1>1. /\ \A i \in DOMAIN q : i \in Nat /\ i < n
      /\ \A i \in DOMAIN q : i \in DOMAIN r /\ r[i] = q[i]
      /\ n \in DOMAIN r /\ r[n] = x /\ n \in Nat
      /\ \A i \in DOMAIN r : i \in DOMAIN q \/ i = n
  BY AppendFacts
<1> HIDE DEF n, r
<1>2. ASSUME x.k \in {"connect", "disconnect"}
      PROVE  ~ NoneAbout(r) /\ \A i : LastAbout(r, i) => r[i] = x
  <2>1. About(r, n)
    BY <1>1, <1>2 DEF About
  <2>2. QED
    BY <1>1, <2>1 DEF NoneAbout, LastAbout
<1>3. ASSUME x.k \notin {"connect", "disconnect"}
      PROVE  /\ NoneAbout(r) => NoneAbout(q)
             /\ \A i \in DOMAIN r : LastAbout(r, i) => LastAbout(q, i) /\ r[i] = q[i]
  <2>1. ~ About(r, n)
    BY <1>1, <1>3 DEF About
  <2>2. \A i \in DOMAIN q : About(r, i) <=> About(q, i)
    BY <1>1 DEF About
  <2>3. QED
    BY <1>1, <2>1, <2>2 DEF NoneAbout, LastAbout
<1>4. \A i \in DOMAIN q : (Live(r, i) <=> Live(q, i)) /\ (Stale(r, i) <=> Stale(q, i))
  BY <1>1 DEF Live, Stale
<1>5. (Live(r, n) <=> x.k \in Handshake /\ x.live) /\ (Stale(r, n) <=> x.k \in Handshake /\ ~ x.live)
  BY <1>1 DEF Live, Stale
<1>6. /\ ~ Stale(r, n) => (StaleFirst(q) => StaleFirst(r))
      /\ Stale(r, n) => (StaleFirst(q) /\ AllStale(q) => StaleFirst(r))
  <2>1. ASSUME StaleFirst(q), Stale(r, n) => AllStale(q),
               NEW i \in DOMAIN r, NEW j \in DOMAIN r, Live(r, i), Stale(r, j)
        PROVE  j < i
    <3>1. j \in DOMAIN q
      BY <1>1, <1>4, <1>5, <2>1 DEF AllStale
    <3>2. QED
      BY <3>1, <1>1, <1>4, <2>1 DEF StaleFirst
  <2>2. QED
    BY <2>1 DEF StaleFirst
<1>7. /\ ~ Live(r, n) => (AllStale(q) => AllStale(r))
      /\ ~ Stale(r, n) => (NoneStale(q) => NoneStale(r))
  BY <1>1, <1>4 DEF AllStale, NoneStale
<1>8. QED
  BY <1>2, <1>3, <1>5, <1>6, <1>7 DEF r

(* All messages of a lost connection are of an earlier one.                 *)
LEMMA DeadKeeps ==
  ASSUME NEW S \in {Events, Commands}, NEW q \in Seq(S)
  PROVE  /\ NoneAbout(Dead(q)) <=> NoneAbout(q)
         /\ \A i \in DOMAIN Dead(q) :
              LastAbout(Dead(q), i) => LastAbout(q, i) /\ Dead(q)[i].k = q[i].k
         /\ StaleFirst(Dead(q)) /\ AllStale(Dead(q))
<1>1. AllStale(Dead(q))
  BY DeadMessages DEF AllStale, Live
<1>2. QED
  BY <1>1, DeadMessages DEF NoneAbout, LastAbout, About, StaleFirst, AllStale

-----------------------------------------------------------------------------
(* Types *)

(* A call of wpa_calc_pmk, when it goes on to its second block              *)
LEMMA CalcTypes ==
  /\ \A q \in Seq(Calc) : \A i \in DOMAIN q : q[i].block \in 1 .. 2
  /\ \A c \in Calc, ap \in Ap \cup {NoAp} : [c EXCEPT !.block = 2, !.ssid = ap] \in Calc
<1>1. \A c \in Calc : c.block \in 1 .. 2
  BY DEF Calc
<1>2. \A q \in Seq(Calc) : \A i \in DOMAIN q : q[i].block \in 1 .. 2
  <2>1. \A q \in Seq(Calc) : \A i \in DOMAIN q : q[i] \in Calc
    OBVIOUS
  <2>2. QED
    BY <1>1, <2>1
<1>3. ASSUME NEW c \in Calc, NEW ap \in Ap \cup {NoAp}
      PROVE  [c EXCEPT !.block = 2, !.ssid = ap] \in Calc
  <2>1. [c EXCEPT !.block = 2] \in Calc
    BY DEF Calc
  <2>2. PICK d \in Calc : d = [c EXCEPT !.block = 2]
    BY <2>1
  <2>3. [d EXCEPT !.ssid = ap] \in Calc
    BY DEF Calc
  <2>4. QED
    BY <2>2, <2>3
<1>4. QED
  BY <1>2, <1>3

(* Wifi_TWL_Update changes modes and sends commands.                        *)
LEMMA UpdateTypes ==
  ASSUME TypeInv, Wifi_TWL_Update
  PROVE  TypeInv'
<1> USE DEF TypeInv, TypeOK, QueuesOK, Modes
<1>1. CASE Start
  <2>1. Event("regdomain", NoAp) \in Events
    BY DEF Event, Events
  <2>2. <<Event("regdomain", NoAp)>> \in Seq(Events) /\ <<>> \in Seq(Commands)
    BY <2>1
  <2>3. mhz' \in 0 .. NumChannels
    BY <1>1, TwlAssumption DEF Start
  <2>4. QED
    BY <1>1, <2>2, <2>3 DEF Start, arm9Vars, shared
<1>2. CASE Initialized \/ Stop \/ StopScan \/ NoWfcKey \/ ConnectionMade \/ BackToNormal
  BY <1>2 DEF Initialized, Stop, StopScan, NoWfcKey, ConnectionMade, BackToNormal,
              arm9Vars, shared, scanVars, linkVars, cardVars
<1>3. CASE StartScan
  BY <1>3 DEF StartScan, arm9Vars, shared, scanVars, linkVars, cardVars
<1>4. CASE ScanTick
  <2>1. NextIndex \in 0 .. NumChannels /\ channel_freqs(device_cur_channel_idx) \in 0 .. NumChannels
    BY TwlAssumption DEF NextIndex, channel_freqs
  <2>2. aplist' \subseteq Ap
    BY <1>4 DEF ScanTick
  <2>3. QED
    BY <1>4, <2>1, <2>2 DEF ScanTick, arm9Vars, shared, linkVars, cardVars
<1>5. ASSUME Connectable
      PROVE  pmk' \in (Ap \cup {NoAp, BadKey}) \X (Ap \cup {NoAp, BadKey})
  BY <1>5 DEF Connectable, loaded, PmkOf, NoPmk
<1>6. CASE ConnectAgain
  BY <1>5, <1>6 DEF ConnectAgain, arm9Vars, shared, scanVars, linkVars, cardVars
<1>7. Command("connect", curAp, TRUE) \in Commands /\ Command("disconnect", NoAp, TRUE) \in Commands
  BY DEF Command, Commands
<1>8. /\ SendConnect => cmdq' \in Seq(Commands)
      /\ wmi_disconnect_cmd => cmdq' \in Seq(Commands)
  <2>1. CASE SendConnect
    BY <1>7, <2>1, AppendFacts DEF SendConnect
  <2>2. CASE wmi_disconnect_cmd
    BY <1>7, <2>2, AppendFacts DEF wmi_disconnect_cmd
  <2>3. QED
    BY <2>1, <2>2
<1>9. CASE Connect
  BY <1>5, <1>8, <1>9 DEF Connect, arm9Vars, shared, scanVars, cardVars
<1>10. CASE ConnectCalculates
  <2>1. [block |-> 1, pass |-> pass, ssid |-> curAp] \in Calc
    BY DEF Calc
  <2>2. calc' \in Seq(Calc)
    BY <1>10, <2>1, AppendFacts DEF ConnectCalculates
  <2>3. \A i \in DOMAIN calc' : calc'[i].block \in 1 .. 2
    BY <2>2, CalcTypes
  <2>4. QED
    BY <1>5, <1>10, <2>2, <2>3 DEF ConnectCalculates, arm9Vars, shared, scanVars, cardVars
<1>11. CASE ConnectionFails \/ StopConnecting \/ ConnectionLost \/ Disconnect
  BY <1>8, <1>11 DEF ConnectionFails, StopConnecting, ConnectionLost, Disconnect,
                     arm9Vars, shared, scanVars, cardVars
<1>12. QED
  BY <1>1, <1>2, <1>3, <1>4, <1>6, <1>9, <1>10, <1>11 DEF Wifi_TWL_Update

(* The blocks of the PMK are keys, or halves of one.                        *)
LEMMA CalculateTypes ==
  ASSUME TypeInv, Calculate
  PROVE  TypeInv'
<1> USE DEF TypeInv, TypeOK, QueuesOK
<1> DEFINE n == Len(calc)
           c == calc[n]
<1>1. calc # <<>> /\ calc \in Seq(Calc)
  BY DEF Calculate, PmkFirstBlock, PmkReady
<1>2. c \in Calc /\ n \in DOMAIN calc
  BY <1>1
<1>3. Block(c) \in Ap \cup {NoAp, BadKey}
  BY <1>2 DEF Block, Calc
<1> DEFINE Keys == Ap \cup {NoAp, BadKey}
<1>10. ASSUME NEW x \in Keys
       PROVE  [pmk EXCEPT ![1] = x] \in Keys \X Keys /\ [pmk EXCEPT ![2] = x] \in Keys \X Keys
  <2>1. PICK a \in Keys, b \in Keys : pmk = <<a, b>>
    OBVIOUS
  <2>2. [pmk EXCEPT ![1] = x] = <<x, b>> /\ [pmk EXCEPT ![2] = x] = <<a, x>>
    BY <2>1
  <2>3. QED
    BY <2>2
<1>4. CASE PmkFirstBlock
  <2>1. [c EXCEPT !.block = 2, !.ssid = curAp] \in Calc
    <3>1. curAp \in Ap \cup {NoAp}
      OBVIOUS
    <3> HIDE DEF c
    <3>2. QED
      BY <1>2, <3>1, CalcTypes
  <2>2. calc' = [calc EXCEPT ![n] = [c EXCEPT !.block = 2, !.ssid = curAp]]
    BY <1>4 DEF PmkFirstBlock
  <2>3. calc' \in Seq(Calc)
    BY <1>1, <1>2, <2>1, <2>2
  <2>4. \A i \in DOMAIN calc' : calc'[i].block \in 1 .. 2
    BY <2>3, CalcTypes
  <2>5. pmk' = [pmk EXCEPT ![1] = Block(c)]
    BY <1>4 DEF PmkFirstBlock
  <2>6. pmk' \in Keys \X Keys
    BY <1>3, <1>10, <2>5
  <2>7. QED
    BY <1>4, <2>3, <2>4, <2>6 DEF PmkFirstBlock, arm9Vars, shared, scanVars, linkVars, cardVars
<1>5. CASE PmkReady
  <2>1. calc' \in Seq(Calc)
    BY <1>1, <1>5 DEF PmkReady
  <2>2. pmk' \in Keys \X Keys
    <3>1. pmk' = [pmk EXCEPT ![2] = Block(c)]
      BY <1>5 DEF PmkReady
    <3>2. QED
      BY <1>3, <1>10, <3>1
  <2>6. \A i \in DOMAIN calc' : calc'[i].block \in 1 .. 2
    BY <2>1, CalcTypes
  <2>3. Command("connect", curAp, TRUE) \in Commands
    BY DEF Command, Commands
  <2>4. cmdq' \in Seq(Commands)
    BY <1>5, <2>3, AppendFacts DEF PmkReady, SendConnect
  <2>5. QED
    BY <1>5, <2>1, <2>2, <2>4, <2>6 DEF PmkReady, Modes, arm9Vars, shared, scanVars, cardVars
<1>6. QED
  BY <1>4, <1>5 DEF Calculate

(* What wmi_post_handshake does to the commands                             *)
LEMMA KeyQueued ==
  ASSUME TypeInv, evq # <<>>, NEW q \in Seq(Commands), cmdq' = q \o PostHandshake
  PROVE  /\ cmdq' \in Seq(Commands)
         /\ \A i \in DOMAIN q : i \in DOMAIN cmdq' /\ cmdq'[i] = q[i] /\ i \in Nat /\ i <= Len(q)
         /\ \A i \in DOMAIN cmdq' : i \in DOMAIN q
              \/ (cmdq'[i].k = "key" /\ cmdq'[i].live = e.live /\ cmdq'[i].ok = ptk)
         /\ curAp \in Wpa2 =>
              \E j \in DOMAIN cmdq' : j > Len(q) /\ cmdq'[j].k = "key" /\ cmdq'[j].live = e.live
         /\ StaleFirst(q) /\ (e.live \/ AllStale(q)) => StaleFirst(cmdq')
         /\ e.live /\ NoneStale(q) => NoneStale(cmdq')
         /\ ~ e.live /\ AllStale(q) => AllStale(cmdq')
         /\ NoneAbout(cmdq') => NoneAbout(q)
         /\ \A i \in DOMAIN cmdq' : LastAbout(cmdq', i) => LastAbout(q, i) /\ cmdq'[i] = q[i]
<1> DEFINE y == [Command("key", e.ap, ptk) EXCEPT !.live = e.live]
<1>1. \A i \in DOMAIN q : i \in Nat /\ i <= Len(q)
  OBVIOUS
<1>2. CASE curAp \notin Wpa2
  <2>1. cmdq' = q
    BY <1>2 DEF PostHandshake
  <2>2. QED
    BY <1>1, <1>2, <2>1
<1>3. CASE curAp \in Wpa2
  <2>1. cmdq' = Append(q, y)
    BY <1>3 DEF PostHandshake
  <2>2. e \in Events
    BY TailFacts DEF e, TypeInv, QueuesOK
  <2>3. y \in Commands /\ y.k = "key" /\ y.live = e.live /\ y.ok = ptk
    <3>1. ptk \in BOOLEAN /\ e.live \in BOOLEAN /\ e.ap \in Ap \cup {NoAp}
      BY <2>2 DEF Events, TypeInv, QueuesOK
    <3>2. QED
      BY <3>1 DEF Command, Commands
  <2> HIDE DEF y
  <2>4. /\ cmdq' \in Seq(Commands)
        /\ \A i \in DOMAIN q : i \in DOMAIN cmdq' /\ cmdq'[i] = q[i]
        /\ Len(q) + 1 \in DOMAIN cmdq' /\ cmdq'[Len(q) + 1] = y /\ Len(q) \in Nat
        /\ \A i \in DOMAIN cmdq' : i \in DOMAIN q \/ i = Len(q) + 1
    BY <2>1, <2>3, AppendFacts
  <2>5. y.k \in Handshake /\ y.k \notin {"connect", "disconnect"}
    BY <2>3 DEF Handshake
  <2>6. /\ StaleFirst(q) /\ (e.live \/ AllStale(q)) => StaleFirst(cmdq')
        /\ e.live /\ NoneStale(q) => NoneStale(cmdq')
        /\ ~ e.live /\ AllStale(q) => AllStale(cmdq')
    BY <2>1, <2>3, <2>5, AppendKeeps
  <2>7. /\ NoneAbout(cmdq') => NoneAbout(q)
        /\ \A i \in DOMAIN cmdq' : LastAbout(cmdq', i) => LastAbout(q, i) /\ cmdq'[i] = q[i]
    BY <2>1, <2>3, <2>5, AppendKeeps
  <2>8. Len(q) + 1 > Len(q)
    BY <2>4
  <2>9. QED
    BY <1>1, <2>3, <2>4, <2>6, <2>7, <2>8
<1>4. QED
  BY <1>2, <1>3

(* Handlers of events answer with commands.                                 *)
LEMMA InterruptTypes ==
  ASSUME TypeInv, CardInterrupt
  PROVE  TypeInv'
<1> USE DEF TypeInv, TypeOK, QueuesOK
<1>1. evq # <<>> /\ evq' = Tail(evq)
  BY DEF CardInterrupt, OnRegDomain, OnConnect, OnDisconnect, OnTargetError, OnMessage1,
         OnMessage3, OnGroupMessage, Take
<1>2. evq' \in Seq(Events) /\ e \in Events
  BY <1>1, TailFacts DEF e
<1>3. CASE OnRegDomain \/ OnConnect \/ OnDisconnect
  BY <1>2, <1>3 DEF OnRegDomain, OnConnect, OnDisconnect, arm9Vars, shared, scanVars, linkVars, cardVars
<1>4. ASSUME NEW k \in {"disconnect", "m2", "m4", "key"}, NEW ap \in Ap \cup {NoAp}, NEW live \in BOOLEAN,
             NEW ok \in BOOLEAN
      PROVE  [Command(k, ap, ok) EXCEPT !.live = live] \in Commands /\ Command(k, ap, ok) \in Commands
  BY DEF Command, Commands
<1>5. e.ap \in Ap \cup {NoAp} /\ e.live \in BOOLEAN
  BY <1>2 DEF Events
<1>6. CASE OnTargetError
  <2>1. cmdq' \in Seq(Commands)
    BY <1>4, <1>6, AppendFacts DEF OnTargetError, wmi_disconnect_cmd
  <2>2. QED
    BY <1>2, <1>6, <2>1 DEF OnTargetError, arm9Vars, shared, scanVars, cardVars
<1>7. CASE OnMessage1
  <2>1. (pmk = PmkOf(e.ap)) \in BOOLEAN
    OBVIOUS
  <2>2. [Command("m2", e.ap, pmk = PmkOf(e.ap)) EXCEPT !.live = e.live] \in Commands
    BY <1>4, <1>5, <2>1
  <2>3. cmdq' \in Seq(Commands)
    BY <1>7, <2>2, AppendFacts DEF OnMessage1
  <2>4. ptk' \in BOOLEAN
    BY <1>7 DEF OnMessage1
  <2>5. QED
    BY <1>2, <1>7, <2>3, <2>4 DEF OnMessage1, arm9Vars, shared, scanVars, cardVars
<1>8. CASE OnMessage3
  <2>1. [Command("m4", e.ap, TRUE) EXCEPT !.live = e.live] \in Commands
    BY <1>4, <1>5
  <2>2. Append(cmdq, [Command("m4", e.ap, TRUE) EXCEPT !.live = e.live]) \in Seq(Commands)
    BY <2>1, AppendFacts
  <2>3. cmdq' \in Seq(Commands)
    BY <1>1, <1>8, <2>2, KeyQueued DEF OnMessage3
  <2>4. QED
    BY <1>2, <1>8, <2>3 DEF OnMessage3, arm9Vars, shared, scanVars, cardVars
<1>9. CASE OnGroupMessage
  <2>1. cmdq' \in Seq(Commands)
    BY <1>1, <1>9, KeyQueued DEF OnGroupMessage
  <2>2. QED
    BY <1>2, <1>9, <2>1 DEF OnGroupMessage, arm9Vars, shared, scanVars, cardVars
<1>10. QED
  BY <1>3, <1>6, <1>7, <1>8, <1>9 DEF CardInterrupt

(* The queues after the connection has ended                                *)
LEMMA LinkEndsTypes ==
  ASSUME TypeInv, NEW commands \in Seq(Commands), LinkEnds(commands)
  PROVE  /\ evq' \in Seq(Events) /\ cmdq' \in Seq(Commands)
         /\ link' = NoAp /\ told' = "none" /\ ~ keyed' /\ ~ ptk'
         /\ keyed' \in BOOLEAN /\ ptk' \in BOOLEAN
<1>1. Event("disconnect", NoAp) \in Events
  BY DEF Event, Events
<1>2. Dead(commands) \in Seq(Commands) /\ Dead(evq) \in Seq(Events)
  BY DeadMessages DEF TypeInv, QueuesOK
<1>3. evq' \in Seq(Events)
  BY <1>1, <1>2, AppendFacts DEF LinkEnds
<1>4. QED
  BY <1>2, <1>3 DEF LinkEnds

(* The card takes commands and reports the end of a connection.             *)
LEMMA CardTypes ==
  ASSUME TypeInv, Card
  PROVE  TypeInv'
<1> USE DEF TypeInv, TypeOK, QueuesOK
<1>1. cmdq # <<>>
  BY DEF Card, CardConnect, CardDisconnect, CardKey, CardSends, Serve
<1>2. Tail(cmdq) \in Seq(Commands) /\ cc \in Commands
  BY <1>1, TailFacts DEF cc
<1>3. cc.ap \in Ap \cup {NoAp} /\ cc.live \in BOOLEAN /\ cc.ok \in BOOLEAN
  BY <1>2 DEF Commands
<1>4. CASE CardConnect
  <2>1. CASE link # NoAp
    <3>1. LinkEnds(Tail(cmdq)) /\ trying' = cc.ap /\ UNCHANGED <<cardRest, inputs>>
      BY <1>4, <2>1 DEF CardConnect
    <3>2. QED
      BY <1>2, <1>3, <3>1, LinkEndsTypes DEF cardRest, arm9Vars, shared, scanVars
  <2>2. CASE link = NoAp
    BY <1>2, <1>3, <1>4, <2>2 DEF CardConnect, cardRest, arm9Vars, shared, scanVars
  <2>3. QED
    BY <2>1, <2>2
<1>5. CASE CardDisconnect
  <2>1. CASE link # NoAp \/ trying # NoAp
    <3>1. LinkEnds(Tail(cmdq)) /\ trying' = NoAp /\ UNCHANGED <<cardRest, inputs>>
      BY <1>5, <2>1 DEF CardDisconnect
    <3>2. QED
      BY <1>2, <3>1, LinkEndsTypes DEF cardRest, arm9Vars, shared, scanVars
  <2>2. CASE ~ (link # NoAp \/ trying # NoAp)
    BY <1>2, <1>5, <2>2 DEF CardDisconnect, cardRest, arm9Vars, shared, scanVars
  <2>3. QED
    BY <2>1, <2>2
<1>6. CASE CardKey
  <2>1. keyed' \in BOOLEAN
    BY <1>6 DEF CardKey
  <2>2. QED
    BY <1>2, <1>6, <2>1 DEF CardKey, Serve, cardRest, arm9Vars, shared, scanVars
<1>7. CASE CardSends
  <2>1. cmdq' = Tail(cmdq)
    BY <1>7 DEF CardSends, Serve
  <2>2. told' \in {"none", "refused", "sent3", "done"} /\ inputs' \in 0 .. MaxInputs
    <3>1. cc.k = "m2" \/ cc.k = "m4"
      BY <1>7 DEF CardSends, Serve
    <3>2. QED
      BY <1>7, <3>1, TwlAssumption DEF CardSends, Input
  <2>3. QED
    BY <1>2, <1>7, <2>1, <2>2 DEF CardSends, cardRest, arm9Vars, shared, scanVars
<1>8. QED
  BY <1>4, <1>5, <1>6, <1>7 DEF Card

(* The card and the access point send events.                               *)
LEMMA EnvironmentTypes ==
  ASSUME TypeInv, Environment
  PROVE  TypeInv'
<1> USE DEF TypeInv, TypeOK, QueuesOK
<1>1. ASSUME NEW k \in {"connect", "disconnect", "error", "m1", "m3", "group"}, NEW ap \in Ap \cup {NoAp}
      PROVE  Append(evq, Event(k, ap)) \in Seq(Events)
  <2>1. Event(k, ap) \in Events
    BY DEF Event, Events
  <2>2. QED
    BY <2>1, AppendFacts
<1>2. Input => inputs' \in 0 .. MaxInputs
  BY TwlAssumption DEF Input
<1>3. CASE CardLinks
  <2>1. evq' \in Seq(Events)
    BY <1>1, <1>3 DEF CardLinks
  <2>2. QED
    BY <1>3, <2>1 DEF CardLinks, cardRest, arm9Vars, shared, scanVars
<1>4. CASE CardFails
  <2>1. evq' \in Seq(Events)
    BY <1>1, <1>4 DEF CardFails
  <2>2. QED
    BY <1>2, <1>4, <2>1 DEF CardFails, cardRest, arm9Vars, shared, scanVars
<1>5. CASE CardError \/ ApGroup
  <2>1. evq' \in Seq(Events)
    BY <1>1, <1>5 DEF CardError, ApGroup
  <2>2. QED
    BY <1>2, <1>5, <2>1 DEF CardError, ApGroup, cardRest, arm9Vars, shared, scanVars
<1>6. ASSUME NEW again \in BOOLEAN, LinkLost(again)
      PROVE  TypeInv'
  <2>1. trying' \in Ap \cup {NoAp} /\ inputs' \in 0 .. MaxInputs
    BY <1>2, <1>6 DEF LinkLost
  <2>2. LinkEnds(cmdq) /\ UNCHANGED cardRest
    BY <1>6 DEF LinkLost
  <2>3. QED
    BY <2>1, <2>2, LinkEndsTypes DEF cardRest, arm9Vars, shared, scanVars
<1>7. ASSUME NEW k \in {"m1", "m3"}, ApMessage(k)
      PROVE  TypeInv'
  <2>1. evq' \in Seq(Events)
    BY <1>1, <1>7 DEF ApMessage
  <2>2. QED
    BY <1>7, <2>1 DEF ApMessage, cardRest, arm9Vars, shared, scanVars, cardVars
<1>8. ASSUME NEW ap \in Ap, OnBssInfo(ap)
      PROVE  TypeInv'
  BY <1>8 DEF OnBssInfo, scanRest, arm9Vars, shared, linkVars, cardVars
<1>9. QED
  BY <1>3, <1>4, <1>5, <1>6, <1>7, <1>8 DEF Environment

(* The ARM9 changes requests and settings, a scan its list.                 *)
LEMMA Arm9Types ==
  ASSUME TypeInv, Arm9 \/ Scanning
  PROVE  TypeInv'
<1> USE DEF TypeInv, TypeOK, QueuesOK
<1>1. Input => inputs' \in 0 .. MaxInputs
  BY TwlAssumption DEF Input
<1>2. ASSUME NEW ap \in Ap, NEW wfc \in BOOLEAN, ConnectAP(ap, wfc)
      PROVE  TypeInv'
  <2>1. NoPmk \in (Ap \cup {NoAp, BadKey}) \X (Ap \cup {NoAp, BadKey})
    BY DEF NoPmk
  <2>2. QED
    BY <1>1, <1>2, <2>1 DEF ConnectAP, Call, arm7Busy, scanVars, linkVars
<1>3. CASE ScanMode
  BY <1>3 DEF ScanMode, arm7Rest, arm7Busy, scanVars, linkVars
<1>4. CASE FoundAp
  BY <1>4 DEF FoundAp, arm7Rest, arm7Busy, scanVars, linkVars
<1>5. ASSUME NEW mode \in {"normal", "disabled"}, Request(mode)
      PROVE  TypeInv'
  BY <1>1, <1>5 DEF Request, Call, arm7Busy, scanVars, linkVars
<1>6. CASE Arm9
  BY <1>2, <1>3, <1>4, <1>5, <1>6 DEF Arm9
<1>7. CASE Scanning
  BY <1>7, TwlAssumption DEF Scanning, OnChannelList, OnScanComplete, scanRest, arm9Vars, shared,
                             linkVars, cardVars
<1>8. QED
  BY <1>6, <1>7

(* Types are preserved by every step.                                       *)
LEMMA TypeStep ==
  ASSUME TypeInv, [Next]_vars
  PROVE  TypeInv'
<1>1. CASE Next
  BY <1>1, UpdateTypes, CalculateTypes, InterruptTypes, CardTypes, EnvironmentTypes, Arm9Types DEF Next
<1>2. CASE UNCHANGED vars
  BY <1>2 DEF vars, arm9Vars, shared, scanVars, linkVars, cardVars, TypeInv, TypeOK, QueuesOK
<1>3. QED
  BY <1>1, <1>2

-----------------------------------------------------------------------------
(* Steps of the processors *)

(* A step that changes neither the queues nor the card, nor gives a         *)
(* connection up                                                            *)
LEMMA QuietKeeps ==
  ASSUME CardInv, UNCHANGED <<ap_connected, ptk, cmdq, evq, link, trying, keyed, told>>,
         curMode' \notin Linked => curMode \notin Linked
  PROVE  CardInv'
<1>1. ConnectionInv' /\ ModeInv'
  BY DEF CardInv, ConnectionInv, ModeInv
<1>2. OrderInv'
  BY DEF CardInv, OrderInv
<1>3. TurnInv'
  BY DEF CardInv, TurnInv
<1>4. KeyInv'
  BY DEF CardInv, KeyInv
<1>5. QED
  BY <1>1, <1>2, <1>3, <1>4 DEF CardInv

(* A command to connect, or one to disconnect that a connection is given up *)
(* with                                                                     *)
LEMMA CommandKeeps ==
  ASSUME TypeInv, CardInv, UNCHANGED <<ap_connected, ptk, evq, link, trying, keyed, told>>,
         NEW x \in Commands, x.k \in {"connect", "disconnect"}, cmdq' = Append(cmdq, x),
         curMode' \in Linked \/ x.k = "disconnect"
  PROVE  CardInv'
<1> USE DEF CardInv
<1>1. cmdq \in Seq(Commands)
  BY DEF TypeInv, QueuesOK
<1>2. x.k \notin Handshake \cup {"m2", "m4", "key"}
  BY DEF Handshake
<1>3. /\ ~ NoneAbout(cmdq') /\ \A i \in DOMAIN cmdq' : LastAbout(cmdq', i) => cmdq'[i] = x
      /\ StaleFirst(cmdq) => StaleFirst(cmdq')
      /\ AllStale(cmdq) => AllStale(cmdq')
      /\ NoneStale(cmdq) => NoneStale(cmdq')
  <2>1. ~ NoneAbout(cmdq') /\ \A i \in DOMAIN cmdq' : LastAbout(cmdq', i) => cmdq'[i] = x
    BY <1>1, AppendKeeps
  <2>2. x.k \notin Handshake
    BY <1>2
  <2>3. /\ StaleFirst(cmdq) => StaleFirst(cmdq')
        /\ AllStale(cmdq) => AllStale(cmdq')
        /\ NoneStale(cmdq) => NoneStale(cmdq')
    BY <1>1, <2>2, AppendKeeps
  <2>4. QED
    BY <2>1, <2>3
<1>4. /\ \A i \in DOMAIN cmdq : i \in DOMAIN cmdq' /\ cmdq'[i] = cmdq[i]
      /\ \A i \in DOMAIN cmdq' : i \in DOMAIN cmdq \/ cmdq'[i] = x
  BY <1>1, AppendFacts
<1>5. AllStale(cmdq') => AllStale(cmdq)
  BY <1>4 DEF AllStale, Live
<1>6. ConnectionInv'
  BY DEF ConnectionInv
<1>7. ModeInv'
  BY <1>3 DEF ModeInv
<1>8. OrderInv'
  BY <1>3, <1>5 DEF OrderInv
<1>9. TurnInv'
  <2>1. \A j \in DOMAIN cmdq' : Answers(cmdq', j) => j \in DOMAIN cmdq /\ Answers(cmdq, j)
    BY <1>2, <1>4 DEF Answers
  <2>2. QED
    BY <2>1 DEF TurnInv, Asks
<1>10. KeyInv'
  BY <1>2, <1>4 DEF KeyInv
<1>11. QED
  BY <1>6, <1>7, <1>8, <1>9, <1>10

(* An event that is not about the handshake; an error is answered with a    *)
(* command to disconnect.                                                   *)
LEMMA EventKeeps ==
  ASSUME TypeInv, CardInv, evq # <<>>, evq' = Tail(evq),
         UNCHANGED <<ptk, link, trying, keyed, told, curMode, cmdq>>,
         ap_connected' = IF e.k \in {"connect", "disconnect"} THEN e.k = "connect" ELSE ap_connected
  PROVE  CardInv'
<1> USE DEF CardInv
<1>1. evq \in Seq(Events) /\ ap_connected \in BOOLEAN
  BY DEF TypeInv, QueuesOK
<1>2. /\ e = evq[1] /\ 1 \in DOMAIN evq
      /\ \A i \in DOMAIN evq' : i + 1 \in DOMAIN evq /\ evq'[i] = evq[i + 1] /\ i \in Nat
  BY <1>1, TailFacts DEF e
<1>3. /\ \A i \in DOMAIN evq' : LastAbout(evq', i) => LastAbout(evq, i + 1)
      /\ NoneAbout(evq') => IF About(evq, 1) THEN LastAbout(evq, 1) ELSE NoneAbout(evq)
      /\ StaleFirst(evq) => StaleFirst(evq')
      /\ AllStale(evq) => AllStale(evq')
      /\ NoneStale(evq) => NoneStale(evq')
  BY <1>1, TailKeeps
<1>4. ConnectionInv'
  <2>1. \A i \in DOMAIN evq' : LastAbout(evq', i) => (evq'[i].k = "connect" <=> link # NoAp)
    BY <1>2, <1>3 DEF ConnectionInv
  <2>2. ASSUME NoneAbout(evq') PROVE ap_connected' <=> link # NoAp
    <3>1. CASE About(evq, 1)
      <4>1. ap_connected' = (e.k = "connect")
        BY <1>2, <3>1 DEF About
      <4>2. evq[1].k = "connect" <=> link # NoAp
        BY <1>2, <1>3, <2>2, <3>1 DEF ConnectionInv
      <4>3. QED
        BY <1>2, <4>1, <4>2
    <3>2. CASE ~ About(evq, 1)
      BY <1>2, <1>3, <2>2, <3>2 DEF About, ConnectionInv
    <3>3. QED
      BY <3>1, <3>2
  <2>3. QED
    BY <2>1, <2>2 DEF ConnectionInv
<1>5. ModeInv'
  BY DEF ModeInv
<1>6. OrderInv'
  BY <1>3 DEF OrderInv
<1>7. TurnInv'
  <2>1. ASSUME NEW i \in DOMAIN evq', NEW j \in DOMAIN evq', Asks(evq', i), Asks(evq', j) PROVE i = j
    <3>1. i + 1 = j + 1
      BY <1>2, <2>1 DEF TurnInv, Asks
    <3>2. QED
      BY <1>2, <3>1
  <2>2. \A i \in DOMAIN evq', j \in DOMAIN cmdq : ~ (Asks(evq', i) /\ Answers(cmdq, j))
    BY <1>2 DEF TurnInv, Asks
  <2>3. QED
    BY <2>1, <2>2 DEF TurnInv
<1>8. KeyInv'
  BY <1>2 DEF KeyInv
<1>9. QED
  BY <1>4, <1>5, <1>6, <1>7, <1>8

(* A message of the handshake and its answer: they are both of an earlier   *)
(* connection or both of this one, and the answer keeps the order.          *)
LEMMA MessageKeepsOrder ==
  ASSUME TypeInv, CardInv, evq # <<>>, evq' = Tail(evq), e.k \in Handshake,
         UNCHANGED <<ap_connected, link, trying, told, curMode>>,
         ptk' => ptk \/ e.live,
         StaleFirst(cmdq) /\ (e.live \/ AllStale(cmdq)) => StaleFirst(cmdq'),
         e.live /\ NoneStale(cmdq) => NoneStale(cmdq'),
         ~ e.live /\ AllStale(cmdq) => AllStale(cmdq'),
         NoneAbout(cmdq') => NoneAbout(cmdq),
         \A i \in DOMAIN cmdq' : LastAbout(cmdq', i) => LastAbout(cmdq, i) /\ cmdq'[i] = cmdq[i]
  PROVE  /\ ConnectionInv' /\ ModeInv' /\ OrderInv'
         /\ ~ e.live => told = "none" /\ ~ ptk /\ AllStale(cmdq)
<1> USE DEF CardInv
<1>1. evq \in Seq(Events)
  BY DEF TypeInv, QueuesOK
<1>2. /\ e = evq[1] /\ 1 \in DOMAIN evq
      /\ \A i \in DOMAIN evq' : i + 1 \in DOMAIN evq /\ evq'[i] = evq[i + 1] /\ i \in Nat
  BY <1>1, TailFacts DEF e
<1>3. /\ \A i \in DOMAIN evq' : LastAbout(evq', i) => LastAbout(evq, i + 1)
      /\ NoneAbout(evq') => IF About(evq, 1) THEN LastAbout(evq, 1) ELSE NoneAbout(evq)
      /\ StaleFirst(evq) => StaleFirst(evq')
      /\ AllStale(evq) => AllStale(evq')
      /\ NoneStale(evq) => NoneStale(evq')
      /\ StaleFirst(evq) /\ Live(evq, 1) => NoneStale(evq)
  BY <1>1, TailKeeps
<1>4. IF e.live THEN Live(evq, 1) ELSE Stale(evq, 1)
  BY <1>2 DEF Live, Stale
<1>5. ~ e.live => told = "none" /\ ~ ptk /\ AllStale(cmdq)
  BY <1>2, <1>4 DEF OrderInv, NoneStale
<1>6. ConnectionInv'
  <2>1. ~ About(evq, 1)
    BY <1>2 DEF About, Handshake
  <2>2. QED
    BY <1>2, <1>3, <2>1 DEF ConnectionInv
<1>7. ModeInv'
  <2>1. ASSUME curMode' \notin Linked, NEW i \in DOMAIN cmdq', LastAbout(cmdq', i)
        PROVE  cmdq'[i].k = "disconnect"
    <3>1. LastAbout(cmdq, i) /\ i \in DOMAIN cmdq /\ cmdq'[i] = cmdq[i]
      BY <2>1 DEF LastAbout
    <3>2. QED
      BY <2>1, <3>1 DEF ModeInv
  <2>2. QED
    BY <2>1 DEF ModeInv
<1>8. OrderInv'
  <2>1. StaleFirst(evq') /\ StaleFirst(cmdq')
    BY <1>3, <1>5 DEF OrderInv
  <2>2. told' # "none" \/ ptk' \/ ~ AllStale(cmdq') => NoneStale(evq')
    BY <1>3, <1>4, <1>5 DEF OrderInv
  <2>3. told' = "done" => NoneStale(cmdq')
    BY <1>5 DEF OrderInv
  <2>4. link' = NoAp => told' = "none" /\ ~ ptk' /\ AllStale(evq') /\ AllStale(cmdq')
    <3>1. link = NoAp => ~ e.live
      BY <1>2, <1>4 DEF OrderInv, AllStale
    <3>2. QED
      BY <1>3, <3>1 DEF OrderInv
  <2>5. QED
    BY <2>1, <2>2, <2>3, <2>4 DEF OrderInv
<1>9. QED
  BY <1>5, <1>6, <1>7, <1>8

(* What one answer does to the commands *)
LEMMA AnswerFacts ==
  ASSUME cmdq \in Seq(Commands), NEW x \in Commands, x.k \in {"m2", "m4", "key"},
         cmdq' = Append(cmdq, x)
  PROVE  /\ StaleFirst(cmdq) /\ (x.live \/ AllStale(cmdq)) => StaleFirst(cmdq')
         /\ x.live /\ NoneStale(cmdq) => NoneStale(cmdq')
         /\ ~ x.live /\ AllStale(cmdq) => AllStale(cmdq')
         /\ NoneAbout(cmdq') => NoneAbout(cmdq)
         /\ \A i \in DOMAIN cmdq' : LastAbout(cmdq', i) => LastAbout(cmdq, i) /\ cmdq'[i] = cmdq[i]
<1>1. x.k \in Handshake /\ x.k \notin {"connect", "disconnect"}
  BY DEF Handshake
<1>2. /\ StaleFirst(cmdq) /\ (x.live \/ AllStale(cmdq)) => StaleFirst(cmdq')
      /\ x.live /\ NoneStale(cmdq) => NoneStale(cmdq')
      /\ ~ x.live /\ AllStale(cmdq) => AllStale(cmdq')
  BY <1>1, AppendKeeps
<1>3. /\ NoneAbout(cmdq') => NoneAbout(cmdq)
      /\ \A i \in DOMAIN cmdq' : LastAbout(cmdq', i) => LastAbout(cmdq, i) /\ cmdq'[i] = cmdq[i]
  BY <1>1, AppendKeeps
<1>4. QED
  BY <1>2, <1>3

(* Message 1 makes the PTK anew: the access point has not accepted message  *)
(* 2 yet, and no other message of the handshake is on its way.              *)
LEMMA Message1Keeps ==
  ASSUME TypeInv, CardInv, OnMessage1
  PROVE  CardInv'
<1> DEFINE x == [Command("m2", e.ap, pmk = PmkOf(e.ap)) EXCEPT !.live = e.live]
<1>1. /\ evq \in Seq(Events) /\ evq # <<>> /\ evq' = Tail(evq) /\ e.k = "m1"
      /\ cmdq \in Seq(Commands) /\ cmdq' = Append(cmdq, x)
      /\ UNCHANGED <<ap_connected, link, trying, told, keyed, curMode>>
      /\ ptk' = (e.live /\ pmk = PmkOf(e.ap))
  BY DEF TypeInv, QueuesOK, OnMessage1, Take, cardVars
<1>2. e \in Events
  BY <1>1, TailFacts DEF e
<1>3. x \in Commands /\ x.k = "m2" /\ x.live = e.live /\ x.ok = (pmk = PmkOf(e.ap))
  <2>1. (pmk = PmkOf(e.ap)) \in BOOLEAN /\ e.live \in BOOLEAN /\ e.ap \in Ap \cup {NoAp}
    BY <1>2 DEF Events
  <2>2. QED
    BY <2>1 DEF Command, Commands
<1> HIDE DEF x
<1>4. /\ ConnectionInv' /\ ModeInv' /\ OrderInv'
      /\ ~ e.live => told = "none" /\ ~ ptk /\ AllStale(cmdq)
  <2>1. e.k \in Handshake
    BY <1>1 DEF Handshake
  <2>2. QED
    BY <1>1, <1>3, <2>1, AnswerFacts, MessageKeepsOrder
<1>5. /\ e = evq[1] /\ 1 \in DOMAIN evq
      /\ \A i \in DOMAIN evq' : i + 1 \in DOMAIN evq /\ evq'[i] = evq[i + 1] /\ i \in Nat /\ i >= 1
  BY <1>1, TailFacts DEF e
<1>6. /\ \A i \in DOMAIN cmdq : i \in DOMAIN cmdq' /\ cmdq'[i] = cmdq[i]
      /\ \A i \in DOMAIN cmdq' : i \in DOMAIN cmdq \/ cmdq'[i] = x
  BY <1>1, <1>3, AppendFacts
<1>7. /\ e.live => told \in {"none", "refused"} /\ Asks(evq, 1)
      /\ told \notin {"sent3", "done"}
  BY <1>1, <1>4, <1>5 DEF CardInv, KeyInv, Asks
<1>8. \A j \in DOMAIN cmdq : ~ Answers(cmdq, j)
  <2>1. CASE e.live
    BY <1>5, <1>7, <2>1 DEF CardInv, TurnInv
  <2>2. CASE ~ e.live
    BY <1>4, <2>2 DEF AllStale, Live, Answers, Handshake
  <2>3. QED
    BY <2>1, <2>2
<1>9. TurnInv'
  <2>1. ASSUME NEW i \in DOMAIN evq', NEW j \in DOMAIN evq', Asks(evq', i), Asks(evq', j) PROVE i = j
    <3>1. i + 1 = j + 1
      BY <1>5, <2>1 DEF CardInv, TurnInv, Asks
    <3>2. QED
      BY <1>5, <3>1
  <2>2. ASSUME NEW i \in DOMAIN evq', NEW j \in DOMAIN cmdq', Asks(evq', i), Answers(cmdq', j) PROVE FALSE
    <3>1. cmdq'[j] = x
      BY <1>6, <1>8, <2>2 DEF Answers
    <3>2. Asks(evq, i + 1) /\ i + 1 # 1 /\ i + 1 \in DOMAIN evq
      BY <1>5, <2>2 DEF Asks
    <3>3. Asks(evq, 1)
      BY <1>3, <1>7, <2>2, <3>1 DEF Answers
    <3>4. QED
      BY <1>5, <3>2, <3>3 DEF CardInv, TurnInv
  <2>3. QED
    BY <2>1, <2>2 DEF TurnInv
<1>10. ASSUME NEW i \in DOMAIN evq', evq'[i].live
       PROVE  /\ evq'[i].k = "m1" => told' \in {"none", "refused"}
              /\ evq'[i].k # "m3"
              /\ evq'[i].k # "group"
  <2>1. i + 1 \in DOMAIN evq /\ evq[i + 1].live /\ evq'[i] = evq[i + 1] /\ i + 1 # 1
    BY <1>5, <1>10
  <2>2. evq[i + 1].k = "m3" => ptk /\ ~ e.live
    BY <1>5, <1>7, <2>1 DEF CardInv, KeyInv, TurnInv, Asks
  <2>3. QED
    BY <1>1, <1>4, <1>7, <2>1, <2>2 DEF CardInv, KeyInv
<1>11. ASSUME NEW i \in DOMAIN cmdq', cmdq'[i].live
       PROVE  /\ cmdq'[i].k = "m2" => (cmdq'[i].ok => ptk')
              /\ cmdq'[i].k # "m4"
              /\ cmdq'[i].k = "key" => cmdq'[i].ok
  <2>1. CASE cmdq'[i] = x
    BY <1>1, <1>3, <1>11, <2>1
  <2>2. CASE i \in DOMAIN cmdq
    BY <1>6, <1>8, <1>11, <2>2 DEF CardInv, KeyInv, Answers
  <2>3. QED
    BY <1>6, <2>1, <2>2
<1>12. KeyInv'
  BY <1>1, <1>7, <1>10, <1>11 DEF KeyInv
<1>13. QED
  BY <1>4, <1>9, <1>12 DEF CardInv

(* What message 3 does to the commands: the answer goes before the keys,    *)
(* which are sent if curAp is an access point with WPA2.                    *)
LEMMA Message3Queue ==
  ASSUME TypeInv, OnMessage3
  PROVE  /\ StaleFirst(cmdq) /\ (e.live \/ AllStale(cmdq)) => StaleFirst(cmdq')
         /\ e.live /\ NoneStale(cmdq) => NoneStale(cmdq')
         /\ ~ e.live /\ AllStale(cmdq) => AllStale(cmdq')
         /\ NoneAbout(cmdq') => NoneAbout(cmdq)
         /\ \A i \in DOMAIN cmdq' : LastAbout(cmdq', i) => LastAbout(cmdq, i) /\ cmdq'[i] = cmdq[i]
         /\ \A i \in DOMAIN cmdq : i \in DOMAIN cmdq' /\ cmdq'[i] = cmdq[i]
         /\ \A i \in DOMAIN cmdq' :
              \/ i \in DOMAIN cmdq
              \/ /\ cmdq'[i].k = "m4" /\ cmdq'[i].live = e.live
                 /\ e.live /\ curAp \in Wpa2 => Follows(cmdq', i)
              \/ cmdq'[i].k = "key" /\ cmdq'[i].live = e.live /\ cmdq'[i].ok = ptk
<1> DEFINE x == [Command("m4", e.ap, TRUE) EXCEPT !.live = e.live]
           q == Append(cmdq, x)
<1>1. /\ evq \in Seq(Events) /\ evq # <<>> /\ cmdq \in Seq(Commands)
      /\ cmdq' = q \o PostHandshake
  BY DEF TypeInv, QueuesOK, OnMessage3, Take
<1>2. x \in Commands /\ x.k = "m4" /\ x.live = e.live
  <2>1. e \in Events
    BY <1>1, TailFacts DEF e
  <2>2. e.live \in BOOLEAN /\ e.ap \in Ap \cup {NoAp}
    BY <2>1 DEF Events
  <2>3. QED
    BY <2>2 DEF Command, Commands
<1> HIDE DEF x
<1>3. q \in Seq(Commands) /\ Len(q) = Len(cmdq) + 1
  BY <1>1, <1>2
<1>4. x.k \in Handshake /\ x.k \notin {"connect", "disconnect"}
  BY <1>2 DEF Handshake
<1>5. /\ StaleFirst(cmdq) /\ (e.live \/ AllStale(cmdq)) => StaleFirst(q)
      /\ e.live /\ NoneStale(cmdq) => NoneStale(q)
      /\ ~ e.live /\ AllStale(cmdq) => AllStale(q)
  BY <1>1, <1>2, <1>4, AppendKeeps
<1>6. /\ NoneAbout(q) => NoneAbout(cmdq)
      /\ \A i \in DOMAIN q : LastAbout(q, i) => LastAbout(cmdq, i) /\ q[i] = cmdq[i]
  BY <1>1, <1>2, <1>4, AppendKeeps
<1>7. /\ \A i \in DOMAIN cmdq : i \in DOMAIN q /\ q[i] = cmdq[i]
      /\ q[Len(cmdq) + 1] = x
      /\ \A i \in DOMAIN q : i \in DOMAIN cmdq \/ i = Len(cmdq) + 1
  BY <1>1, <1>2, AppendFacts
<1> HIDE DEF q
<1>8. /\ StaleFirst(q) /\ (e.live \/ AllStale(q)) => StaleFirst(cmdq')
      /\ e.live /\ NoneStale(q) => NoneStale(cmdq')
      /\ ~ e.live /\ AllStale(q) => AllStale(cmdq')
      /\ NoneAbout(cmdq') => NoneAbout(q)
      /\ \A i \in DOMAIN cmdq' : LastAbout(cmdq', i) => LastAbout(q, i) /\ cmdq'[i] = q[i]
  BY <1>1, <1>3, KeyQueued
<1>9. /\ \A i \in DOMAIN q : i \in DOMAIN cmdq' /\ cmdq'[i] = q[i]
      /\ \A i \in DOMAIN cmdq' : i \in DOMAIN q
           \/ (cmdq'[i].k = "key" /\ cmdq'[i].live = e.live /\ cmdq'[i].ok = ptk)
      /\ curAp \in Wpa2 =>
           \E j \in DOMAIN cmdq' : j > Len(q) /\ cmdq'[j].k = "key" /\ cmdq'[j].live = e.live
  BY <1>1, <1>3, KeyQueued
<1>10. /\ StaleFirst(cmdq) /\ (e.live \/ AllStale(cmdq)) => StaleFirst(cmdq')
       /\ e.live /\ NoneStale(cmdq) => NoneStale(cmdq')
       /\ ~ e.live /\ AllStale(cmdq) => AllStale(cmdq')
       /\ NoneAbout(cmdq') => NoneAbout(cmdq)
  BY <1>5, <1>6, <1>8
<1>11. \A i \in DOMAIN cmdq' : LastAbout(cmdq', i) => LastAbout(cmdq, i) /\ cmdq'[i] = cmdq[i]
  BY <1>6, <1>8 DEF LastAbout
<1>12. \A i \in DOMAIN cmdq : i \in DOMAIN cmdq' /\ cmdq'[i] = cmdq[i]
  BY <1>7, <1>9
<1>13. ASSUME NEW i \in DOMAIN cmdq', i \notin DOMAIN cmdq, i \in DOMAIN q
       PROVE  /\ cmdq'[i].k = "m4" /\ cmdq'[i].live = e.live
              /\ e.live /\ curAp \in Wpa2 => Follows(cmdq', i)
  <2>1. i = Len(q) /\ cmdq'[i] = x
    BY <1>3, <1>7, <1>9, <1>13
  <2>2. QED
    BY <1>2, <1>9, <2>1 DEF Follows
<1>14. QED
  BY <1>9, <1>10, <1>11, <1>12, <1>13

(* Message 3: if it is of this connection the PTK is right.                 *)
LEMMA Message3Keeps ==
  ASSUME TypeInv, CardInv, OnMessage3
  PROVE  CardInv'
<1>1. /\ evq \in Seq(Events) /\ evq # <<>> /\ evq' = Tail(evq) /\ e.k = "m3"
      /\ UNCHANGED <<ap_connected, ptk, link, trying, told, keyed, curMode>>
  BY DEF TypeInv, QueuesOK, OnMessage3, Take, cardVars
<1>9. /\ \A i \in DOMAIN cmdq : i \in DOMAIN cmdq' /\ cmdq'[i] = cmdq[i]
      /\ \A i \in DOMAIN cmdq' :
           \/ i \in DOMAIN cmdq
           \/ cmdq'[i].k = "m4" /\ cmdq'[i].live = e.live
           \/ cmdq'[i].k = "key" /\ cmdq'[i].live = e.live /\ cmdq'[i].ok = ptk
  BY Message3Queue
<1>10. /\ ConnectionInv' /\ ModeInv' /\ OrderInv'
       /\ ~ e.live => told = "none" /\ ~ ptk /\ AllStale(cmdq)
  <2>1. e.k \in Handshake
    BY <1>1 DEF Handshake
  <2>2. /\ StaleFirst(cmdq) /\ (e.live \/ AllStale(cmdq)) => StaleFirst(cmdq')
        /\ e.live /\ NoneStale(cmdq) => NoneStale(cmdq')
        /\ ~ e.live /\ AllStale(cmdq) => AllStale(cmdq')
        /\ NoneAbout(cmdq') => NoneAbout(cmdq)
        /\ \A i \in DOMAIN cmdq' : LastAbout(cmdq', i) => LastAbout(cmdq, i) /\ cmdq'[i] = cmdq[i]
    BY Message3Queue
  <2>3. QED
    BY <1>1, <2>1, <2>2, MessageKeepsOrder
<1>11. /\ e = evq[1] /\ 1 \in DOMAIN evq
       /\ \A i \in DOMAIN evq' : i + 1 \in DOMAIN evq /\ evq'[i] = evq[i + 1] /\ i \in Nat /\ i >= 1
  BY <1>1, TailFacts DEF e
<1>12. e.live => ptk /\ Asks(evq, 1)
  BY <1>1, <1>11 DEF CardInv, KeyInv, Asks
<1>13. TurnInv'
  <2>1. ASSUME NEW i \in DOMAIN evq', NEW j \in DOMAIN evq', Asks(evq', i), Asks(evq', j) PROVE i = j
    <3>1. i + 1 = j + 1
      BY <1>11, <2>1 DEF CardInv, TurnInv, Asks
    <3>2. QED
      BY <1>11, <3>1
  <2>2. ASSUME NEW i \in DOMAIN evq', NEW j \in DOMAIN cmdq', Asks(evq', i), Answers(cmdq', j) PROVE FALSE
    <3>1. Asks(evq, i + 1) /\ i + 1 # 1 /\ i + 1 \in DOMAIN evq
      BY <1>11, <2>2 DEF Asks
    <3>2. ~ e.live
      BY <1>11, <1>12, <3>1 DEF CardInv, TurnInv
    <3>3. j \in DOMAIN cmdq /\ cmdq'[j] = cmdq[j]
      BY <1>9, <2>2, <3>2 DEF Answers
    <3>4. QED
      BY <2>2, <3>1, <3>3 DEF CardInv, TurnInv, Answers
  <2>3. QED
    BY <2>1, <2>2 DEF TurnInv
<1>14. ASSUME NEW i \in DOMAIN evq', evq'[i].live
       PROVE  /\ evq'[i].k = "m1" => told' \in {"none", "refused"}
              /\ evq'[i].k = "m3" => ptk'
              /\ evq'[i].k = "group" => told' = "done"
  BY <1>1, <1>11, <1>14 DEF CardInv, KeyInv
<1>15. ASSUME NEW i \in DOMAIN cmdq', cmdq'[i].live
       PROVE  /\ cmdq'[i].k = "m2" => (cmdq'[i].ok => ptk')
              /\ cmdq'[i].k = "m4" => ptk'
              /\ cmdq'[i].k = "key" => cmdq'[i].ok
  <2>1. CASE i \in DOMAIN cmdq
    BY <1>1, <1>9, <1>15, <2>1 DEF CardInv, KeyInv
  <2>2. CASE i \notin DOMAIN cmdq
    BY <1>1, <1>9, <1>12, <1>15, <2>2
  <2>3. QED
    BY <2>1, <2>2
<1>16. KeyInv'
  <2>1. told' \in {"sent3", "done"} => ptk'
    BY <1>1 DEF CardInv, KeyInv
  <2>2. QED
    BY <1>14, <1>15, <2>1 DEF KeyInv
<1>17. QED
  BY <1>10, <1>13, <1>16 DEF CardInv

(* A group message of this connection comes after message 4.                *)
LEMMA GroupMessageKeeps ==
  ASSUME TypeInv, CardInv, OnGroupMessage
  PROVE  CardInv'
<1>1. /\ evq \in Seq(Events) /\ evq # <<>> /\ evq' = Tail(evq) /\ e.k = "group"
      /\ cmdq \in Seq(Commands) /\ cmdq' = cmdq \o PostHandshake
      /\ UNCHANGED <<ap_connected, ptk, link, trying, told, keyed, curMode>>
  BY DEF TypeInv, QueuesOK, OnGroupMessage, Take, cardVars
<1>4. ConnectionInv' /\ ModeInv' /\ OrderInv'
  <2>1. e.k \in Handshake
    BY <1>1 DEF Handshake
  <2>2. /\ StaleFirst(cmdq) /\ (e.live \/ AllStale(cmdq)) => StaleFirst(cmdq')
        /\ e.live /\ NoneStale(cmdq) => NoneStale(cmdq')
        /\ ~ e.live /\ AllStale(cmdq) => AllStale(cmdq')
        /\ NoneAbout(cmdq') => NoneAbout(cmdq)
        /\ \A i \in DOMAIN cmdq' : LastAbout(cmdq', i) => LastAbout(cmdq, i) /\ cmdq'[i] = cmdq[i]
    BY <1>1, KeyQueued
  <2>3. QED
    BY <1>1, <2>1, <2>2, MessageKeepsOrder
<1>5. /\ e = evq[1] /\ 1 \in DOMAIN evq
      /\ \A i \in DOMAIN evq' : i + 1 \in DOMAIN evq /\ evq'[i] = evq[i + 1] /\ i \in Nat
  BY <1>1, TailFacts DEF e
<1>6. /\ \A i \in DOMAIN cmdq : i \in DOMAIN cmdq' /\ cmdq'[i] = cmdq[i]
      /\ \A i \in DOMAIN cmdq' : i \in DOMAIN cmdq
           \/ (cmdq'[i].k = "key" /\ cmdq'[i].live = e.live /\ cmdq'[i].ok = ptk)
  BY <1>1, KeyQueued
<1>7. e.live => ptk
  BY <1>1, <1>5 DEF CardInv, KeyInv
<1>8. TurnInv'
  <2>1. ASSUME NEW i \in DOMAIN evq', NEW j \in DOMAIN evq', Asks(evq', i), Asks(evq', j) PROVE i = j
    <3>1. i + 1 = j + 1
      BY <1>5, <2>1 DEF CardInv, TurnInv, Asks
    <3>2. QED
      BY <1>5, <3>1
  <2>2. \A j \in DOMAIN cmdq' : Answers(cmdq', j) => j \in DOMAIN cmdq /\ Answers(cmdq, j)
    BY <1>6 DEF Answers
  <2>3. \A i \in DOMAIN evq' : Asks(evq', i) => i + 1 \in DOMAIN evq /\ Asks(evq, i + 1)
    BY <1>5 DEF Asks
  <2>4. QED
    BY <2>1, <2>2, <2>3 DEF CardInv, TurnInv
<1>9. ASSUME NEW i \in DOMAIN cmdq', cmdq'[i].live
      PROVE  /\ cmdq'[i].k = "m2" => (cmdq'[i].ok => ptk')
             /\ cmdq'[i].k = "m4" => ptk'
             /\ cmdq'[i].k = "key" => cmdq'[i].ok
  <2>1. CASE i \in DOMAIN cmdq
    BY <1>1, <1>6, <1>9, <2>1 DEF CardInv, KeyInv
  <2>2. CASE i \notin DOMAIN cmdq
    BY <1>6, <1>7, <1>9, <2>2
  <2>3. QED
    BY <2>1, <2>2
<1>10. KeyInv'
  BY <1>1, <1>5, <1>6, <1>9 DEF CardInv, KeyInv
<1>11. QED
  BY <1>4, <1>8, <1>10 DEF CardInv

-----------------------------------------------------------------------------
(* Steps of the card and of the access point *)

(* The connection ends: everything under way is of an earlier one.          *)
LEMMA LinkEndsKeeps ==
  ASSUME TypeInv, CardInv, NEW commands \in Seq(Commands), LinkEnds(commands),
         UNCHANGED <<ap_connected, curMode>>,
         curMode \notin Linked =>
           /\ \A i \in DOMAIN commands : LastAbout(commands, i) => commands[i].k = "disconnect"
           /\ NoneAbout(commands) => trying' = NoAp
  PROVE  CardInv'
<1> DEFINE x == Event("disconnect", NoAp)
<1>1. /\ evq' = Append(Dead(evq), x) /\ cmdq' = Dead(commands)
      /\ link' = NoAp /\ told' = "none" /\ keyed' = FALSE /\ ptk' = FALSE
  BY DEF LinkEnds
<1>2. x \in Events /\ x.k = "disconnect"
  BY DEF Event, Events
<1> HIDE DEF x
<1>3. Dead(evq) \in Seq(Events) /\ Dead(commands) \in Seq(Commands)
  BY DeadMessages DEF TypeInv, QueuesOK
<1>4. /\ StaleFirst(Dead(evq)) /\ AllStale(Dead(evq))
      /\ StaleFirst(cmdq') /\ AllStale(cmdq')
      /\ NoneAbout(cmdq') <=> NoneAbout(commands)
      /\ \A i \in DOMAIN cmdq' : LastAbout(cmdq', i) => LastAbout(commands, i) /\ cmdq'[i].k = commands[i].k
  BY <1>1, DeadKeeps DEF TypeInv, QueuesOK
<1>5. x.k \notin Handshake /\ x.k \in {"connect", "disconnect"}
  BY <1>2 DEF Handshake
<1>6. /\ ~ NoneAbout(evq')
      /\ \A i : LastAbout(evq', i) => evq'[i] = x
      /\ StaleFirst(evq') /\ AllStale(evq')
  <2>1. ~ NoneAbout(evq') /\ \A i : LastAbout(evq', i) => evq'[i] = x
    BY <1>1, <1>2, <1>3, <1>5, AppendKeeps
  <2>2. StaleFirst(evq')
    BY <1>1, <1>2, <1>3, <1>4, <1>5, AppendKeeps
  <2>3. AllStale(evq')
    BY <1>1, <1>2, <1>3, <1>4, <1>5, AppendKeeps
  <2>4. QED
    BY <2>1, <2>2, <2>3
<1>7. ConnectionInv'
  BY <1>1, <1>2, <1>6 DEF ConnectionInv
<1>8. ModeInv'
  BY <1>1, <1>4 DEF ModeInv, LastAbout
<1>9. OrderInv'
  BY <1>1, <1>4, <1>6 DEF OrderInv
<1>10. TurnInv'
  BY <1>6 DEF TurnInv, AllStale, Live, Asks, Handshake
<1>11. KeyInv'
  BY <1>1, <1>4, <1>6 DEF KeyInv, AllStale, Live, Handshake
<1>12. QED
  BY <1>7, <1>8, <1>9, <1>10, <1>11 DEF CardInv

(* A command that is not about the handshake leaves the queue.              *)
LEMMA CommandServed ==
  ASSUME TypeInv, CardInv, cmdq # <<>>, cmdq' = Tail(cmdq),
         UNCHANGED <<evq, ap_connected, ptk, link, keyed, told, curMode>>,
         cc.k \in {"connect", "disconnect"},
         trying' # NoAp => link = NoAp,
         cc.k = "disconnect" => link = NoAp /\ trying' = NoAp
  PROVE  CardInv'
<1> USE DEF CardInv
<1>1. cmdq \in Seq(Commands)
  BY DEF TypeInv, QueuesOK
<1>2. /\ cc = cmdq[1] /\ 1 \in DOMAIN cmdq
      /\ \A i \in DOMAIN cmdq' : i + 1 \in DOMAIN cmdq /\ cmdq'[i] = cmdq[i + 1] /\ i \in Nat
      /\ \A i \in DOMAIN cmdq : i \in Nat /\ (i # 1 => i - 1 \in DOMAIN cmdq' /\ cmdq'[i - 1] = cmdq[i])
  BY <1>1, TailFacts DEF cc
<1>3. /\ \A i \in DOMAIN cmdq' : LastAbout(cmdq', i) => LastAbout(cmdq, i + 1)
      /\ NoneAbout(cmdq') => IF About(cmdq, 1) THEN LastAbout(cmdq, 1) ELSE NoneAbout(cmdq)
      /\ StaleFirst(cmdq) => StaleFirst(cmdq')
      /\ AllStale(cmdq) => AllStale(cmdq')
      /\ NoneStale(cmdq) => NoneStale(cmdq')
  BY <1>1, TailKeeps
<1>4. ConnectionInv'
  BY DEF ConnectionInv
<1>5. ModeInv'
  <2>1. ASSUME curMode \notin Linked, NoneAbout(cmdq') PROVE link = NoAp /\ trying' = NoAp
    <3>1. LastAbout(cmdq, 1)
      BY <1>2, <1>3, <2>1 DEF About
    <3>2. QED
      BY <1>2, <2>1, <3>1 DEF ModeInv
  <2>2. QED
    BY <1>2, <1>3, <2>1 DEF ModeInv
<1>6. OrderInv'
  BY <1>3 DEF OrderInv
<1>7. TurnInv'
  BY <1>2 DEF TurnInv, Asks, Answers
<1>8. KeyInv'
  BY <1>2 DEF KeyInv
<1>9. QED
  BY <1>4, <1>5, <1>6, <1>7, <1>8

(* A command to connect ends the connection there is.                       *)
LEMMA CardConnectKeeps ==
  ASSUME TypeInv, CardInv, CardConnect
  PROVE  CardInv'
<1>1. cmdq # <<>> /\ cc.k = "connect" /\ cmdq \in Seq(Commands) /\ trying' = cc.ap
  BY DEF CardConnect, TypeInv, QueuesOK
<1>2. UNCHANGED <<ap_connected, curMode>>
  BY DEF CardConnect, cardRest
<1>3. CASE link # NoAp
  <2>1. LinkEnds(Tail(cmdq)) /\ Tail(cmdq) \in Seq(Commands)
    BY <1>1, <1>3 DEF CardConnect
  <2>2. ASSUME curMode \notin Linked
        PROVE  /\ \A i \in DOMAIN Tail(cmdq) :
                    LastAbout(Tail(cmdq), i) => Tail(cmdq)[i].k = "disconnect"
               /\ ~ NoneAbout(Tail(cmdq))
    <3>1. /\ cc = cmdq[1] /\ 1 \in DOMAIN cmdq
          /\ \A i \in DOMAIN Tail(cmdq) : i + 1 \in DOMAIN cmdq /\ Tail(cmdq)[i] = cmdq[i + 1]
      BY <1>1, TailFacts DEF cc
    <3>2. /\ \A i \in DOMAIN Tail(cmdq) : LastAbout(Tail(cmdq), i) => LastAbout(cmdq, i + 1)
          /\ NoneAbout(Tail(cmdq)) => IF About(cmdq, 1) THEN LastAbout(cmdq, 1) ELSE NoneAbout(cmdq)
      BY <1>1, TailKeeps
    <3>3. QED
      BY <1>1, <2>2, <3>1, <3>2 DEF CardInv, ModeInv, About
  <2>3. QED
    BY <1>2, <2>1, <2>2, LinkEndsKeeps
<1>4. CASE link = NoAp
  BY <1>1, <1>2, <1>4, CommandServed DEF CardConnect, cardRest
<1>5. QED
  BY <1>3, <1>4

(* A command to disconnect ends it, or the attempt.                         *)
LEMMA CardDisconnectKeeps ==
  ASSUME TypeInv, CardInv, CardDisconnect
  PROVE  CardInv'
<1>1. cmdq # <<>> /\ cc.k = "disconnect" /\ cmdq \in Seq(Commands) /\ trying' = NoAp
  BY DEF CardDisconnect, TypeInv, QueuesOK
<1>2. UNCHANGED <<ap_connected, curMode>>
  BY DEF CardDisconnect, cardRest
<1>3. CASE link # NoAp \/ trying # NoAp
  <2>1. LinkEnds(Tail(cmdq)) /\ Tail(cmdq) \in Seq(Commands)
    BY <1>1, <1>3 DEF CardDisconnect
  <2>2. ASSUME curMode \notin Linked
        PROVE  \A i \in DOMAIN Tail(cmdq) : LastAbout(Tail(cmdq), i) => Tail(cmdq)[i].k = "disconnect"
    <3>1. \A i \in DOMAIN Tail(cmdq) : i + 1 \in DOMAIN cmdq /\ Tail(cmdq)[i] = cmdq[i + 1]
      BY <1>1, TailFacts
    <3>2. \A i \in DOMAIN Tail(cmdq) : LastAbout(Tail(cmdq), i) => LastAbout(cmdq, i + 1)
      BY <1>1, TailKeeps
    <3>3. QED
      BY <2>2, <3>1, <3>2 DEF CardInv, ModeInv
  <2>3. QED
    BY <1>1, <1>2, <2>1, <2>2, LinkEndsKeeps
<1>4. CASE ~ (link # NoAp \/ trying # NoAp)
  BY <1>1, <1>2, <1>4, CommandServed DEF CardDisconnect, cardRest
<1>5. QED
  BY <1>3, <1>4

(* A lost connection: in a mode without one a command to disconnect is on   *)
(* its way already, so that the card may try again.                         *)
LEMMA LinkLostKeeps ==
  ASSUME TypeInv, CardInv, NEW again \in BOOLEAN, LinkLost(again)
  PROVE  CardInv'
<1>1. link # NoAp /\ LinkEnds(cmdq) /\ cmdq \in Seq(Commands)
  BY DEF LinkLost, TypeInv, QueuesOK
<1>2. UNCHANGED <<ap_connected, curMode>>
  BY DEF LinkLost, cardRest
<1>3. curMode \notin Linked =>
        /\ \A i \in DOMAIN cmdq : LastAbout(cmdq, i) => cmdq[i].k = "disconnect"
        /\ ~ NoneAbout(cmdq)
  BY <1>1 DEF CardInv, ModeInv
<1>4. QED
  BY <1>1, <1>2, <1>3, LinkEndsKeeps

(* A message of the handshake or a key leaves the queue.  The access point  *)
(* takes notice only if it is of this connection.                           *)
LEMMA AnswerServed ==
  ASSUME TypeInv, CardInv, cmdq # <<>>, cmdq' = Tail(cmdq), cc.k \in {"m2", "m4", "key"},
         UNCHANGED <<evq, ap_connected, ptk, link, trying, curMode>>,
         cc.live \/ told' = told
  PROVE  /\ ConnectionInv' /\ ModeInv' /\ OrderInv' /\ TurnInv'
         /\ \A i \in DOMAIN cmdq' : cmdq'[i].live =>
              /\ cmdq'[i].k = "m2" => (cmdq'[i].ok => ptk)
              /\ cmdq'[i].k = "m4" => ptk
              /\ cmdq'[i].k = "key" => cmdq'[i].ok
         /\ cc = cmdq[1] /\ 1 \in DOMAIN cmdq
         /\ \A i \in DOMAIN cmdq : i # 1 => i - 1 \in DOMAIN cmdq' /\ cmdq'[i - 1] = cmdq[i]
         /\ told = "done" => cc.live
<1> USE DEF CardInv
<1>1. cmdq \in Seq(Commands)
  BY DEF TypeInv, QueuesOK
<1>2. /\ cc = cmdq[1] /\ 1 \in DOMAIN cmdq
      /\ \A i \in DOMAIN cmdq' : i + 1 \in DOMAIN cmdq /\ cmdq'[i] = cmdq[i + 1] /\ i \in Nat
      /\ \A i \in DOMAIN cmdq : i \in Nat /\ (i # 1 => i - 1 \in DOMAIN cmdq' /\ cmdq'[i - 1] = cmdq[i])
  BY <1>1, TailFacts DEF cc
<1>3. /\ \A i \in DOMAIN cmdq' : LastAbout(cmdq', i) => LastAbout(cmdq, i + 1)
      /\ NoneAbout(cmdq') => IF About(cmdq, 1) THEN LastAbout(cmdq, 1) ELSE NoneAbout(cmdq)
      /\ StaleFirst(cmdq) => StaleFirst(cmdq')
      /\ AllStale(cmdq) => AllStale(cmdq')
      /\ NoneStale(cmdq) => NoneStale(cmdq')
      /\ StaleFirst(cmdq) /\ Live(cmdq, 1) => NoneStale(cmdq)
  BY <1>1, TailKeeps
<1>4. IF cc.live THEN Live(cmdq, 1) ELSE Stale(cmdq, 1)
  BY <1>2 DEF Live, Stale, Handshake
<1>5. told = "done" => cc.live
  BY <1>2, <1>4 DEF OrderInv, NoneStale
<1>6. ConnectionInv'
  BY DEF ConnectionInv
<1>7. ModeInv'
  <2>1. ~ About(cmdq, 1)
    BY <1>2 DEF About
  <2>2. QED
    BY <1>2, <1>3, <2>1 DEF ModeInv
<1>8. OrderInv'
  <2>1. ~ AllStale(cmdq') => ~ AllStale(cmdq)
    BY <1>3
  <2>2. cc.live => ~ AllStale(cmdq) /\ NoneStale(cmdq)
    BY <1>2, <1>3, <1>4 DEF OrderInv, AllStale
  <2>3. StaleFirst(evq') /\ StaleFirst(cmdq')
    BY <1>3 DEF OrderInv
  <2>4. told' # "none" \/ ptk' \/ ~ AllStale(cmdq') => NoneStale(evq')
    BY <2>1, <2>2 DEF OrderInv
  <2>5. told' = "done" => NoneStale(cmdq')
    BY <1>3, <2>2 DEF OrderInv
  <2>6. link' = NoAp => told' = "none" /\ ~ ptk' /\ AllStale(evq') /\ AllStale(cmdq')
    BY <2>1, <2>2 DEF OrderInv
  <2>7. QED
    BY <2>3, <2>4, <2>5, <2>6 DEF OrderInv
<1>9. TurnInv'
  BY <1>2 DEF TurnInv, Asks, Answers
<1>10. ASSUME NEW i \in DOMAIN cmdq', cmdq'[i].live
       PROVE  /\ cmdq'[i].k = "m2" => (cmdq'[i].ok => ptk)
              /\ cmdq'[i].k = "m4" => ptk
              /\ cmdq'[i].k = "key" => cmdq'[i].ok
  BY <1>2, <1>10 DEF KeyInv
<1>11. QED
  BY <1>2, <1>5, <1>6, <1>7, <1>8, <1>9, <1>10

(* After message 4 the card is given keys of this connection only.          *)
LEMMA CardKeyKeeps ==
  ASSUME TypeInv, CardInv, CardKey
  PROVE  CardInv'
<1>1. /\ cmdq # <<>> /\ cc.k = "key" /\ cmdq' = Tail(cmdq) /\ keyed' = (cc.live /\ cc.ok)
      /\ UNCHANGED <<evq, ap_connected, ptk, link, trying, told, curMode>>
  BY DEF CardKey, Serve, cardRest
<1>2. /\ ConnectionInv' /\ ModeInv' /\ OrderInv' /\ TurnInv'
      /\ \A i \in DOMAIN cmdq' : cmdq'[i].live =>
           /\ cmdq'[i].k = "m2" => (cmdq'[i].ok => ptk)
           /\ cmdq'[i].k = "m4" => ptk
           /\ cmdq'[i].k = "key" => cmdq'[i].ok
      /\ cc = cmdq[1] /\ 1 \in DOMAIN cmdq
      /\ told = "done" => cc.live
  BY <1>1, AnswerServed
<1>3. KeyInv'
  BY <1>1, <1>2 DEF CardInv, KeyInv
<1>4. QED
  BY <1>2, <1>3 DEF CardInv

(* The access point accepts message 2 if the PTK is right, and message 4,   *)
(* behind which the key is on its way to the card.                          *)
LEMMA CardSendsKeeps ==
  ASSUME TypeInv, CardInv, CardSends
  PROVE  CardInv'
<1>1. /\ cmdq # <<>> /\ cc.k \in {"m2", "m4"} /\ cmdq' = Tail(cmdq)
      /\ UNCHANGED <<evq, ap_connected, ptk, link, trying, keyed, curMode>>
  BY DEF CardSends, Serve, cardRest
<1>2. \/ told' = told
      \/ cc.live /\ cc.k = "m4" /\ told' = "done"
      \/ cc.live /\ cc.k = "m2" /\ cc.ok /\ told # "done" /\ told' = "sent3"
      \/ cc.live /\ cc.k = "m2" /\ told # "done" /\ told' = "refused"
  BY <1>1 DEF CardSends
<1>3. /\ ConnectionInv' /\ ModeInv' /\ OrderInv' /\ TurnInv'
      /\ \A i \in DOMAIN cmdq' : cmdq'[i].live =>
           /\ cmdq'[i].k = "m2" => (cmdq'[i].ok => ptk)
           /\ cmdq'[i].k = "m4" => ptk
           /\ cmdq'[i].k = "key" => cmdq'[i].ok
      /\ cc = cmdq[1] /\ 1 \in DOMAIN cmdq
      /\ \A i \in DOMAIN cmdq : i # 1 => i - 1 \in DOMAIN cmdq' /\ cmdq'[i - 1] = cmdq[i]
  BY <1>1, <1>2, AnswerServed
<1>4. told' \in {"sent3", "done"} => ptk
  BY <1>2, <1>3 DEF CardInv, KeyInv
<1>5. ASSUME NEW i \in DOMAIN evq, evq[i].live
      PROVE  /\ evq[i].k = "m1" => told' \in {"none", "refused"}
             /\ evq[i].k = "m3" => ptk
             /\ evq[i].k = "group" => told' = "done"
  <2>1. told' # told => ~ Asks(evq, i)
    BY <1>1, <1>2, <1>3 DEF CardInv, TurnInv, Answers
  <2>2. told = "done" => told' = "done"
    BY <1>2
  <2>3. QED
    BY <1>5, <2>1, <2>2 DEF CardInv, KeyInv, Asks
<1>7. KeyInv'
  BY <1>1, <1>3, <1>4, <1>5 DEF KeyInv
<1>8. QED
  BY <1>3, <1>7 DEF CardInv

(* The card reports something that is not about the handshake.              *)
LEMMA ReportKeeps ==
  ASSUME TypeInv, CardInv,
         NEW x \in Events, x.k \in {"connect", "disconnect", "error"}, evq' = Append(evq, x),
         UNCHANGED <<ap_connected, ptk, cmdq, keyed, told, curMode>>,
         x.k = "connect" => link' # NoAp,
         x.k = "disconnect" => link' = NoAp /\ link = NoAp,
         x.k = "error" => link' = link,
         trying' # NoAp => link' = NoAp,
         trying' = NoAp \/ trying' = trying,
         trying = NoAp => link' = link
  PROVE  CardInv'
<1> USE DEF CardInv
<1>1. evq \in Seq(Events)
  BY DEF TypeInv, QueuesOK
<1>2. x.k \notin Handshake
  BY DEF Handshake
<1>3. /\ StaleFirst(evq) => StaleFirst(evq')
      /\ AllStale(evq) => AllStale(evq')
      /\ NoneStale(evq) => NoneStale(evq')
  BY <1>1, <1>2, AppendKeeps
<1>4. /\ \A i \in DOMAIN evq : i \in DOMAIN evq' /\ evq'[i] = evq[i]
      /\ \A i \in DOMAIN evq' : i \in DOMAIN evq \/ evq'[i] = x
  BY <1>1, AppendFacts
<1>5. ConnectionInv'
  <2>1. CASE x.k = "error"
    <3>1. /\ NoneAbout(evq') => NoneAbout(evq)
          /\ \A i \in DOMAIN evq' : LastAbout(evq', i) => LastAbout(evq, i) /\ evq'[i] = evq[i]
      BY <1>1, <2>1, AppendKeeps
    <3>2. QED
      BY <2>1, <3>1 DEF ConnectionInv, LastAbout
  <2>2. CASE x.k # "error"
    <3>1. ~ NoneAbout(evq') /\ \A i : LastAbout(evq', i) => evq'[i] = x
      BY <1>1, <2>2, AppendKeeps
    <3>2. QED
      BY <2>2, <3>1 DEF ConnectionInv
  <2>3. QED
    BY <2>1, <2>2
<1>6. ModeInv'
  BY DEF ModeInv
<1>7. OrderInv'
  <2>1. link' = NoAp => link = NoAp
    OBVIOUS
  <2>2. QED
    BY <1>3, <2>1 DEF OrderInv
<1>8. TurnInv'
  <2>1. \A i \in DOMAIN evq' : Asks(evq', i) => i \in DOMAIN evq /\ Asks(evq, i)
    BY <1>4 DEF Asks
  <2>2. QED
    BY <2>1 DEF TurnInv, Answers
<1>9. KeyInv'
  BY <1>4 DEF KeyInv
<1>10. QED
  BY <1>5, <1>6, <1>7, <1>8, <1>9

(* The access point sends a message of the handshake when it is its turn.   *)
LEMMA MessageKeeps ==
  ASSUME TypeInv, CardInv,
         NEW x \in Events, x.k \in {"m1", "m3", "group"}, x.live, evq' = Append(evq, x),
         UNCHANGED <<ap_connected, ptk, cmdq, link, trying, keyed, told, curMode>>,
         link # NoAp,
         x.k \in {"m1", "m3"} =>
           (\A i \in DOMAIN evq : ~ Asks(evq, i)) /\ \A i \in DOMAIN cmdq : ~ Answers(cmdq, i),
         x.k = "m1" => told \in {"none", "refused"},
         x.k = "m3" => ptk,
         x.k = "group" => told = "done"
  PROVE  CardInv'
<1> USE DEF CardInv
<1>1. evq \in Seq(Events)
  BY DEF TypeInv, QueuesOK
<1>2. x.k \in Handshake /\ x.k \notin {"connect", "disconnect"}
  BY DEF Handshake
<1>3. /\ StaleFirst(evq) => StaleFirst(evq')
      /\ NoneStale(evq) => NoneStale(evq')
  BY <1>1, <1>2, AppendKeeps
<1> DEFINE n == Len(evq) + 1
<1>5. /\ \A i \in DOMAIN evq : i \in DOMAIN evq' /\ evq'[i] = evq[i]
      /\ \A i \in DOMAIN evq' : i \in DOMAIN evq \/ (i = n /\ evq'[i] = x)
  BY <1>1, AppendFacts
<1> HIDE DEF n
<1>6. ConnectionInv'
  <2>1. /\ NoneAbout(evq') => NoneAbout(evq)
        /\ \A i \in DOMAIN evq' : LastAbout(evq', i) => LastAbout(evq, i) /\ evq'[i] = evq[i]
    BY <1>1, <1>2, AppendKeeps
  <2>2. QED
    BY <2>1 DEF ConnectionInv, LastAbout
<1>7. ModeInv'
  BY DEF ModeInv
<1>8. OrderInv'
  BY <1>3 DEF OrderInv
<1>9. TurnInv'
  <2>1. \A i \in DOMAIN evq : Asks(evq', i) <=> Asks(evq, i)
    BY <1>5 DEF Asks
  <2>2. ASSUME NEW i \in DOMAIN evq', NEW j \in DOMAIN evq', Asks(evq', i), Asks(evq', j) PROVE i = j
    BY <1>5, <2>1, <2>2 DEF TurnInv, Asks
  <2>3. ASSUME NEW i \in DOMAIN evq', NEW j \in DOMAIN cmdq, Asks(evq', i), Answers(cmdq, j) PROVE FALSE
    BY <1>5, <2>1, <2>3 DEF TurnInv, Asks
  <2>4. QED
    BY <2>2, <2>3 DEF TurnInv, Answers
<1>10. KeyInv'
  BY <1>5 DEF KeyInv
<1>11. QED
  BY <1>6, <1>7, <1>8, <1>9, <1>10

(* Every report, message and loss                                           *)
LEMMA EnvironmentKeeps ==
  ASSUME TypeInv, CardInv, Environment
  PROVE  CardInv'
<1>1. ASSUME NEW k \in {"connect", "disconnect", "error", "m1", "m3", "group"}, NEW ap \in Ap \cup {NoAp}
      PROVE  Event(k, ap) \in Events /\ Event(k, ap).k = k /\ Event(k, ap).live
  BY DEF Event, Events
<1>2. link \in Ap \cup {NoAp} /\ NoAp \notin Wpa2
  BY TwlAssumption DEF TypeInv, TypeOK
<1>3. CASE CardLinks
  <2>1. PICK x \in Events : x = Event("connect", NoAp)
    BY <1>1
  <2>2. /\ x.k = "connect" /\ evq' = Append(evq, x)
        /\ UNCHANGED <<ap_connected, ptk, cmdq, keyed, told, curMode>>
        /\ trying # NoAp /\ link' = trying /\ trying' = NoAp
    BY <1>1, <1>3, <2>1 DEF CardLinks, cardRest
  <2>3. QED
    BY <2>2, ReportKeeps
<1>4. CASE CardFails
  <2>1. PICK x \in Events : x = Event("disconnect", NoAp)
    BY <1>1
  <2>2. /\ x.k = "disconnect" /\ evq' = Append(evq, x)
        /\ UNCHANGED <<ap_connected, ptk, cmdq, link, keyed, told, curMode>>
        /\ trying # NoAp /\ trying' = NoAp
    BY <1>1, <1>4, <2>1 DEF CardFails, cardRest
  <2>3. link = NoAp
    BY <2>2 DEF CardInv, ConnectionInv
  <2>4. QED
    BY <2>2, <2>3, ReportKeeps
<1>5. CASE CardError
  <2>1. PICK x \in Events : x = Event("error", NoAp)
    BY <1>1
  <2>2. /\ x.k = "error" /\ evq' = Append(evq, x)
        /\ UNCHANGED <<ap_connected, ptk, cmdq, link, trying, keyed, told, curMode>>
    BY <1>1, <1>5, <2>1 DEF CardError, cardRest
  <2>3. trying # NoAp => link = NoAp
    BY DEF CardInv, ConnectionInv
  <2>4. QED
    BY <2>2, <2>3, ReportKeeps
<1>6. CASE ApGroup
  <2>1. PICK x \in Events : x = Event("group", link)
    BY <1>1, <1>2
  <2>2. /\ x.k = "group" /\ x.live /\ evq' = Append(evq, x) /\ link # NoAp /\ told = "done"
        /\ UNCHANGED <<ap_connected, ptk, cmdq, link, trying, keyed, told, curMode>>
    BY <1>1, <1>2, <1>6, <2>1 DEF ApGroup, cardRest
  <2>3. QED
    BY <2>2, MessageKeeps
<1>7. ASSUME NEW k \in {"m1", "m3"}, ApMessage(k)
      PROVE  CardInv'
  <2>1. PICK x \in Events : x = Event(k, link)
    BY <1>1, <1>2
  <2>2. /\ x.k = k /\ x.live /\ evq' = Append(evq, x) /\ link # NoAp
        /\ UNCHANGED <<ap_connected, ptk, cmdq, link, trying, keyed, told, curMode>>
    BY <1>1, <1>2, <1>7, <2>1 DEF ApMessage, cardRest, cardVars
  <2>3. (\A i \in DOMAIN evq : ~ Asks(evq, i)) /\ \A i \in DOMAIN cmdq : ~ Answers(cmdq, i)
    BY <1>7 DEF ApMessage, Has, Asks, Answers
  <2>4. /\ k = "m1" => told \in {"none", "refused"}
        /\ k = "m3" => ptk
    BY <1>7 DEF ApMessage, CardInv, KeyInv
  <2>5. QED
    BY <2>2, <2>3, <2>4, MessageKeeps
<1>8. ASSUME NEW ap \in Ap, OnBssInfo(ap)
      PROVE  CardInv'
  BY <1>8, QuietKeeps DEF OnBssInfo, scanRest, linkVars, cardVars
<1>9. QED
  BY <1>3, <1>4, <1>5, <1>6, <1>7, <1>8, LinkLostKeeps DEF Environment

-----------------------------------------------------------------------------
(* Every step *)

(* The card starts anew: nothing is on its way and no connection exists.    *)
LEMMA StartKeeps ==
  ASSUME TypeInv, Start
  PROVE  CardInv'
<1>1. /\ cmdq' = <<>> /\ evq' = <<Event("regdomain", NoAp)>>
      /\ link' = NoAp /\ trying' = NoAp /\ told' = "none"
      /\ ap_connected' = FALSE /\ ptk' = FALSE /\ curMode' = "initializing"
  BY DEF Start
<1>2. /\ DOMAIN cmdq' = {} /\ DOMAIN evq' = {1} /\ evq'[1].k = "regdomain"
  BY <1>1 DEF Event
<1>3. ConnectionInv' /\ ModeInv'
  BY <1>1, <1>2 DEF ConnectionInv, ModeInv, LastAbout, About
<1>4. OrderInv'
  BY <1>1, <1>2 DEF OrderInv, StaleFirst, AllStale, NoneStale, Live, Stale, Handshake
<1>5. TurnInv' /\ KeyInv'
  BY <1>1, <1>2 DEF TurnInv, KeyInv, Asks, Answers
<1>6. QED
  BY <1>3, <1>4, <1>5 DEF CardInv

(* Wifi_TWL_Update connects when it enters a mode with a connection and     *)
(* disconnects when it leaves one.                                          *)
LEMMA UpdateKeeps ==
  ASSUME TypeInv, CardInv, Wifi_TWL_Update \/ Calculate
  PROVE  CardInv'
<1> USE DEF Linked
<1>1. CASE Initialized \/ Stop \/ StopScan \/ NoWfcKey \/ ConnectionMade \/ BackToNormal \/ ScanTick
  BY <1>1, QuietKeeps DEF Initialized, Stop, StopScan, NoWfcKey, ConnectionMade, BackToNormal, ScanTick,
                          linkVars, cardVars
<1>2. CASE StartScan \/ ConnectAgain \/ ConnectCalculates \/ PmkFirstBlock
  BY <1>2, QuietKeeps DEF StartScan, ConnectAgain, ConnectCalculates, PmkFirstBlock, Connectable,
                          linkVars, cardVars
<1>3. curAp \in Ap \cup {NoAp}
  BY DEF TypeInv, TypeOK
<1>4. CASE Connect \/ PmkReady
  <2>1. PICK x \in Commands : x = Command("connect", curAp, TRUE)
    BY <1>3 DEF Command, Commands
  <2>2. x.k = "connect"
    BY <2>1 DEF Command
  <2>3. /\ cmdq' = Append(cmdq, x) /\ curMode' = "connecting"
        /\ UNCHANGED <<ap_connected, ptk, evq, link, trying, keyed, told>>
    BY <1>4, <2>1 DEF Connect, PmkReady, SendConnect, cardVars
  <2>4. QED
    BY <2>2, <2>3, CommandKeeps
<1>5. CASE ConnectionFails \/ StopConnecting \/ ConnectionLost \/ Disconnect
  <2>1. PICK x \in Commands : x = Command("disconnect", NoAp, TRUE)
    BY DEF Command, Commands
  <2>2. x.k = "disconnect"
    BY <2>1 DEF Command
  <2>3. /\ cmdq' = Append(cmdq, x)
        /\ UNCHANGED <<ap_connected, ptk, evq, link, trying, keyed, told>>
    BY <1>5, <2>1 DEF ConnectionFails, StopConnecting, ConnectionLost, Disconnect,
                       wmi_disconnect_cmd, cardVars
  <2>4. QED
    BY <2>2, <2>3, CommandKeeps
<1>6. QED
  BY <1>1, <1>2, <1>4, <1>5, StartKeeps DEF Wifi_TWL_Update, Calculate

(* Error 8: the card is told to disconnect, in any mode.                    *)
LEMMA TargetErrorKeeps ==
  ASSUME TypeInv, CardInv, OnTargetError
  PROVE  CardInv'
<1> USE DEF CardInv
<1>1. /\ evq # <<>> /\ evq' = Tail(evq) /\ e.k = "error" /\ evq \in Seq(Events) /\ cmdq \in Seq(Commands)
      /\ UNCHANGED <<ap_connected, ptk, link, trying, keyed, told, curMode>>
  BY DEF OnTargetError, Take, cardVars, TypeInv, QueuesOK
<1>2. PICK x \in Commands : x = Command("disconnect", NoAp, TRUE)
  BY DEF Command, Commands
<1>3. x.k = "disconnect" /\ cmdq' = Append(cmdq, x)
  BY <1>2 DEF Command, OnTargetError, wmi_disconnect_cmd
<1>4. /\ e = evq[1]
      /\ \A i \in DOMAIN evq' : i + 1 \in DOMAIN evq /\ evq'[i] = evq[i + 1] /\ i \in Nat
  BY <1>1, TailFacts DEF e
<1>5. /\ \A i \in DOMAIN evq' : LastAbout(evq', i) => LastAbout(evq, i + 1)
      /\ NoneAbout(evq') => IF About(evq, 1) THEN LastAbout(evq, 1) ELSE NoneAbout(evq)
      /\ StaleFirst(evq) => StaleFirst(evq')
      /\ AllStale(evq) => AllStale(evq')
      /\ NoneStale(evq) => NoneStale(evq')
  BY <1>1, TailKeeps
<1>6. x.k \notin Handshake
  BY <1>3 DEF Handshake
<1>7. ~ NoneAbout(cmdq') /\ \A i : LastAbout(cmdq', i) => cmdq'[i] = x
  BY <1>1, <1>3, AppendKeeps
<1>8. /\ StaleFirst(cmdq) => StaleFirst(cmdq')
      /\ AllStale(cmdq) => AllStale(cmdq')
      /\ NoneStale(cmdq) => NoneStale(cmdq')
  BY <1>1, <1>3, <1>6, AppendKeeps
<1>9. /\ \A i \in DOMAIN cmdq : i \in DOMAIN cmdq' /\ cmdq'[i] = cmdq[i]
      /\ \A i \in DOMAIN cmdq' : i \in DOMAIN cmdq \/ cmdq'[i] = x
  BY <1>1, <1>3, AppendFacts
<1>10. ConnectionInv'
  <2>1. ~ About(evq, 1)
    BY <1>1, <1>4 DEF About
  <2>2. QED
    BY <1>1, <1>4, <1>5, <2>1 DEF ConnectionInv
<1>11. ModeInv'
  BY <1>3, <1>7 DEF ModeInv
<1>12. OrderInv'
  <2>1. AllStale(cmdq) => AllStale(cmdq')
    BY <1>8
  <2>2. QED
    BY <1>1, <1>5, <1>8, <2>1 DEF OrderInv
<1>13. TurnInv'
  <2>1. \A j \in DOMAIN cmdq' : Answers(cmdq', j) => j \in DOMAIN cmdq /\ Answers(cmdq, j)
    BY <1>3, <1>9 DEF Answers
  <2>2. \A i \in DOMAIN evq' : Asks(evq', i) => i + 1 \in DOMAIN evq /\ Asks(evq, i + 1)
    BY <1>4 DEF Asks
  <2>3. ASSUME NEW i \in DOMAIN evq', NEW j \in DOMAIN evq', Asks(evq', i), Asks(evq', j) PROVE i = j
    <3>1. i + 1 = j + 1
      BY <2>2, <2>3 DEF TurnInv
    <3>2. QED
      BY <1>4, <3>1
  <2>4. QED
    BY <2>1, <2>2, <2>3 DEF TurnInv
<1>14. KeyInv'
  BY <1>1, <1>3, <1>4, <1>9 DEF KeyInv
<1>15. QED
  BY <1>10, <1>11, <1>12, <1>13, <1>14

(* Every event                                                              *)
LEMMA InterruptKeeps ==
  ASSUME TypeInv, CardInv, CardInterrupt
  PROVE  CardInv'
<1>1. CASE OnRegDomain
  BY <1>1, EventKeeps DEF OnRegDomain, Take, linkVars, cardVars
<1>2. CASE OnConnect \/ OnDisconnect
  BY <1>2, EventKeeps DEF OnConnect, OnDisconnect, Take, cardVars
<1>3. QED
  BY <1>1, <1>2, TargetErrorKeeps, Message1Keeps, Message3Keeps, GroupMessageKeeps DEF CardInterrupt

(* The ARM9 and the scan touch neither the queues nor the card.             *)
LEMMA Arm9Keeps ==
  ASSUME CardInv, Arm9 \/ Scanning
  PROVE  CardInv'
<1>1. UNCHANGED <<ap_connected, ptk, cmdq, evq, link, trying, keyed, told, curMode>>
  BY DEF Arm9, ConnectAP, ScanMode, FoundAp, Request, Scanning, OnChannelList, OnScanComplete,
         arm7Rest, arm7Busy, scanRest, linkVars, cardVars
<1>2. QED
  BY <1>1, QuietKeeps

-----------------------------------------------------------------------------
(* What was asked for *)

(* A step that neither sends commands nor changes what the card is          *)
(* connected to                                                             *)
LEMMA AskedQuiet ==
  ASSUME CardInv, AskedInv, UNCHANGED <<cmdq, link, told, keyed>>,
         \A i \in DOMAIN evq' : Live(evq', i) => link \in Wpa2,
         trying' \in {trying, NoAp},
         curMode' \in Linked /\ ~ unseen' => (curMode \in Linked => ~ unseen) /\ curAp' = curAp
  PROVE  AskedInv'
<1>1. WpaInv'
  BY DEF WpaInv
<1>2. CASE curMode \in Linked
  <2>1. curMode' \in Linked /\ ~ unseen' => ~ unseen /\ curAp' = curAp
    BY <1>2
  <2>2. ApInv'
    BY <1>2, <2>1 DEF AskedInv, ApInv, Sound
  <2>3. LoadInv'
    BY <1>2, <2>1 DEF AskedInv, LoadInv, Sound, Follows
  <2>4. QED
    BY <1>1, <2>2, <2>3 DEF AskedInv
<1>3. CASE curMode \notin Linked
  <2>1. /\ \A i \in DOMAIN cmdq : LastAbout(cmdq, i) => cmdq[i].k = "disconnect"
        /\ NoneAbout(cmdq) => link = NoAp /\ trying = NoAp
    BY <1>3 DEF CardInv, ModeInv
  <2>2. NoneAbout(cmdq) => told = "none" /\ AllStale(cmdq)
    BY <2>1 DEF CardInv, OrderInv
  <2>3. ApInv'
    BY <2>1 DEF ApInv, Sound
  <2>4. LoadInv'
    BY <2>2 DEF LoadInv, Sound, AllStale, Live, Handshake
  <2>5. QED
    BY <1>1, <2>3, <2>4 DEF AskedInv
<1>4. QED
  BY <1>2, <1>3

(* Without a connection there is no handshake.                              *)
LEMMA AskedNoLink ==
  ASSUME CardInv', link' = NoAp, ApInv'
  PROVE  AskedInv'
<1>1. told' = "none" /\ AllStale(evq)' /\ AllStale(cmdq)'
  BY DEF CardInv, OrderInv
<1>2. WpaInv'
  BY <1>1 DEF WpaInv, AllStale
<1>3. LoadInv'
  BY <1>1 DEF LoadInv, AllStale, Live, Handshake
<1>4. QED
  BY <1>2, <1>3 DEF AskedInv

(* A command about a connection is for curAp.                               *)
LEMMA AskedCommand ==
  ASSUME TypeInv, AskedInv, NEW x \in Commands, x.k \in {"connect", "disconnect"},
         x.k = "connect" => x.ap = curAp, cmdq' = Append(cmdq, x), UNCHANGED <<curAp, link>>,
         \A i \in DOMAIN evq' : Live(evq', i) => link \in Wpa2
  PROVE  AskedInv'
<1>1. ~ NoneAbout(cmdq') /\ \A i : LastAbout(cmdq', i) => cmdq'[i] = x
  BY AppendKeeps DEF TypeInv, QueuesOK
<1>2. ApInv' /\ LoadInv'
  BY <1>1 DEF ApInv, LoadInv, Sound
<1>3. WpaInv'
  BY DEF WpaInv
<1>4. QED
  BY <1>2, <1>3 DEF AskedInv

(* What the loss of the connection does to the commands about it            *)
LEMMA DeadAbout ==
  ASSUME NEW q \in Seq(Commands)
  PROVE  /\ NoneAbout(Dead(q)) => NoneAbout(q)
         /\ \A i \in DOMAIN Dead(q) : LastAbout(Dead(q), i) => LastAbout(q, i) /\ Dead(q)[i] = q[i]
<1>1. NoneAbout(Dead(q)) => NoneAbout(q)
  BY DeadKeeps
<1>2. ASSUME NEW i \in DOMAIN Dead(q), LastAbout(Dead(q), i)
      PROVE  LastAbout(q, i) /\ Dead(q)[i] = q[i]
  <2>1. LastAbout(q, i)
    BY <1>2, DeadKeeps
  <2>2. i \in DOMAIN q /\ q[i].k \notin Handshake
    BY <2>1 DEF LastAbout, About, Handshake
  <2>3. QED
    BY <2>1, <2>2, DeadFacts
<1>3. QED
  BY <1>1, <1>2

(* The card obeys the first command, which is about a connection.           *)
LEMMA AskedServed ==
  ASSUME TypeInv, CardInv, AskedInv, CardInv', CardConnect \/ CardDisconnect
  PROVE  AskedInv'
<1>1. /\ cmdq # <<>> /\ cmdq \in Seq(Commands) /\ cc.k \in {"connect", "disconnect"}
      /\ UNCHANGED <<curMode, unseen, curAp>>
      /\ cmdq' = Tail(cmdq) \/ cmdq' = Dead(Tail(cmdq))
      /\ link' = NoAp
      /\ trying' # NoAp => cc.k = "connect" /\ trying' = cc.ap
  BY DEF CardConnect, CardDisconnect, LinkEnds, cardRest, arm9Vars, shared, TypeInv, QueuesOK
<1> DEFINE t == Tail(cmdq)
<1>2. /\ cc = cmdq[1] /\ 1 \in DOMAIN cmdq /\ t \in Seq(Commands)
      /\ \A i \in DOMAIN t : i + 1 \in DOMAIN cmdq /\ t[i] = cmdq[i + 1]
  BY <1>1, TailFacts DEF cc
<1>3. /\ \A i \in DOMAIN t : LastAbout(t, i) => LastAbout(cmdq, i + 1)
      /\ NoneAbout(t) => IF About(cmdq, 1) THEN LastAbout(cmdq, 1) ELSE NoneAbout(cmdq)
  BY <1>1, TailKeeps
<1> HIDE DEF t
<1>4. cmdq' = t \/ cmdq' = Dead(t)
  BY <1>1 DEF t
<1>5. /\ NoneAbout(cmdq') => NoneAbout(t)
      /\ \A i \in DOMAIN cmdq' : LastAbout(cmdq', i) => LastAbout(t, i) /\ cmdq'[i] = t[i]
  <2>1. CASE cmdq' = t
    BY <2>1
  <2>2. CASE cmdq' = Dead(t)
    BY <1>2, <2>2, DeadAbout
  <2>3. QED
    BY <1>4, <2>1, <2>2
<1>6. ASSUME NEW i \in DOMAIN cmdq', LastAbout(cmdq', i)
      PROVE  i + 1 \in DOMAIN cmdq /\ LastAbout(cmdq, i + 1) /\ cmdq'[i] = cmdq[i + 1]
  <2>1. i \in DOMAIN t /\ LastAbout(t, i) /\ cmdq'[i] = t[i]
    BY <1>5, <1>6 DEF LastAbout
  <2>2. QED
    BY <1>2, <1>3, <2>1
<1>7. NoneAbout(cmdq') => LastAbout(cmdq, 1)
  BY <1>1, <1>2, <1>3, <1>5 DEF About
<1>8. ApInv'
  <2>1. ASSUME curMode \in Linked, ~ unseen, NEW i \in DOMAIN cmdq', LastAbout(cmdq', i),
               cmdq'[i].k = "connect"
        PROVE  cmdq'[i].ap = curAp
    BY <1>6, <2>1 DEF AskedInv, ApInv
  <2>2. ASSUME curMode \in Linked, ~ unseen, NoneAbout(cmdq'), trying' # NoAp
        PROVE  trying' = curAp
    BY <1>1, <1>2, <1>7, <2>2 DEF AskedInv, ApInv
  <2>3. QED
    BY <1>1, <2>1, <2>2 DEF ApInv, Sound
<1>9. QED
  BY <1>1, <1>8, AskedNoLink

(* A lost connection; the card tries the same access point again, if any.   *)
LEMMA AskedLost ==
  ASSUME TypeInv, AskedInv, CardInv', NEW again \in BOOLEAN, LinkLost(again)
  PROVE  AskedInv'
<1>1. /\ cmdq \in Seq(Commands) /\ cmdq' = Dead(cmdq) /\ link # NoAp /\ link' = NoAp
      /\ UNCHANGED <<curMode, unseen, curAp>>
      /\ trying' \in {link, NoAp}
  BY DEF LinkLost, LinkEnds, cardRest, arm9Vars, shared, TypeInv, QueuesOK
<1>2. /\ NoneAbout(cmdq') => NoneAbout(cmdq)
      /\ \A i \in DOMAIN cmdq' : LastAbout(cmdq', i) => LastAbout(cmdq, i) /\ cmdq'[i] = cmdq[i]
  BY <1>1, DeadAbout
<1>3. ApInv'
  BY <1>1, <1>2 DEF AskedInv, ApInv, Sound, LastAbout
<1>4. QED
  BY <1>1, <1>3, AskedNoLink

(* A connection is made.                                                    *)
LEMMA AskedLinks ==
  ASSUME TypeInv, CardInv, AskedInv, CardLinks
  PROVE  AskedInv'
<1>1. /\ trying # NoAp /\ link' = trying /\ trying' = NoAp
      /\ UNCHANGED <<curMode, unseen, curAp, cmdq, told, keyed>>
      /\ evq' = Append(evq, Event("connect", NoAp)) /\ evq \in Seq(Events)
  BY DEF CardLinks, cardRest, arm9Vars, shared, TypeInv, QueuesOK
<1>2. told = "none" /\ AllStale(evq) /\ AllStale(cmdq)
  BY <1>1 DEF CardInv, ConnectionInv, OrderInv
<1>3. PICK x \in Events : x = Event("connect", NoAp)
  BY DEF Event, Events
<1>4. AllStale(evq')
  <2>1. x.k \notin Handshake
    BY <1>3 DEF Event, Handshake
  <2>2. QED
    BY <1>1, <1>2, <1>3, <2>1, AppendKeeps
<1>5. WpaInv'
  BY <1>4 DEF WpaInv, AllStale
<1>6. LoadInv'
  BY <1>1, <1>2 DEF LoadInv, AllStale, Live, Handshake
<1>7. ApInv'
  BY <1>1 DEF AskedInv, ApInv, Sound
<1>8. QED
  BY <1>5, <1>6, <1>7 DEF AskedInv

(* Events that are left in the queue                                        *)
LEMMA AskedTail ==
  ASSUME TypeInv, AskedInv, evq # <<>>, evq' = Tail(evq)
  PROVE  /\ \A i \in DOMAIN evq' : Live(evq', i) => link \in Wpa2
         /\ e.k \in Handshake /\ e.live => link \in Wpa2
<1>1. /\ e = evq[1] /\ 1 \in DOMAIN evq
      /\ \A i \in DOMAIN evq' : i + 1 \in DOMAIN evq /\ evq'[i] = evq[i + 1]
  BY TailFacts DEF e, TypeInv, QueuesOK
<1>2. QED
  BY <1>1 DEF AskedInv, WpaInv, Live

(* The handlers of the messages send the answer and, if curAp is one with   *)
(* WPA2, the keys.                                                          *)
LEMMA AskedAnswer ==
  ASSUME TypeInv, CardInv, AskedInv, evq # <<>>, evq' = Tail(evq), e.k \in Handshake,
         UNCHANGED <<link, trying, told, keyed, curMode, unseen, curAp>>,
         NoneAbout(cmdq') => NoneAbout(cmdq),
         \A i \in DOMAIN cmdq' : LastAbout(cmdq', i) => LastAbout(cmdq, i) /\ cmdq'[i] = cmdq[i],
         \A i \in DOMAIN cmdq : i \in DOMAIN cmdq' /\ cmdq'[i] = cmdq[i],
         \A i \in DOMAIN cmdq' : i \in DOMAIN cmdq \/
           (cmdq'[i].k = "m4" /\ cmdq'[i].live => e.live /\ (curAp \in Wpa2 => Follows(cmdq', i)))
  PROVE  AskedInv'
<1>1. /\ \A i \in DOMAIN evq' : Live(evq', i) => link \in Wpa2
      /\ e.live => link \in Wpa2
  BY AskedTail
<1>2. WpaInv'
  BY <1>1 DEF WpaInv
<1>3. ApInv'
  BY DEF AskedInv, ApInv, Sound, LastAbout
<1>4. Sound' => Sound
  BY DEF Sound
<1>5. Sound /\ e.live => curAp \in Wpa2
  <2>1. NoAp \notin Wpa2
    BY TwlAssumption
  <2>2. QED
    BY <1>1, <2>1 DEF AskedInv, ApInv
<1>6. ASSUME Sound, NEW i \in DOMAIN cmdq', cmdq'[i].k = "m4", cmdq'[i].live
      PROVE  Follows(cmdq', i)
  <2>1. CASE i \in DOMAIN cmdq
    <3>1. Follows(cmdq, i)
      BY <1>6, <2>1 DEF AskedInv, LoadInv
    <3>2. QED
      BY <3>1 DEF Follows
  <2>2. CASE i \notin DOMAIN cmdq
    BY <1>5, <1>6, <2>2
  <2>3. QED
    BY <2>1, <2>2
<1>7. ASSUME Sound, told = "done"
      PROVE  keyed \/ \E i \in DOMAIN cmdq' : cmdq'[i].k = "key" /\ cmdq'[i].live
  BY <1>7 DEF AskedInv, LoadInv
<1>8. LoadInv'
  BY <1>4, <1>6, <1>7 DEF LoadInv
<1>9. QED
  BY <1>2, <1>3, <1>8 DEF AskedInv

(* The card takes a key, or sends an answer.                                *)
LEMMA AskedSent ==
  ASSUME TypeInv, CardInv, AskedInv, cmdq # <<>>, cmdq' = Tail(cmdq), cc.k \in {"m2", "m4", "key"},
         UNCHANGED <<evq, link, trying, curMode, unseen, curAp>>,
         told' = "done" => told = "done" \/ (cc.k = "m4" /\ cc.live),
         cc.k = "key" /\ told = "done" => keyed',
         cc.k # "key" => (keyed => keyed')
  PROVE  AskedInv'
<1>1. /\ cc = cmdq[1] /\ 1 \in DOMAIN cmdq
      /\ \A i \in DOMAIN cmdq' : i \in Nat /\ i >= 1 /\ i + 1 \in DOMAIN cmdq /\ cmdq'[i] = cmdq[i + 1]
      /\ \A i \in DOMAIN cmdq : i \in Nat /\ (i # 1 => i - 1 \in DOMAIN cmdq' /\ cmdq'[i - 1] = cmdq[i])
  BY TailFacts DEF cc, TypeInv, QueuesOK
<1>2. /\ \A i \in DOMAIN cmdq' : LastAbout(cmdq', i) => LastAbout(cmdq, i + 1)
      /\ NoneAbout(cmdq') => IF About(cmdq, 1) THEN LastAbout(cmdq, 1) ELSE NoneAbout(cmdq)
  BY TailKeeps DEF TypeInv, QueuesOK
<1>3. NoneAbout(cmdq') => NoneAbout(cmdq)
  BY <1>1, <1>2 DEF About
<1>4. Sound' => Sound
  BY <1>3 DEF Sound
<1>5. ApInv'
  BY <1>1, <1>2, <1>3 DEF AskedInv, ApInv, Sound
<1>6. WpaInv'
  BY DEF AskedInv, WpaInv
<1>7. ASSUME Sound, NEW i \in DOMAIN cmdq', cmdq'[i].k = "m4", cmdq'[i].live
      PROVE  Follows(cmdq', i)
  <2>1. Follows(cmdq, i + 1)
    BY <1>1, <1>7 DEF AskedInv, LoadInv
  <2>2. PICK j \in DOMAIN cmdq : j > i + 1 /\ cmdq[j].k = "key" /\ cmdq[j].live
    BY <2>1 DEF Follows
  <2>3. j # 1 /\ j - 1 > i
    BY <1>1, <2>2
  <2>4. j - 1 \in DOMAIN cmdq' /\ cmdq'[j - 1].k = "key" /\ cmdq'[j - 1].live
    BY <1>1, <2>2, <2>3
  <2>5. QED
    BY <2>3, <2>4 DEF Follows
<1>8. ASSUME Sound, told' = "done"
      PROVE  keyed' \/ \E i \in DOMAIN cmdq' : cmdq'[i].k = "key" /\ cmdq'[i].live
  <2>1. CASE cc.k = "m4" /\ cc.live
    <3>1. Follows(cmdq, 1)
      BY <1>1, <1>8, <2>1 DEF AskedInv, LoadInv
    <3>2. PICK j \in DOMAIN cmdq : j > 1 /\ cmdq[j].k = "key" /\ cmdq[j].live
      BY <3>1 DEF Follows
    <3>3. j # 1
      BY <1>1, <3>2
    <3>4. j - 1 \in DOMAIN cmdq' /\ cmdq'[j - 1].k = "key" /\ cmdq'[j - 1].live
      BY <1>1, <3>2, <3>3
    <3>5. QED
      BY <3>4
  <2>2. CASE told = "done"
    <3>1. keyed \/ \E i \in DOMAIN cmdq : cmdq[i].k = "key" /\ cmdq[i].live
      BY <1>8, <2>2 DEF AskedInv, LoadInv
    <3>2. CASE cc.k = "key"
      BY <2>2, <3>2
    <3>3. CASE cc.k # "key"
      <4>1. ASSUME NEW i \in DOMAIN cmdq, cmdq[i].k = "key", cmdq[i].live
            PROVE  i - 1 \in DOMAIN cmdq' /\ cmdq'[i - 1].k = "key" /\ cmdq'[i - 1].live
        BY <1>1, <3>3, <4>1
      <4>2. QED
        BY <3>1, <3>3, <4>1
    <3>4. QED
      BY <3>2, <3>3
  <2>3. QED
    BY <1>8, <2>1, <2>2
<1>9. LoadInv'
  BY <1>4, <1>7, <1>8 DEF LoadInv
<1>10. QED
  BY <1>5, <1>6, <1>9 DEF AskedInv

(* Wifi_TWL_Update                                                          *)
LEMMA AskedUpdate ==
  ASSUME TypeInv, CardInv, AskedInv, CardInv', Wifi_TWL_Update \/ Calculate
  PROVE  AskedInv'
<1>1. \A i \in DOMAIN evq : Live(evq, i) => link \in Wpa2
  BY DEF AskedInv, WpaInv
<1>2. ASSUME UNCHANGED <<cmdq, link, told, keyed, evq, trying, curAp, unseen>>,
             curMode' \in Linked => curMode \in Linked \cup {"normal"}
      PROVE  AskedInv'
  BY <1>1, <1>2, AskedQuiet
<1>3. CASE Initialized \/ Stop \/ StopScan \/ NoWfcKey \/ ConnectionMade \/ BackToNormal \/ ScanTick
  BY <1>2, <1>3 DEF Initialized, Stop, StopScan, NoWfcKey, ConnectionMade, BackToNormal, ScanTick,
                    linkVars, cardVars, shared, arm9Vars, Linked
<1>4. CASE StartScan \/ ConnectAgain \/ ConnectCalculates \/ PmkFirstBlock
  BY <1>2, <1>4 DEF StartScan, ConnectAgain, ConnectCalculates, PmkFirstBlock, Connectable,
                    linkVars, cardVars, shared, arm9Vars, Linked
<1>5. curAp \in Ap \cup {NoAp}
  BY DEF TypeInv, TypeOK
<1>6. CASE Connect \/ PmkReady
  <2>1. PICK x \in Commands : x = Command("connect", curAp, TRUE)
    BY <1>5 DEF Command, Commands
  <2>2. x.k = "connect" /\ x.ap = curAp
    BY <2>1 DEF Command
  <2>3. cmdq' = Append(cmdq, x) /\ UNCHANGED <<evq, link, curAp>>
    BY <1>6, <2>1 DEF Connect, PmkReady, SendConnect, cardVars, shared
  <2>4. QED
    BY <1>1, <2>2, <2>3, AskedCommand
<1>7. CASE ConnectionFails \/ StopConnecting \/ ConnectionLost \/ Disconnect
  <2>1. PICK x \in Commands : x = Command("disconnect", NoAp, TRUE)
    BY DEF Command, Commands
  <2>2. x.k = "disconnect"
    BY <2>1 DEF Command
  <2>3. cmdq' = Append(cmdq, x) /\ UNCHANGED <<evq, link, curAp>>
    BY <1>7, <2>1 DEF ConnectionFails, StopConnecting, ConnectionLost, Disconnect,
                      wmi_disconnect_cmd, cardVars, shared
  <2>4. QED
    BY <1>1, <2>2, <2>3, AskedCommand
<1>8. CASE Start
  <2>1. link' = NoAp /\ curMode' \notin Linked
    BY <1>8 DEF Start, Linked
  <2>2. ApInv'
    BY <2>1 DEF ApInv, Sound
  <2>3. QED
    BY <2>1, <2>2, AskedNoLink
<1>9. QED
  BY <1>3, <1>4, <1>6, <1>7, <1>8 DEF Wifi_TWL_Update, Calculate

(* Events                                                                   *)
LEMMA AskedInterrupt ==
  ASSUME TypeInv, CardInv, AskedInv, CardInterrupt
  PROVE  AskedInv'
<1>1. /\ evq # <<>> /\ evq' = Tail(evq) /\ evq \in Seq(Events) /\ cmdq \in Seq(Commands)
      /\ UNCHANGED <<link, trying, told, keyed, curMode, unseen, curAp>>
  BY DEF CardInterrupt, OnRegDomain, OnConnect, OnDisconnect, OnTargetError, OnMessage1, OnMessage3,
         OnGroupMessage, Take, arm9Vars, shared, cardVars, TypeInv, QueuesOK
<1>2. \A i \in DOMAIN evq' : Live(evq', i) => link \in Wpa2
  BY <1>1, AskedTail
<1>3. CASE OnRegDomain \/ OnConnect \/ OnDisconnect
  <2>1. cmdq' = cmdq
    BY <1>3 DEF OnRegDomain, OnConnect, OnDisconnect
  <2>2. QED
    BY <1>1, <1>2, <2>1, AskedQuiet
<1>4. CASE OnTargetError
  <2>1. PICK x \in Commands : x = Command("disconnect", NoAp, TRUE)
    BY DEF Command, Commands
  <2>2. x.k = "disconnect"
    BY <2>1 DEF Command
  <2>3. cmdq' = Append(cmdq, x)
    BY <1>4, <2>1 DEF OnTargetError, wmi_disconnect_cmd
  <2>4. QED
    BY <1>1, <1>2, <2>2, <2>3, AskedCommand
<1>5. CASE OnMessage1
  <2>1. e.k = "m1" /\ e \in Events
    BY <1>1, <1>5, TailFacts DEF OnMessage1, Take, e
  <2>2. PICK x \in Commands : x.k = "m2" /\ cmdq' = Append(cmdq, x)
    <3>1. e.live \in BOOLEAN /\ e.ap \in Ap \cup {NoAp} /\ (pmk = PmkOf(e.ap)) \in BOOLEAN
      BY <2>1 DEF Events
    <3>2. [Command("m2", e.ap, pmk = PmkOf(e.ap)) EXCEPT !.live = e.live] \in Commands
      BY <3>1 DEF Command, Commands
    <3>3. [Command("m2", e.ap, pmk = PmkOf(e.ap)) EXCEPT !.live = e.live].k = "m2"
      BY DEF Command
    <3>4. QED
      BY <1>5, <3>2, <3>3 DEF OnMessage1
  <2>3. /\ NoneAbout(cmdq') => NoneAbout(cmdq)
        /\ \A i \in DOMAIN cmdq' : LastAbout(cmdq', i) => LastAbout(cmdq, i) /\ cmdq'[i] = cmdq[i]
    BY <1>1, <2>2, AnswerFacts
  <2>4. /\ \A i \in DOMAIN cmdq : i \in DOMAIN cmdq' /\ cmdq'[i] = cmdq[i]
        /\ \A i \in DOMAIN cmdq' : i \in DOMAIN cmdq \/ cmdq'[i].k # "m4"
    BY <1>1, <2>2, AppendFacts
  <2>5. e.k \in Handshake
    BY <2>1 DEF Handshake
  <2>6. QED
    BY <1>1, <2>3, <2>4, <2>5, AskedAnswer
<1>6. CASE OnMessage3
  <2>1. e.k \in Handshake
    BY <1>6 DEF OnMessage3, Take, Handshake
  <2>2. /\ NoneAbout(cmdq') => NoneAbout(cmdq)
        /\ \A i \in DOMAIN cmdq' : LastAbout(cmdq', i) => LastAbout(cmdq, i) /\ cmdq'[i] = cmdq[i]
        /\ \A i \in DOMAIN cmdq : i \in DOMAIN cmdq' /\ cmdq'[i] = cmdq[i]
        /\ \A i \in DOMAIN cmdq' :
             \/ i \in DOMAIN cmdq
             \/ /\ cmdq'[i].k = "m4" /\ cmdq'[i].live = e.live
                /\ e.live /\ curAp \in Wpa2 => Follows(cmdq', i)
             \/ cmdq'[i].k = "key" /\ cmdq'[i].live = e.live /\ cmdq'[i].ok = ptk
    BY <1>6, Message3Queue
  <2>3. ASSUME NEW i \in DOMAIN cmdq', i \notin DOMAIN cmdq, cmdq'[i].k = "m4", cmdq'[i].live
        PROVE  e.live /\ (curAp \in Wpa2 => Follows(cmdq', i))
    <3>1. cmdq'[i].live = e.live /\ (e.live /\ curAp \in Wpa2 => Follows(cmdq', i))
      BY <2>2, <2>3
    <3>2. QED
      BY <2>3, <3>1
  <2>4. QED
    BY <1>1, <2>1, <2>2, <2>3, AskedAnswer
<1>7. CASE OnGroupMessage
  <2>1. e.k \in Handshake /\ cmdq' = cmdq \o PostHandshake
    BY <1>7 DEF OnGroupMessage, Take, Handshake
  <2>2. /\ NoneAbout(cmdq') => NoneAbout(cmdq)
        /\ \A i \in DOMAIN cmdq' : LastAbout(cmdq', i) => LastAbout(cmdq, i) /\ cmdq'[i] = cmdq[i]
        /\ \A i \in DOMAIN cmdq : i \in DOMAIN cmdq' /\ cmdq'[i] = cmdq[i]
        /\ \A i \in DOMAIN cmdq' : i \in DOMAIN cmdq \/ cmdq'[i].k = "key"
    BY <1>1, <2>1, KeyQueued
  <2>3. QED
    BY <1>1, <2>1, <2>2, AskedAnswer
<1>8. QED
  BY <1>3, <1>4, <1>5, <1>6, <1>7 DEF CardInterrupt

(* The card                                                                 *)
LEMMA AskedCard ==
  ASSUME TypeInv, CardInv, AskedInv, CardInv', Card
  PROVE  AskedInv'
<1>1. CASE CardKey
  <2>1. /\ cmdq # <<>> /\ cmdq' = Tail(cmdq) /\ cc.k = "key" /\ keyed' = (cc.live /\ cc.ok)
        /\ UNCHANGED <<evq, ap_connected, ptk, link, trying, told, curMode, unseen, curAp>>
    BY <1>1 DEF CardKey, Serve, cardRest, arm9Vars, shared
  <2>2. told = "done" => keyed'
    <3>1. cc = cmdq[1] /\ 1 \in DOMAIN cmdq /\ (told = "done" => cc.live)
      BY <2>1, AnswerServed
    <3>2. QED
      BY <2>1, <3>1 DEF CardInv, KeyInv
  <2>3. QED
    BY <2>1, <2>2, AskedSent
<1>2. CASE CardSends
  <2>1. /\ cmdq # <<>> /\ cmdq' = Tail(cmdq) /\ cc.k \in {"m2", "m4"} /\ keyed' = keyed
        /\ UNCHANGED <<evq, link, trying, curMode, unseen, curAp>>
    BY <1>2 DEF CardSends, Serve, cardRest, arm9Vars, shared
  <2>2. told' = "done" => told = "done" \/ (cc.k = "m4" /\ cc.live)
    BY <1>2, <2>1 DEF CardSends
  <2>3. QED
    BY <2>1, <2>2, AskedSent
<1>3. QED
  BY <1>1, <1>2, AskedServed DEF Card

(* Reports, messages and losses                                             *)
LEMMA AskedEnvironment ==
  ASSUME TypeInv, CardInv, AskedInv, CardInv', Environment
  PROVE  AskedInv'
<1>1. /\ evq \in Seq(Events) /\ link \in Ap \cup {NoAp}
      /\ \A i \in DOMAIN evq : Live(evq, i) => link \in Wpa2
  BY DEF TypeInv, TypeOK, QueuesOK, AskedInv, WpaInv
<1>2. ASSUME NEW x \in Events, evq' = Append(evq, x), x.k \in Handshake => link \in Wpa2,
             UNCHANGED <<cmdq, link, told, keyed, curMode, unseen, curAp>>, trying' \in {trying, NoAp}
      PROVE  AskedInv'
  <2>1. /\ \A i \in DOMAIN evq : evq'[i] = evq[i]
        /\ \A i \in DOMAIN evq' : i \in DOMAIN evq \/ evq'[i] = x
    BY <1>1, <1>2, AppendFacts
  <2>2. \A i \in DOMAIN evq' : Live(evq', i) => link \in Wpa2
    BY <1>1, <1>2, <2>1 DEF Live
  <2>3. QED
    BY <1>2, <2>2, AskedQuiet
<1>3. ASSUME NEW k \in {"disconnect", "error", "m1", "m3", "group"}, NEW ap \in Ap \cup {NoAp}
      PROVE  Event(k, ap) \in Events /\ Event(k, ap).k = k
  BY DEF Event, Events
<1>4. CASE CardFails \/ CardError
  <2>1. PICK x \in Events : x.k \in {"disconnect", "error"} /\ evq' = Append(evq, x)
    BY <1>3, <1>4 DEF CardFails, CardError
  <2>2. UNCHANGED <<cmdq, link, told, keyed, curMode, unseen, curAp>> /\ trying' \in {trying, NoAp}
    BY <1>4 DEF CardFails, CardError, cardRest, arm9Vars, shared
  <2>3. x.k \notin Handshake
    BY <2>1 DEF Handshake
  <2>4. QED
    BY <1>2, <2>1, <2>2, <2>3
<1>5. CASE ApGroup \/ \E k \in {"m1", "m3"} : ApMessage(k)
  <2>1. PICK k \in {"m1", "m3", "group"} : evq' = Append(evq, Event(k, link)) /\ link \in Wpa2
    BY <1>5 DEF ApGroup, ApMessage
  <2>2. UNCHANGED <<cmdq, link, told, keyed, curMode, unseen, curAp, trying>>
    BY <1>5 DEF ApGroup, ApMessage, cardRest, cardVars, arm9Vars, shared
  <2>3. Event(k, link) \in Events
    BY <1>1, <1>3
  <2>4. QED
    BY <1>2, <2>1, <2>2, <2>3
<1>6. ASSUME NEW ap \in Ap, OnBssInfo(ap)
      PROVE  AskedInv'
  <2>1. UNCHANGED <<cmdq, evq, link, told, keyed, curMode, unseen, curAp, trying>>
    BY <1>6 DEF OnBssInfo, scanRest, cardVars, arm9Vars, shared
  <2>2. QED
    BY <1>1, <2>1, AskedQuiet
<1>7. QED
  BY <1>4, <1>5, <1>6, AskedLinks, AskedLost DEF Environment

(* The ARM9 chooses another access point only with unseen set, or in a mode *)
(* without a connection.                                                    *)
LEMMA AskedArm9 ==
  ASSUME CardInv, AskedInv, Arm9 \/ Scanning
  PROVE  AskedInv'
<1>1. UNCHANGED <<cmdq, evq, link, trying, keyed, told, curMode>>
  BY DEF Arm9, ConnectAP, ScanMode, FoundAp, Request, Scanning, OnChannelList, OnScanComplete,
         arm7Rest, arm7Busy, scanRest, cardVars
<1>2. \A i \in DOMAIN evq : Live(evq, i) => link \in Wpa2
  BY DEF AskedInv, WpaInv
<1>3. CASE FoundAp
  <2>1. curMode \in Linked => unseen'
    BY <1>3 DEF FoundAp, Linked
  <2>2. QED
    BY <1>1, <1>2, <2>1, AskedQuiet
<1>4. CASE ~ FoundAp
  <2>1. UNCHANGED <<unseen, curAp>>
    BY <1>4 DEF Arm9, ConnectAP, ScanMode, Request, Scanning, OnChannelList, OnScanComplete,
                scanRest, arm9Vars, shared
  <2>2. QED
    BY <1>1, <1>2, <2>1, AskedQuiet
<1>5. QED
  BY <1>3, <1>4

-----------------------------------------------------------------------------
(* The theorem *)

(* The invariant holds at first,                                            *)
LEMMA TwlInitial ==
  ASSUME Init
  PROVE  TwlInv
<1>1. TypeInv
  <2>1. TypeOK
    BY TwlAssumption DEF Init, NoPmk, TypeOK, Modes
  <2>2. <<>> \in Seq(Events) /\ <<>> \in Seq(Commands) /\ <<>> \in Seq(Calc)
    OBVIOUS
  <2>3. QueuesOK
    BY <2>2 DEF Init, QueuesOK
  <2>4. QED
    BY <2>1, <2>3 DEF TypeInv
<1>2. DOMAIN evq = {} /\ DOMAIN cmdq = {}
  BY DEF Init
<1>3. ConnectionInv /\ ModeInv
  BY <1>2 DEF Init, ConnectionInv, ModeInv
<1>4. OrderInv
  BY <1>2 DEF Init, OrderInv, StaleFirst, AllStale, NoneStale
<1>5. TurnInv /\ KeyInv
  BY <1>2 DEF Init, TurnInv, KeyInv
<1>6. AskedInv
  BY <1>2 DEF Init, AskedInv, ApInv, WpaInv, LoadInv, Sound
<1>7. QED
  BY <1>1, <1>3, <1>4, <1>5, <1>6 DEF TwlInv, CardInv

(* and every step keeps it.                                                 *)
LEMMA TwlStep ==
  ASSUME TwlInv, [Next]_vars
  PROVE  TwlInv'
<1>1. TypeInv'
  BY TypeStep DEF TwlInv
<1>2. ASSUME Next PROVE CardInv'
  <2>1. CASE Card
    BY <2>1, CardConnectKeeps, CardDisconnectKeeps, CardKeyKeeps, CardSendsKeeps DEF Card, TwlInv
  <2>2. QED
    BY <1>2, <2>1, UpdateKeeps, InterruptKeeps, Arm9Keeps, EnvironmentKeeps DEF Next, TwlInv
<1>3. ASSUME UNCHANGED vars PROVE CardInv'
  BY <1>3, QuietKeeps DEF vars, linkVars, cardVars, TwlInv
<1>4. CardInv'
  BY <1>2, <1>3
<1>5. ASSUME Next PROVE AskedInv'
  <2>1. TypeInv /\ CardInv /\ AskedInv
    BY DEF TwlInv
  <2>2. CASE Wifi_TWL_Update \/ Calculate
    BY <1>4, <2>1, <2>2, AskedUpdate
  <2>3. CASE CardInterrupt
    BY <2>1, <2>3, AskedInterrupt
  <2>4. CASE Card
    BY <1>4, <2>1, <2>4, AskedCard
  <2>5. CASE Environment
    BY <1>4, <2>1, <2>5, AskedEnvironment
  <2>6. CASE Arm9 \/ Scanning
    BY <2>1, <2>6, AskedArm9
  <2>7. QED
    BY <1>5, <2>2, <2>3, <2>4, <2>5, <2>6 DEF Next
<1>6. ASSUME UNCHANGED vars PROVE AskedInv'
  <2>1. UNCHANGED <<cmdq, evq, link, told, keyed, curMode, unseen, curAp, trying>>
    BY <1>6 DEF vars, cardVars, arm9Vars, shared
  <2>2. CardInv /\ AskedInv /\ \A i \in DOMAIN evq : Live(evq, i) => link \in Wpa2
    BY DEF TwlInv, AskedInv, WpaInv
  <2>3. QED
    BY <2>1, <2>2, AskedQuiet
<1>7. QED
  BY <1>1, <1>4, <1>5, <1>6 DEF TwlInv

(* Whatever the application asks for, whatever is lost, refused or fails,   *)
(* and however calls of Wifi_TWL_Update nest in the calculation of the PMK: *)
(* once everything on its way has arrived, WMI's flags say whether the card *)
(* is connected and no connection is forgotten in the card; and unless the  *)
(* ARM7 has not seen the end of an earlier request, it is connected to the  *)
(* access point that was asked for last and has the keys.                   *)
THEOREM TwlSettledAgrees == Spec => []SettledAgrees
<1>1. TwlInv => SettledAgrees
  <2>1. ASSUME TwlInv, Settled
        PROVE  /\ ap_connected <=> link # NoAp
               /\ link # NoAp => curMode \in {"connecting", "connected"}
               /\ link # NoAp /\ ~ unseen => link = curAp
               /\ link \in Wpa2 /\ ~ unseen => keyed
    <3>1. DOMAIN evq = {} /\ DOMAIN cmdq = {} /\ (link \in Wpa2 => told = "done")
      BY <2>1 DEF Settled
    <3>2. ap_connected <=> link # NoAp
      BY <2>1, <3>1 DEF TwlInv, CardInv, ConnectionInv, NoneAbout
    <3>3. link # NoAp => curMode \in {"connecting", "connected"}
      BY <2>1, <3>1 DEF TwlInv, CardInv, ModeInv, NoneAbout, Linked
    <3>4. link # NoAp /\ ~ unseen => Sound
      BY <3>1, <3>3 DEF Sound, Linked, NoneAbout
    <3>5. link # NoAp /\ ~ unseen => link = curAp
      BY <2>1, <3>4 DEF TwlInv, AskedInv, ApInv
    <3>6. link \in Wpa2 /\ ~ unseen => keyed
      <4>1. NoAp \notin Wpa2
        BY TwlAssumption
      <4>2. QED
        BY <2>1, <3>1, <3>4, <4>1 DEF TwlInv, AskedInv, LoadInv
    <3>7. QED
      BY <3>2, <3>3, <3>5, <3>6
  <2>2. QED
    BY <2>1 DEF SettledAgrees, TwlInv, TypeInv
<1>2. QED
  BY TwlInitial, TwlStep, <1>1, PTL DEF Spec

=============================================================================
