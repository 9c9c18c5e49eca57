---------------------------- MODULE TxQueueProofs ----------------------------
(***************************************************************************)
(* Proofs about TxQueue, for every number of frames and every retry limit. *)
(* No behaviour is left out: where the code overwrites a frame (over,      *)
(* replaced), the theorems say which frames it can be and that nothing     *)
(* else is touched.                                                        *)
(***************************************************************************)
EXTENDS TxQueue, TLAPS

-----------------------------------------------------------------------------
(* The inductive invariants *)

IsReply(i) == txbuf[i].kind = "reply"

(* CMD frames are a host's and replies a client's, wherever they are.       *)
RoleInv ==
  /\ \A i \in DOMAIN txbuf : txbuf[i].kind = "cmd" => role = "host"
  /\ \A i \in DOMAIN txbuf : txbuf[i].kind = "reply" => role = "client"
  /\ pc7 # "idle" => role = "client"
  /\ cmd # None \/ irqCmd \/ tries # 0 => role = "host"

(* The frame that is being copied is the first one in txbufData.            *)
CopyInv == pc7 \in {"copy", "rest"} => txbuf # <<>> /\ IsReply(1)

QueueInv == TypeOK /\ RoleInv /\ CopyInv

(* The frame that waits was offered after every frame that was sent.        *)
MgmtInv ==
  /\ lastMgmt <= offered
  /\ arm7q # None => lastMgmt < arm7q.id /\ arm7q.id <= offered

(* While a CMD is on the air, and after it until the buffer is written, the *)
(* buffer holds the last CMD, and its retries are the ones W_TX_RETRYLIMIT  *)
(* has counted, unless a frame of the ARM7 was written over it.             *)
CmdInv ==
  /\ loc3 # None => macTx = loc3
  /\ ~ over => BufferIntact
  /\ ~ over /\ role = "host" /\ status = 5 => cmd = None /\ loc3 = None
  /\ ~ over /\ role = "host" /\ (cmd # None \/ status = 5) =>
       macTx = lastCmd /\ tries + retries = RetryLimit + 1
  /\ ~ over => tries <= RetryLimit + 1

(* A frame that took the place of a CMD is a management frame.              *)
OverInv ==
  /\ cmd # None => cmd = lastCmd \/ cmd.kind = "mgmt"
  /\ role = "host" /\ (cmd # None \/ status = 5) => macTx = lastCmd \/ macTx.kind = "mgmt"

(* The ARM7 writes to a buffer that the hardware does not send from, and    *)
(* what waits in REPLY1 is whole unless it is being replaced.               *)
ReplyInv ==
  /\ pc7 # "idle" => dest \in {1, 2}
  /\ pc7 = "enable" => replyBuf[dest].kind = "reply"
  /\ reply1 \in {1, 2} /\ (pc7 = "idle" \/ dest # reply1) => replyBuf[reply1].kind = "reply"
  /\ replying # NoReply => replying.at \in {1, 2} /\ replying.at = reply2
  /\ replying # NoReply /\ ~ replying.replaced =>
       /\ pc7 # "idle" => dest # reply2
       /\ replying.frame.kind = "reply" /\ replyBuf[replying.at] = replying.frame

-----------------------------------------------------------------------------
(* The queue of the ARM9 *)

(* Where a frame of txbufData is after the first one has left it.           *)
LEMMA TailFacts ==
  ASSUME NEW S, NEW s \in Seq(S), s # <<>>
  PROVE  /\ Head(s) \in S /\ Head(s) = s[1] /\ 1 \in DOMAIN s
         /\ Tail(s) \in Seq(S)
         /\ \A i \in DOMAIN Tail(s) : i + 1 \in DOMAIN s /\ i + 1 # 1 /\ Tail(s)[i] = s[i + 1]
  OBVIOUS

(* Where it is after another one was queued.                                *)
LEMMA AppendFacts ==
  ASSUME NEW S, NEW s \in Seq(S), NEW x \in S
  PROVE  /\ Append(s, x) \in Seq(S)
         /\ \A i \in DOMAIN Append(s, x) :
              \/ i \in DOMAIN s /\ Append(s, x)[i] = s[i]
              \/ i = Len(s) + 1 /\ Append(s, x)[i] = x
         /\ s # <<>> => Append(s, x)[1] = s[1] /\ Append(s, x) # <<>>
  OBVIOUS

(* What the functions of the ARM9 queue: CMD frames if it is a host, and    *)
(* replies if it is a client.                                               *)
LEMMA Arm9Queues ==
  ASSUME Arm9
  PROVE  \E kind \in {"data", "cmd", "beacon", "reply"} :
           /\ QueueFrame(kind)
           /\ kind = "cmd" => role = "host"
           /\ kind = "reply" => role = "client"
<1>1. CASE RawTxFrame
  BY <1>1 DEF RawTxFrame
<1>2. CASE BeaconStart
  BY <1>2 DEF BeaconStart
<1>3. CASE MultiplayerHostCmdTxFrame
  BY <1>3 DEF MultiplayerHostCmdTxFrame
<1>4. CASE MultiplayerHostToClientDataTxFrame
  BY <1>4 DEF MultiplayerHostToClientDataTxFrame
<1>5. CASE MultiplayerClientToHostDataTxFrame
  BY <1>5 DEF MultiplayerClientToHostDataTxFrame
<1>6. CASE MultiplayerClientReplyTxFrame
  BY <1>6 DEF MultiplayerClientReplyTxFrame
<1>7. QED
  BY <1>1, <1>2, <1>3, <1>4, <1>5, <1>6 DEF Arm9

(* None is no frame.                                                        *)
LEMMA FrameFacts ==
  /\ None \notin Arm9Frames /\ None \notin Arm7Frames
  /\ \A f \in Arm9Frames : f.kind \in {"data", "cmd", "beacon", "reply"}
  /\ \A f \in Arm7Frames : f.id \in 1 .. MaxMgmt
  BY TxAssumption DEF Arm9Frames, Arm7Frames, Frames, None

-----------------------------------------------------------------------------
(* Types, roles and the frame being copied *)

(* A frame is queued: it joins the end, with the next number.               *)
LEMMA QueueFrameKeeps ==
  ASSUME QueueInv, NEW kind \in {"data", "cmd", "beacon", "reply"}, QueueFrame(kind),
         kind = "cmd" => role = "host", kind = "reply" => role = "client"
  PROVE  QueueInv'
<1> DEFINE f == [kind |-> kind, id |-> queued + 1]
<1>1. f \in Arm9Frames
  BY TxAssumption DEF QueueFrame, QueueInv, TypeOK, Arm9Frames, Frames
<1>2. /\ txbuf' = Append(txbuf, f) /\ queued' \in 0 .. MaxFrames
      /\ txbuf \in Seq(Arm9Frames)
      /\ UNCHANGED <<role, sharedVars, replyVars, mgmtVars, cmdVars, beacon>>
  BY TxAssumption DEF QueueFrame, QueueInv, TypeOK
<1>3. /\ txbuf' \in Seq(Arm9Frames)
      /\ \A i \in DOMAIN txbuf' : \/ i \in DOMAIN txbuf /\ txbuf'[i] = txbuf[i]
                                  \/ txbuf'[i].kind = kind
      /\ txbuf # <<>> => txbuf'[1] = txbuf[1] /\ txbuf' # <<>>
  <2>1. f.kind = kind
    OBVIOUS
  <2> HIDE DEF f
  <2>2. QED
    BY <1>1, <1>2, <2>1, AppendFacts
<1> USE DEF sharedVars, replyVars, mgmtVars, cmdVars
<1>4. TypeOK'
  BY <1>2, <1>3 DEF QueueInv, TypeOK
<1>5. RoleInv'
  BY <1>2, <1>3 DEF QueueInv, RoleInv
<1>6. CopyInv'
  BY <1>2, <1>3 DEF QueueInv, CopyInv, IsReply
<1>7. QED
  BY <1>4, <1>5, <1>6 DEF QueueInv

(* Wifi_TxRaw, called with a frame of the ARM7.                             *)
LEMMA TxRawTypes ==
  ASSUME TypeOK, NEW f \in Arm7Frames, TxRaw(f)
  PROVE  /\ macTx' = f /\ loc3' = f /\ retries' = RetryLimit
         /\ cmd' \in {cmd, None}
         /\ status' \in {0, 1, 5} /\ (role = "host" => status' = 0)
         /\ lastMgmt' = f.id /\ f.id \in 0 .. MaxMgmt /\ over' \in BOOLEAN
  BY FrameFacts, TxAssumption DEF TxRaw, StatusOfOwnFrame, TypeOK

(* A management frame is offered: its number is the next one, and what is   *)
(* sent is it or the one that waited.                                       *)
LEMMA SendManagementFacts ==
  ASSUME TypeOK, SendManagement
  PROVE  LET f == [kind |-> "mgmt", id |-> offered + 1] IN
         /\ pc7 = "idle"
         /\ f \in Arm7Frames /\ offered' = offered + 1 /\ offered' \in 0 .. MaxMgmt
         /\ \/ arm7q = None /\ TxRaw(f) /\ arm7q' = None
            \/ arm7q # None /\ arm7q \in Arm7Frames /\ TxRaw(arm7q) /\ arm7q' = f
            \/ arm7q = None /\ arm7q' = f /\ UNCHANGED <<sharedVars, lastMgmt>>
            \/ UNCHANGED <<sharedVars, arm7q, lastMgmt>>
         /\ UNCHANGED <<arm9Vars, replyVars, cmdVars, beacon>>
         /\ UNCHANGED loc3 \/ loc3 = None
  BY TxAssumption DEF SendManagement, TxArm7QueueAdd, TypeOK, Arm7Frames, Frames, sharedVars

(* Management frames leave txbufData and the replies alone.                 *)
LEMMA ManagementKeeps ==
  ASSUME QueueInv, SendManagement \/ TxArm7QueueFlush
  PROVE  QueueInv'
<1> USE DEF QueueInv
<1> USE DEF sharedVars, replyVars, mgmtVars, cmdVars, arm9Vars
<1>1. CASE SendManagement
  <2> DEFINE f == [kind |-> "mgmt", id |-> offered + 1]
  <2>1. /\ pc7 = "idle"
        /\ f \in Arm7Frames /\ offered' \in 0 .. MaxMgmt
        /\ \/ arm7q = None /\ TxRaw(f) /\ arm7q' = None
           \/ arm7q # None /\ arm7q \in Arm7Frames /\ TxRaw(arm7q) /\ arm7q' = f
           \/ arm7q = None /\ arm7q' = f /\ UNCHANGED <<sharedVars, lastMgmt>>
           \/ UNCHANGED <<sharedVars, arm7q, lastMgmt>>
        /\ UNCHANGED <<arm9Vars, replyVars, cmdVars, beacon>>
    BY <1>1, SendManagementFacts
  <2> HIDE DEF f
  <2>2. /\ macTx' \in Arm9Frames \cup Arm7Frames \cup {None} /\ status' \in {0, 1, 5}
        /\ loc3' \in Arm9Frames \cup Arm7Frames \cup {None}
        /\ cmd' \in {cmd, None}
        /\ retries' \in 0 .. RetryLimit /\ lastMgmt' \in 0 .. MaxMgmt
        /\ arm7q' \in Arm7Frames \cup {None} /\ over' \in BOOLEAN
    <3>1. CASE arm7q = None /\ TxRaw(f) /\ arm7q' = None
      BY <3>1, <2>1, TxRawTypes, TxAssumption
    <3>2. CASE arm7q # None /\ arm7q \in Arm7Frames /\ TxRaw(arm7q) /\ arm7q' = f
      BY <3>2, <2>1, TxRawTypes, TxAssumption
    <3>3. CASE UNCHANGED <<sharedVars, lastMgmt>> /\ (arm7q' = f \/ UNCHANGED arm7q)
      BY <3>3, <2>1 DEF TypeOK
    <3>4. QED
      BY <2>1, <3>1, <3>2, <3>3
  <2>3. TypeOK'
    BY <2>1, <2>2 DEF TypeOK
  <2>4. RoleInv' /\ CopyInv'
    BY <2>1, <2>2 DEF RoleInv, CopyInv, IsReply
  <2>5. QED
    BY <2>3, <2>4
<1>2. CASE TxArm7QueueFlush
  <2>1. /\ pc7 = "idle" /\ arm7q \in Arm7Frames /\ TxRaw(arm7q) /\ arm7q' = None
        /\ UNCHANGED <<arm9Vars, replyVars, offered, cmdVars, beacon>>
    BY <1>2 DEF TxArm7QueueFlush, TypeOK, TxIdle
  <2>2. TypeOK'
    BY <2>1, TxRawTypes, TxAssumption DEF TypeOK
  <2>3. RoleInv' /\ CopyInv'
    <3>1. cmd' \in {cmd, None}
      BY <2>1, TxRawTypes
    <3>2. QED
      BY <2>1, <3>1 DEF RoleInv, CopyInv, IsReply
  <2>4. QED
    BY <2>2, <2>3
<1>3. QED
  BY <1>1, <1>2

(* Wifi_TxArm9QueueCopyFirstData takes the first frame; the roles of the    *)
(* others are what they were.                                               *)
LEMMA FirstFrameFacts ==
  ASSUME QueueInv, txbuf # <<>>, CopyFirstData
  PROVE  /\ Head(txbuf) \in Arm9Frames /\ Head(txbuf) = txbuf[1] /\ 1 \in DOMAIN txbuf
         /\ txbuf' \in Seq(Arm9Frames) /\ UNCHANGED <<role, queued>>
         /\ \A i \in DOMAIN txbuf' : i + 1 \in DOMAIN txbuf /\ txbuf'[i] = txbuf[i + 1]
         /\ \A i \in DOMAIN txbuf' : txbuf'[i].kind = "cmd" => role = "host"
         /\ \A i \in DOMAIN txbuf' : txbuf'[i].kind = "reply" => role = "client"
<1>1. txbuf \in Seq(Arm9Frames)
  BY DEF QueueInv, TypeOK
<1>2. txbuf' = Tail(txbuf) /\ UNCHANGED <<role, queued>>
  BY DEF CopyFirstData
<1>3. /\ Head(txbuf) \in Arm9Frames /\ Head(txbuf) = txbuf[1] /\ 1 \in DOMAIN txbuf
      /\ txbuf' \in Seq(Arm9Frames)
      /\ \A i \in DOMAIN txbuf' : i + 1 \in DOMAIN txbuf /\ txbuf'[i] = txbuf[i + 1]
  BY <1>1, <1>2, TailFacts
<1>4. QED
  BY <1>2, <1>3 DEF QueueInv, RoleInv

(* A data or CMD frame goes to the shared buffer, a beacon to its own.      *)
LEMMA FlushKeeps ==
  ASSUME QueueInv, FlushByLoc3 \/ FlushByCmd \/ FlushBeacon
  PROVE  QueueInv'
<1> USE DEF QueueInv
<1> USE DEF sharedVars, replyVars, mgmtVars, cmdVars, arm9Vars
<1>1. pc7 = "idle" /\ txbuf # <<>> /\ CopyFirstData
  BY DEF FlushByLoc3, FlushByCmd, FlushBeacon, TxArm9QueueFlush, TxIdle
<1>2. /\ Head(txbuf) \in Arm9Frames /\ Head(txbuf) = txbuf[1] /\ 1 \in DOMAIN txbuf
      /\ txbuf' \in Seq(Arm9Frames) /\ UNCHANGED <<role, queued>>
      /\ \A i \in DOMAIN txbuf' : txbuf'[i].kind = "cmd" => role = "host"
      /\ \A i \in DOMAIN txbuf' : txbuf'[i].kind = "reply" => role = "client"
  BY <1>1, FirstFrameFacts
<1>3. CASE FlushByLoc3
  <2>1. /\ cmd' \in {cmd, None} /\ macTx' = Head(txbuf) /\ loc3' = Head(txbuf) /\ status' = 0
        /\ retries' = RetryLimit
        /\ UNCHANGED <<over, replyVars, mgmtVars, cmdVars, beacon>>
    BY <1>3 DEF FlushByLoc3
  <2>2. TypeOK'
    BY <1>2, <2>1, TxAssumption DEF TypeOK
  <2>3. RoleInv' /\ CopyInv'
    BY <1>1, <1>2, <2>1 DEF RoleInv, CopyInv
  <2>4. QED
    BY <2>2, <2>3
<1>4. CASE FlushByCmd
  <2>1. /\ Head(txbuf).kind = "cmd"
        /\ cmd' = Head(txbuf) /\ macTx' = Head(txbuf) /\ loc3' \in {loc3, None} /\ status' = 0
        /\ retries' = RetryLimit /\ lastCmd' = Head(txbuf) /\ tries' = 1 /\ over' \in BOOLEAN
        /\ UNCHANGED <<replyVars, mgmtVars, irqCmd, beacon>>
    BY <1>4 DEF FlushByCmd, StartCmd, TxArm9QueueFlush
  <2>2. role = "host"
    BY <1>2, <2>1 DEF RoleInv
  <2>3. TypeOK'
    BY <1>2, <2>1, TxAssumption DEF TypeOK
  <2>4. RoleInv' /\ CopyInv'
    BY <1>1, <1>2, <2>1, <2>2 DEF RoleInv, CopyInv
  <2>5. QED
    BY <2>3, <2>4
<1>5. CASE FlushBeacon
  <2>1. beacon' = Head(txbuf) /\ UNCHANGED <<sharedVars, replyVars, mgmtVars, cmdVars>>
    BY <1>5 DEF FlushBeacon
  <2>2. TypeOK'
    BY <1>2, <2>1 DEF TypeOK
  <2>3. RoleInv' /\ CopyInv'
    BY <1>1, <1>2, <2>1 DEF RoleInv, CopyInv
  <2>4. QED
    BY <2>2, <2>3
<1>6. QED
  BY <1>3, <1>4, <1>5

(* The steps of Wifi_TxArm9QueueFlushByReply.                               *)
LEMMA FlushByReplyKeeps ==
  ASSUME QueueInv, FlushByReply
  PROVE  QueueInv'
<1> USE DEF QueueInv
<1> USE DEF sharedVars, mgmtVars, cmdVars, arm9Vars
<1>1. CASE ChooseReplyBuffer
  <2>1. /\ txbuf # <<>> /\ Head(txbuf).kind = "reply"
        /\ dest' \in {1, 2} /\ pc7' = "copy"
        /\ UNCHANGED <<arm9Vars, sharedVars, reply1, reply2, replyBuf, replying, mgmtVars, cmdVars, beacon>>
    BY <1>1 DEF ChooseReplyBuffer, TxArm9QueueFlush, BackBuffer
  <2>2. 1 \in DOMAIN txbuf /\ txbuf[1].kind = "reply"
    BY <2>1 DEF TypeOK
  <2>3. TypeOK'
    BY <2>1 DEF TypeOK
  <2>4. RoleInv' /\ CopyInv'
    BY <2>1, <2>2 DEF RoleInv, CopyInv, IsReply
  <2>5. QED
    BY <2>3, <2>4
<1>2. CASE CopyReply
  <2>1. /\ pc7 = "copy" /\ pc7' = "rest" /\ replyBuf' = [replyBuf EXCEPT ![dest] = Torn]
        /\ UNCHANGED <<arm9Vars, sharedVars, reply1, reply2, replying, dest, mgmtVars, cmdVars, beacon>>
    BY <1>2 DEF CopyReply
  <2>2. replyBuf' \in [{1, 2} -> Buffer]
    BY <2>1 DEF TypeOK, Buffer
  <2>3. TypeOK'
    BY <2>1, <2>2 DEF TypeOK
  <2>4. RoleInv' /\ CopyInv'
    BY <2>1 DEF RoleInv, CopyInv, IsReply
  <2>5. QED
    BY <2>3, <2>4
<1>3. CASE CopyReplyRest
  <2>1. /\ pc7 = "rest" /\ pc7' = "enable" /\ CopyFirstData
        /\ replyBuf' = [replyBuf EXCEPT ![dest] = Head(txbuf)]
        /\ UNCHANGED <<sharedVars, reply1, reply2, replying, dest, mgmtVars, cmdVars, beacon>>
    BY <1>3 DEF CopyReplyRest
  <2>2. /\ Head(txbuf) \in Arm9Frames
        /\ txbuf' \in Seq(Arm9Frames) /\ UNCHANGED <<role, queued>>
        /\ \A i \in DOMAIN txbuf' : txbuf'[i].kind = "cmd" => role = "host"
        /\ \A i \in DOMAIN txbuf' : txbuf'[i].kind = "reply" => role = "client"
    BY <2>1, FirstFrameFacts DEF CopyInv
  <2>3. replyBuf' \in [{1, 2} -> Buffer]
    BY <2>1, <2>2 DEF TypeOK, Buffer
  <2>4. TypeOK'
    BY <2>1, <2>2, <2>3 DEF TypeOK
  <2>5. RoleInv' /\ CopyInv'
    BY <2>1, <2>2 DEF RoleInv, CopyInv
  <2>6. QED
    BY <2>4, <2>5
<1>4. CASE EnableReply
  <2>1. /\ pc7 = "enable" /\ pc7' = "idle" /\ reply1' = dest /\ retries' = RetryLimit
        /\ UNCHANGED <<arm9Vars, macTx, status, loc3, cmd, over, reply2, replyBuf, replying, dest, mgmtVars, cmdVars, beacon>>
    BY <1>4 DEF EnableReply
  <2>2. TypeOK'
    BY <2>1, TxAssumption DEF TypeOK
  <2>3. RoleInv' /\ CopyInv'
    BY <2>1 DEF RoleInv, CopyInv
  <2>4. QED
    BY <2>2, <2>3
<1>5. QED
  BY <1>1, <1>2, <1>3, <1>4 DEF FlushByReply

(* The interrupt at the end of a CMD, which a host only gets.               *)
LEMMA CmdDoneKeeps ==
  ASSUME QueueInv, MultiplayCmdDone
  PROVE  QueueInv'
<1> USE DEF QueueInv
<1> USE DEF sharedVars, replyVars, mgmtVars, arm9Vars
<1>1. /\ pc7 = "idle" /\ irqCmd /\ irqCmd' = FALSE
      /\ \/ RetryLeft /\ Retry
         \/ UNCHANGED <<sharedVars, tries>>
      /\ UNCHANGED <<arm9Vars, replyVars, mgmtVars, lastCmd, beacon>>
  BY DEF MultiplayCmdDone
<1>2. role = "host"
  BY <1>1 DEF RoleInv
<1>3. TypeOK'
  <2>1. CASE RetryLeft /\ Retry
    <3>1. /\ retries' \in 0 .. RetryLimit /\ tries' \in Nat /\ status' = 0
          /\ cmd' = macTx /\ loc3' \in {loc3, None} /\ macTx' = macTx /\ over' \in BOOLEAN
      BY <2>1, TxAssumption DEF TypeOK, RetryLeft, Retry, StartCmd
    <3>2. QED
      BY <3>1, <1>1 DEF TypeOK
  <2>2. CASE UNCHANGED <<sharedVars, tries>>
    <3>1. UNCHANGED <<macTx, status, loc3, cmd, retries, tries>> /\ over' \in BOOLEAN /\ irqCmd' \in BOOLEAN
      BY <2>2, <1>1 DEF TypeOK
    <3>2. QED
      BY <3>1, <1>1 DEF TypeOK
  <2>3. QED
    BY <1>1, <2>1, <2>2
<1>4. RoleInv' /\ CopyInv'
  BY <1>1, <1>2 DEF RoleInv, CopyInv
<1>5. QED
  BY <1>3, <1>4

(* The hardware.                                                            *)
LEMMA HardwareKeeps ==
  ASSUME QueueInv, Hardware \/ CmdArrives
  PROVE  QueueInv'
<1> USE DEF QueueInv
<1> USE DEF sharedVars, mgmtVars, cmdVars, arm9Vars
<1>1. CASE Loc3Ends
  BY <1>1 DEF Loc3Ends, replyVars, TypeOK, RoleInv, CopyInv, IsReply
<1>2. ASSUME NEW result \in {1, 5}, CmdEnds(result) PROVE QueueInv'
  BY <1>2 DEF CmdEnds, replyVars, TypeOK, RoleInv, CopyInv, IsReply
<1>3. CASE ReplyEnds
  <2>1. NoReply \in [at : 0 .. 2, frame : Buffer, replaced : BOOLEAN]
    BY DEF NoReply, Buffer
  <2>2. QED
    BY <1>3, <2>1 DEF ReplyEnds, TypeOK, RoleInv, CopyInv, IsReply
<1>4. CASE CmdArrives
  <2>1. NoReply \in [at : 0 .. 2, frame : Buffer, replaced : BOOLEAN]
    BY DEF NoReply, Buffer
  <2>2. reply1 # 0 => [at |-> reply1, frame |-> replyBuf[reply1],
                       replaced |-> pc7 # "idle" /\ dest = reply1]
                         \in [at : 0 .. 2, frame : Buffer, replaced : BOOLEAN]
    BY DEF TypeOK
  <2>3. QED
    BY <1>4, <2>1, <2>2 DEF CmdArrives, TypeOK, RoleInv, CopyInv, IsReply
<1>5. QED
  BY <1>1, <1>2, <1>3, <1>4 DEF Hardware

(* Every step keeps the types, the roles and the frame being copied.        *)
LEMMA QueueStep ==
  ASSUME QueueInv, [Next]_vars
  PROVE  QueueInv'
<1>1. CASE Arm9
  BY <1>1, Arm9Queues, QueueFrameKeeps
<1>2. CASE SendManagement \/ TxArm7QueueFlush
  BY <1>2, ManagementKeeps
<1>3. CASE FlushByLoc3 \/ FlushByCmd \/ FlushBeacon
  BY <1>3, FlushKeeps
<1>4. CASE FlushByReply
  BY <1>4, FlushByReplyKeeps
<1>5. CASE MultiplayCmdDone
  BY <1>5, CmdDoneKeeps
<1>6. CASE Hardware \/ CmdArrives
  BY <1>6, HardwareKeeps
<1>7. CASE UNCHANGED vars
  BY <1>7 DEF vars, sharedVars, replyVars, mgmtVars, cmdVars, arm9Vars, QueueInv, TypeOK, RoleInv, CopyInv, IsReply
<1>8. QED
  BY <1>1, <1>2, <1>3, <1>4, <1>5, <1>6, <1>7 DEF Next, Arm7

(* Nothing is queued or on the air at first.                                *)
LEMMA TxInitial ==
  ASSUME Init
  PROVE  QueueInv /\ MgmtInv /\ CmdInv /\ OverInv /\ ReplyInv
<1>1. TypeOK
  <2>1. <<>> \in Seq(Arm9Frames)
    OBVIOUS
  <2>2. NoReply \in [at : 0 .. 2, frame : Buffer, replaced : BOOLEAN] /\ [b \in {1, 2} |-> None] \in [{1, 2} -> Buffer]
    BY DEF Buffer, NoReply
  <2>3. /\ txbuf \in Seq(Arm9Frames) /\ replying \in [at : 0 .. 2, frame : Buffer, replaced : BOOLEAN]
        /\ replyBuf \in [{1, 2} -> Buffer]
    BY <2>1, <2>2 DEF Init
  <2>4. /\ queued \in 0 .. MaxFrames /\ offered \in 0 .. MaxMgmt /\ lastMgmt \in 0 .. MaxMgmt
        /\ retries \in 0 .. RetryLimit /\ tries \in Nat
        /\ reply1 \in 0 .. 2 /\ reply2 \in 0 .. 2 /\ dest \in 0 .. 2 /\ status \in {0, 1, 5}
    BY TxAssumption DEF Init
  <2>5. /\ arm7q = None /\ macTx = None /\ loc3 = None /\ cmd = None /\ lastCmd = None
        /\ beacon = None /\ role \in Roles /\ irqCmd = FALSE /\ over = FALSE /\ pc7 = "idle"
    BY DEF Init
  <2>6. QED
    BY <2>3, <2>4, <2>5 DEF TypeOK
<1>2. RoleInv /\ CopyInv
  BY DEF Init, RoleInv, CopyInv
<1>3. MgmtInv /\ CmdInv /\ OverInv /\ ReplyInv
  BY TxAssumption DEF Init, MgmtInv, CmdInv, BufferIntact, OverInv, ReplyInv
<1>4. QED
  BY <1>1, <1>2, <1>3 DEF QueueInv

-----------------------------------------------------------------------------
(* The ARM7's own frames *)

(* Every step keeps the order of the management frames.                     *)
LEMMA MgmtStep ==
  ASSUME QueueInv, MgmtInv, [Next]_vars
  PROVE  MgmtInv'
<1> USE DEF QueueInv
<1>1. CASE SendManagement
  <2> DEFINE f == [kind |-> "mgmt", id |-> offered + 1]
  <2>1. /\ offered \in Nat /\ lastMgmt \in Nat /\ f.id = offered + 1
        /\ f \in Arm7Frames /\ offered' = offered + 1
        /\ \/ arm7q = None /\ TxRaw(f) /\ arm7q' = None
           \/ arm7q # None /\ arm7q \in Arm7Frames /\ TxRaw(arm7q) /\ arm7q' = f
           \/ arm7q = None /\ arm7q' = f /\ UNCHANGED <<sharedVars, lastMgmt>>
           \/ UNCHANGED <<sharedVars, arm7q, lastMgmt>>
    BY <1>1, SendManagementFacts DEF TypeOK
  <2> HIDE DEF f
  <2>2. CASE arm7q = None /\ TxRaw(f) /\ arm7q' = None
    BY <2>1, <2>2 DEF MgmtInv, TxRaw
  <2>3. CASE arm7q # None /\ arm7q \in Arm7Frames /\ TxRaw(arm7q) /\ arm7q' = f
    <3>1. arm7q.id \in Nat /\ lastMgmt' = arm7q.id /\ arm7q.id <= offered
      BY <2>3, FrameFacts DEF MgmtInv, TxRaw
    <3>2. QED
      BY <2>1, <2>3, <3>1 DEF MgmtInv
  <2>4. CASE arm7q = None /\ arm7q' = f /\ UNCHANGED <<sharedVars, lastMgmt>>
    BY <2>1, <2>4 DEF MgmtInv
  <2>5. CASE UNCHANGED <<sharedVars, arm7q, lastMgmt>>
    <3>1. arm7q # None => arm7q.id \in Nat
      BY FrameFacts DEF TypeOK
    <3>2. QED
      BY <2>1, <2>5, <3>1 DEF MgmtInv
  <2>6. QED
    BY <2>1, <2>2, <2>3, <2>4, <2>5
<1>2. CASE TxArm7QueueFlush
  BY <1>2 DEF TxArm7QueueFlush, TxRaw, MgmtInv
<1>3. CASE UNCHANGED mgmtVars
  BY <1>3 DEF mgmtVars, MgmtInv
<1>4. QED
  <2>1. SendManagement \/ TxArm7QueueFlush \/ UNCHANGED mgmtVars
    BY Arm9Queues DEF Next, QueueFrame, Arm7, FlushByLoc3, FlushByCmd, FlushBeacon, FlushByReply,
       ChooseReplyBuffer, CopyReply, CopyReplyRest, EnableReply, MultiplayCmdDone, Hardware,
       Loc3Ends, CmdEnds, ReplyEnds, CmdArrives, vars
  <2>2. QED
    BY <2>1, <1>1, <1>2, <1>3

(* Wifi_TxArm7QueueAdd and Wifi_TxArm7QueueFlush send each frame of the     *)
(* ARM7 once and in turn, whatever else is sent in between.                 *)
THEOREM TxMgmtOrder == Spec => []MgmtInOrder
<1>1. Init => QueueInv /\ MgmtInv
  BY TxInitial
<1>2. QueueInv /\ MgmtInv /\ [Next]_vars => QueueInv' /\ MgmtInv'
  BY QueueStep, MgmtStep
<1>3. QueueInv /\ MgmtInv => MgmtInOrder
  <2>1. ASSUME QueueInv, MgmtInv, arm7q # None PROVE arm7q.id > lastMgmt
    <3>1. arm7q.id \in Nat /\ lastMgmt \in Nat
      BY <2>1, FrameFacts DEF QueueInv, TypeOK
    <3>2. QED
      BY <2>1, <3>1 DEF MgmtInv
  <2>2. QED
    BY <2>1 DEF MgmtInOrder
<1>4. QED
  BY <1>1, <1>2, <1>3, PTL DEF Spec

-----------------------------------------------------------------------------
(* The buffer of LOC3 and CMD *)

(* Wifi_TxRaw: a CMD that stays on the air is recorded as overwritten.      *)
LEMMA TxRawKeepsCmd ==
  ASSUME QueueInv, CmdInv, OverInv, NEW f \in Arm7Frames, TxRaw(f),
         UNCHANGED <<role, lastCmd, tries>>
  PROVE  CmdInv' /\ OverInv'
<1>1. /\ macTx' = f /\ loc3' = f /\ cmd' \in {cmd, None} /\ (role = "host" => status' = 0)
      /\ ~ over' => ~ over /\ cmd' = None
  BY TxRawTypes DEF QueueInv, TxRaw
<1>2. f.kind = "mgmt"
  BY DEF Arm7Frames, Frames
<1>3. CmdInv'
  BY <1>1 DEF CmdInv, BufferIntact
<1>4. OverInv'
  BY <1>1, <1>2 DEF OverInv
<1>5. QED
  BY <1>3, <1>4

(* Every step keeps the frame that is being sent, except that a management  *)
(* frame may be written over a CMD.                                         *)
LEMMA CmdStep ==
  ASSUME QueueInv, CmdInv, OverInv, [Next]_vars
  PROVE  CmdInv' /\ OverInv'
<1> USE DEF sharedVars, mgmtVars, replyVars, cmdVars, arm9Vars
<1>0. /\ tries \in Nat /\ retries \in Nat /\ RetryLimit \in Nat
  BY TxAssumption DEF QueueInv, TypeOK
<1>1. CASE SendManagement
  <2> DEFINE f == [kind |-> "mgmt", id |-> offered + 1]
  <2>1. /\ f \in Arm7Frames /\ UNCHANGED <<role, lastCmd, tries>>
        /\ \/ TxRaw(f)
           \/ arm7q \in Arm7Frames /\ TxRaw(arm7q)
           \/ UNCHANGED sharedVars
    BY <1>1, SendManagementFacts DEF QueueInv
  <2> HIDE DEF f
  <2>2. CASE TxRaw(f)
    BY <2>1, <2>2, TxRawKeepsCmd
  <2>3. CASE arm7q \in Arm7Frames /\ TxRaw(arm7q)
    BY <2>1, <2>3, TxRawKeepsCmd
  <2>4. CASE UNCHANGED sharedVars
    BY <2>1, <2>4 DEF CmdInv, BufferIntact, OverInv
  <2>5. QED
    BY <2>1, <2>2, <2>3, <2>4
<1>2. CASE TxArm7QueueFlush
  <2>1. arm7q \in Arm7Frames /\ TxRaw(arm7q) /\ UNCHANGED <<role, lastCmd, tries>>
    BY <1>2 DEF TxArm7QueueFlush, TxIdle, QueueInv, TypeOK
  <2>2. QED
    BY <2>1, TxRawKeepsCmd
<1>3. CASE FlushByLoc3
  <2>1. /\ cmd = None /\ cmd' = None /\ macTx' = Head(txbuf) /\ loc3' = Head(txbuf) /\ status' = 0
        /\ UNCHANGED <<role, lastCmd, tries, over>>
    BY <1>3 DEF FlushByLoc3, TxArm9QueueFlush, TxIdle, CopyFirstData
  <2>2. QED
    BY <2>1 DEF CmdInv, BufferIntact, OverInv
<1>4. CASE FlushByCmd
  <2>1. /\ cmd' = Head(txbuf) /\ macTx' = Head(txbuf) /\ loc3' = None /\ status' = 0
        /\ retries' = RetryLimit /\ lastCmd' = Head(txbuf) /\ tries' = 1 /\ UNCHANGED role
    BY <1>4 DEF FlushByCmd, TxArm9QueueFlush, TxIdle, CopyFirstData, StartCmd
  <2>2. CmdInv'
    BY <2>1, <1>0 DEF CmdInv, BufferIntact
  <2>3. OverInv'
    BY <2>1 DEF OverInv
  <2>4. QED
    BY <2>2, <2>3
<1>5. CASE EnableReply
  <2>1. role # "host" /\ UNCHANGED <<role, macTx, status, loc3, cmd, over, lastCmd, tries>>
    BY <1>5 DEF EnableReply, QueueInv, RoleInv
  <2>2. QED
    BY <2>1 DEF CmdInv, BufferIntact, OverInv
<1>6. CASE MultiplayCmdDone
  <2>1. role = "host" /\ UNCHANGED <<role, lastCmd>>
    BY <1>6 DEF MultiplayCmdDone, QueueInv, RoleInv
  <2>2. CASE RetryLeft /\ Retry
    <3>1. status = 5 /\ retries > 0 /\ (macTx = lastCmd \/ macTx.kind = "mgmt")
          /\ (~ over => /\ cmd = None /\ loc3 = None /\ macTx = lastCmd
                        /\ tries + retries = RetryLimit + 1)
      BY <2>1, <2>2 DEF RetryLeft, CmdInv, OverInv
    <3>2. cmd' = macTx /\ loc3' \in {loc3, None} /\ macTx' = macTx /\ status' = 0
          /\ retries' = retries - 1 /\ tries' = tries + 1 /\ over' = over
      BY <2>2 DEF Retry, StartCmd
    <3>3. ~ over => tries' + retries' = RetryLimit + 1 /\ tries' <= RetryLimit + 1
      BY <3>1, <3>2, <1>0
    <3>4. CmdInv'
      BY <2>1, <3>1, <3>2, <3>3 DEF CmdInv, BufferIntact
    <3>5. OverInv'
      BY <2>1, <3>1, <3>2 DEF OverInv
    <3>6. QED
      BY <3>4, <3>5
  <2>3. CASE UNCHANGED <<sharedVars, tries>>
    BY <2>1, <2>3 DEF CmdInv, BufferIntact, OverInv
  <2>4. QED
    BY <1>6, <2>2, <2>3 DEF MultiplayCmdDone
<1>7. CASE Loc3Ends
  BY <1>7 DEF Loc3Ends, CmdInv, BufferIntact, OverInv
<1>8. ASSUME NEW result \in {1, 5}, CmdEnds(result) PROVE CmdInv' /\ OverInv'
  BY <1>8 DEF CmdEnds, CmdInv, BufferIntact, OverInv, QueueInv, RoleInv
<1>9. CASE UNCHANGED <<role, sharedVars, lastCmd, tries>>
  BY <1>9 DEF CmdInv, BufferIntact, OverInv
<1>10. QED
  <2>1. \/ SendManagement \/ TxArm7QueueFlush \/ FlushByLoc3 \/ FlushByCmd \/ EnableReply
        \/ MultiplayCmdDone \/ Loc3Ends \/ CmdEnds(1) \/ CmdEnds(5)
        \/ UNCHANGED <<role, sharedVars, lastCmd, tries>>
    BY Arm9Queues DEF Next, QueueFrame, Arm7, FlushBeacon, FlushByReply,
       ChooseReplyBuffer, CopyReply, CopyReplyRest, CopyFirstData, Hardware, ReplyEnds, CmdArrives, vars
  <2>2. QED
    BY <2>1, <1>1, <1>2, <1>3, <1>4, <1>5, <1>6, <1>7, <1>8, <1>9

(* Whenever management frames are sent: a frame on LOC3 is never written    *)
(* over, and a CMD only by Wifi_TxArm7QueueAdd, which does not look at CMD. *)
THEOREM TxSentIntact == Spec => []SentIntact
<1>1. Init => QueueInv /\ CmdInv /\ OverInv
  BY TxInitial
<1>2. QueueInv /\ CmdInv /\ OverInv /\ [Next]_vars => QueueInv' /\ CmdInv' /\ OverInv'
  BY QueueStep, CmdStep
<1>3. QueueInv /\ CmdInv => SentIntact
  BY DEF QueueInv, CmdInv, SentIntact
<1>4. QED
  BY <1>1, <1>2, <1>3, PTL DEF Spec

(* Wifi_Intr_MultiplayCmdDone sends the last CMD again, as often as         *)
(* W_TX_RETRYLIMIT allows, or a management frame that was written over it   *)
(* on the air, and nothing else.                                            *)
THEOREM TxCmdIsLast == Spec => []CmdIsLast
<1>1. Init => QueueInv /\ CmdInv /\ OverInv
  BY TxInitial
<1>2. QueueInv /\ CmdInv /\ OverInv /\ [Next]_vars => QueueInv' /\ CmdInv' /\ OverInv'
  BY QueueStep, CmdStep
<1>3. QueueInv /\ CmdInv /\ OverInv => CmdIsLast
  BY DEF QueueInv, RoleInv, CmdInv, BufferIntact, OverInv, CmdIsLast
<1>4. QED
  BY <1>1, <1>2, <1>3, PTL DEF Spec

-----------------------------------------------------------------------------
(* The buffers of the replies *)

(* Every step keeps the reply that the hardware is sending, unless the CMD  *)
(* came while it was being replaced.                                        *)
LEMMA ReplyStep ==
  ASSUME QueueInv, ReplyInv, [Next]_vars
  PROVE  ReplyInv'
<1>0. /\ reply1 \in 0 .. 2 /\ reply2 \in 0 .. 2 /\ replyBuf \in [{1, 2} -> Buffer]
      /\ txbuf \in Seq(Arm9Frames)
  BY DEF QueueInv, TypeOK
<1>1. CASE ChooseReplyBuffer
  <2>1. /\ pc7 = "idle" /\ pc7' = "copy" /\ dest' = BackBuffer
        /\ UNCHANGED <<reply1, reply2, replyBuf, replying>>
    BY <1>1 DEF ChooseReplyBuffer, TxArm9QueueFlush, TxIdle
  <2>2. dest' \in {1, 2} /\ dest' # reply2
    BY <2>1 DEF BackBuffer
  <2>3. QED
    BY <2>1, <2>2 DEF ReplyInv
<1>2. CASE CopyReply
  <2>1. /\ pc7 = "copy" /\ pc7' = "rest" /\ replyBuf' = [replyBuf EXCEPT ![dest] = Torn]
        /\ UNCHANGED <<reply1, reply2, replying, dest>>
    BY <1>2 DEF CopyReply
  <2>2. \A b \in {1, 2} : b # dest => replyBuf'[b] = replyBuf[b]
    BY <2>1, <1>0
  <2>3. QED
    BY <2>1, <2>2 DEF ReplyInv
<1>3. CASE CopyReplyRest
  <2>1. /\ pc7 = "rest" /\ pc7' = "enable" /\ replyBuf' = [replyBuf EXCEPT ![dest] = Head(txbuf)]
        /\ UNCHANGED <<reply1, reply2, replying, dest>>
    BY <1>3 DEF CopyReplyRest
  <2>2. Head(txbuf).kind = "reply"
    BY <2>1, <1>0, TailFacts DEF QueueInv, CopyInv, IsReply
  <2>3. dest \in {1, 2}
    BY <2>1 DEF ReplyInv
  <2>4. replyBuf'[dest].kind = "reply" /\ \A b \in {1, 2} : b # dest => replyBuf'[b] = replyBuf[b]
    BY <2>1, <2>2, <2>3, <1>0
  <2>5. QED
    BY <2>1, <2>3, <2>4 DEF ReplyInv
<1>4. CASE EnableReply
  <2>1. /\ pc7 = "enable" /\ pc7' = "idle" /\ reply1' = dest
        /\ UNCHANGED <<reply2, replyBuf, replying, dest>>
    BY <1>4 DEF EnableReply
  <2>2. QED
    BY <2>1 DEF ReplyInv
<1>5. CASE CmdArrives
  <2>1. /\ replying = NoReply /\ reply2' = reply1 /\ reply1' = 0
        /\ UNCHANGED <<replyBuf, pc7, dest>>
    BY <1>5 DEF CmdArrives
  <2>2. CASE reply1 = 0
    BY <1>5, <2>1, <2>2 DEF CmdArrives, ReplyInv
  <2>3. CASE reply1 # 0
    <3>1. /\ reply1 \in {1, 2} /\ replying'.at = reply1 /\ replying'.frame = replyBuf[reply1]
          /\ replying'.replaced = (pc7 # "idle" /\ dest = reply1)
      BY <1>5, <1>0, <2>3 DEF CmdArrives
    <3>2. ~ replying'.replaced => pc7 = "idle" \/ dest # reply1
      BY <3>1
    <3>3. QED
      BY <2>1, <3>1, <3>2 DEF ReplyInv
  <2>4. QED
    BY <2>2, <2>3
<1>6. CASE ReplyEnds
  BY <1>6 DEF ReplyEnds, ReplyInv
<1>7. CASE UNCHANGED replyVars
  BY <1>7 DEF ReplyInv, replyVars
<1>8. QED
  <2>1. \/ ChooseReplyBuffer \/ CopyReply \/ CopyReplyRest \/ EnableReply \/ CmdArrives \/ ReplyEnds
        \/ UNCHANGED replyVars
    BY Arm9Queues DEF Next, QueueFrame, SendManagement, Arm7, TxArm7QueueFlush, FlushByLoc3, FlushByCmd,
       FlushBeacon, FlushByReply, MultiplayCmdDone, Hardware, Loc3Ends, CmdEnds, vars
  <2>2. QED
    BY <2>1, <1>1, <1>2, <1>3, <1>4, <1>5, <1>6, <1>7

(* However many replies are prepared and whenever CMDs arrive: a reply that *)
(* was not being replaced when it was asked for goes out whole, although    *)
(* the next one is stored meanwhile.                                        *)
THEOREM TxReplyIntact == Spec => []ReplyIntact
<1>1. Init => QueueInv /\ ReplyInv
  BY TxInitial
<1>2. QueueInv /\ ReplyInv /\ [Next]_vars => QueueInv' /\ ReplyInv'
  BY QueueStep, ReplyStep
<1>3. QueueInv /\ ReplyInv => ReplyIntact
  BY DEF ReplyInv, ReplyIntact
<1>4. QED
  BY <1>1, <1>2, <1>3, PTL DEF Spec

=============================================================================
