------------------------------ MODULE TxQueue ------------------------------
(***************************************************************************)
(* How the ARM7 hands frames to the WiFi hardware                          *)
(* (src/source/arm7/ntr/tx_queue.c and the interrupts that drive it).      *)
(* Frames come from the ARM9 through txbufData (module PacketRing) and     *)
(* from the ARM7 itself through a queue of one frame.  Data, management    *)
(* and CMD frames share one buffer in MAC RAM; LOC3 and CMD are the        *)
(* channels that send from it.  Replies alternate between two buffers.     *)
(*                                                                         *)
(* ARM7 actions are whole calls, except that the hardware may act between  *)
(* the steps of storing a reply.  The hardware is external.  A frame is    *)
(* its kind and a serial number.                                           *)
(***************************************************************************)
EXTENDS Naturals, Sequences

CONSTANTS
  Roles,          \* what the console may be: "host", "client"
  MaxFrames,      \* bound on the frames of the ARM9
  MaxMgmt,        \* bound on the frames of the ARM7
  RetryLimit      \* the low byte of 0x0707, the value for W_TX_RETRYLIMIT

ASSUME TxAssumption ==
  /\ Roles \subseteq {"host", "client"}
  /\ MaxFrames \in Nat
  /\ MaxMgmt \in Nat
  /\ RetryLimit \in Nat

VARIABLES
  role,
  txbuf,          \* the frames in txbufData
  queued,         \* frames the ARM9 has queued so far
  arm7q,          \* wifi_tx_queue, or None if wifi_tx_queue_len is 0
  offered,        \* frames of the ARM7 so far
  macTx, status,  \* the frame at MAC_TXBUF_START_OFFSET and its HDR_TX_STATUS
  loc3, cmd,      \* the frame each channel is sending (its bit of W_TXBUSY)
  retries,        \* low byte of W_TX_RETRYLIMIT
  irqCmd,         \* IRQ_MULTIPLAY_CMD_DONE is pending
  reply1, reply2, \* the buffers of the next and of the current reply, 0: none
  replyBuf,       \* the frames in the two reply buffers
  replying,       \* hardware: the reply it is sending; history (replaced): the
                  \* ARM7 was writing to its buffer when it was sent for
  beacon,         \* the frame at MAC_BEACON_START_OFFSET
  pc7, dest,      \* where Wifi_TxArm9QueueFlushByReply is, its destination
  lastMgmt,       \* history: the last frame of the ARM7 that was sent
  lastCmd, tries, \* history: the last CMD frame and how often it was sent
  over            \* history: since then a frame of the ARM7 has been written
                  \* to the shared buffer while a CMD was sent from it

arm9Vars == <<role, txbuf, queued>>
sharedVars == <<macTx, status, loc3, cmd, retries, over>>
replyVars == <<reply1, reply2, replyBuf, replying, pc7, dest>>
mgmtVars == <<arm7q, offered, lastMgmt>>
cmdVars == <<irqCmd, lastCmd, tries>>
vars == <<arm9Vars, sharedVars, replyVars, mgmtVars, cmdVars, beacon>>

None == [kind |-> "none", id |-> 0]
Torn == [kind |-> "torn", id |-> 0]
NoReply == [at |-> 0, frame |-> None, replaced |-> FALSE]

Init ==
  /\ role \in Roles
  /\ txbuf = <<>> /\ queued = 0
  /\ arm7q = None /\ offered = 0 /\ lastMgmt = 0
  /\ macTx = None /\ status = 0 /\ loc3 = None /\ cmd = None /\ retries = RetryLimit
  /\ irqCmd = FALSE /\ lastCmd = None /\ tries = 0 /\ over = FALSE
  /\ reply1 = 0 /\ reply2 = 0 /\ replyBuf = [b \in {1, 2} |-> None]
  /\ replying = NoReply
  /\ beacon = None
  /\ pc7 = "idle" /\ dest = 0

-----------------------------------------------------------------------------
(* The ARM9 *)

QueueFrame(kind) ==
  /\ queued < MaxFrames
  /\ queued' = queued + 1
  /\ txbuf' = Append(txbuf, [kind |-> kind, id |-> queued + 1])
  /\ UNCHANGED <<role, sharedVars, replyVars, mgmtVars, cmdVars, beacon>>

RawTxFrame == QueueFrame("data")
BeaconStart == role = "host" /\ QueueFrame("beacon")
MultiplayerHostCmdTxFrame == role = "host" /\ QueueFrame("cmd")
MultiplayerHostToClientDataTxFrame == role = "host" /\ QueueFrame("data")
MultiplayerClientToHostDataTxFrame == role = "client" /\ QueueFrame("data")

MultiplayerClientReplyTxFrame == role = "client" /\ QueueFrame("reply")

-----------------------------------------------------------------------------
(* The ARM7's own frames *)

(* Frames are sent with HDR_TX_STATUS 0, except that Wifi_SendNullFrame of  *)
(* a client leaves it uninitialized                                         *)
StatusOfOwnFrame == IF role = "client" THEN {0, 1, 5} ELSE {0}

(* Faulty variant: the old frame's HDR_TX_STATUS survives *)
TxRawKeepsStatus(f) ==
  /\ macTx' = f
  /\ retries' = RetryLimit
  /\ cmd' \in {cmd, None}
  /\ loc3' = f
  /\ over' = (over \/ cmd' # None)
  /\ lastMgmt' = f.id
  /\ UNCHANGED status

(* Wifi_TxRaw.  W_TXREQ_RESET cancels a CMD that has not begun.             *)
TxRaw(f) ==
  /\ macTx' = f
  /\ status' \in StatusOfOwnFrame
  /\ retries' = RetryLimit
  /\ cmd' \in {cmd, None}
  /\ loc3' = f
  /\ over' = (over \/ cmd' # None)
  /\ lastMgmt' = f.id

(* Faulty variant: a free channel is used at once, whatever is waiting *)
OvertakingAdd(f) ==
  \/ loc3 = None /\ TxRaw(f) /\ UNCHANGED arm7q
  \/ /\ loc3 # None /\ arm7q = None
     /\ arm7q' = f /\ UNCHANGED <<sharedVars, lastMgmt>>
  \/ loc3 # None /\ arm7q # None /\ UNCHANGED <<sharedVars, arm7q, lastMgmt>>

(* Wifi_TxArm7QueueAdd, which looks at LOC3 only *)
TxArm7QueueAdd(f) ==
  \/ loc3 = None /\ arm7q = None /\ TxRaw(f) /\ UNCHANGED arm7q
  \/ loc3 = None /\ arm7q # None /\ TxRaw(arm7q) /\ arm7q' = f
  \/ /\ loc3 # None /\ arm7q = None
     /\ arm7q' = f /\ UNCHANGED <<sharedVars, lastMgmt>>
  \/ loc3 # None /\ arm7q # None /\ UNCHANGED <<sharedVars, arm7q, lastMgmt>>

(* An authentication, association, deauthentication or null frame, sent by  *)
(* Wifi_NTR_Update or by the handler of a received frame, whatever is on    *)
(* the air                                                                  *)
SendManagement ==
  /\ pc7 = "idle"
  /\ offered < MaxMgmt
  /\ offered' = offered + 1
  /\ TxArm7QueueAdd([kind |-> "mgmt", id |-> offered + 1])
  /\ UNCHANGED <<arm9Vars, replyVars, cmdVars, beacon>>

-----------------------------------------------------------------------------
(* Wifi_TxAllQueueFlush, called by Wifi_NTR_Update and by the interrupt at  *)
(* the end of a transmission: one action for each thing it may do           *)

(* Faulty variant: a CMD on the air does not count *)
OnlyLoc3Idle == pc7 = "idle" /\ loc3 = None

(* Wifi_TxLoc3IsBusy and Wifi_TxCmdIsBusy *)
TxIdle == pc7 = "idle" /\ loc3 = None /\ cmd = None

(* Wifi_TxArm7QueueFlush *)
TxArm7QueueFlush ==
  /\ TxIdle
  /\ arm7q # None
  /\ TxRaw(arm7q)
  /\ arm7q' = None
  /\ UNCHANGED <<arm9Vars, replyVars, offered, cmdVars, beacon>>

(* Wifi_TxArm9QueueFlush finds a frame *)
TxArm9QueueFlush(kind) ==
  /\ TxIdle
  /\ arm7q = None
  /\ txbuf # <<>>
  /\ Head(txbuf).kind = kind

(* Wifi_TxArm9QueueCopyFirstData, for frames that fit: PacketRing has the   *)
(* others                                                                   *)
CopyFirstData ==
  /\ txbuf' = Tail(txbuf)
  /\ UNCHANGED <<role, queued>>

FlushByLoc3 ==
  /\ TxArm9QueueFlush("data")
  /\ CopyFirstData
  /\ macTx' = Head(txbuf)
  /\ status' = 0
  /\ retries' = RetryLimit
  /\ cmd' \in {cmd, None}
  /\ loc3' = Head(txbuf)
  /\ UNCHANGED <<over, replyVars, mgmtVars, cmdVars, beacon>>

(* Wifi_TxArm9QueueFlushByCmd, for a frame that is at the start of the      *)
(* buffer.  W_TXREQ_RESET cancels the other channels.                       *)
StartCmd(f) ==
  /\ cmd' = f
  /\ loc3' \in {loc3, None}

FlushByCmd ==
  /\ TxArm9QueueFlush("cmd")
  /\ CopyFirstData
  /\ macTx' = Head(txbuf)
  /\ status' = 0
  /\ retries' = RetryLimit
  /\ StartCmd(Head(txbuf))
  /\ lastCmd' = Head(txbuf)
  /\ tries' = 1
  /\ over' = FALSE
  /\ UNCHANGED <<replyVars, mgmtVars, irqCmd, beacon>>

(* Faulty variant: txbufRead is not moved *)
BeaconKeepsIndex ==
  /\ TxArm9QueueFlush("beacon")
  /\ beacon' = Head(txbuf)
  /\ UNCHANGED <<arm9Vars, sharedVars, replyVars, mgmtVars, cmdVars>>

FlushBeacon ==
  /\ TxArm9QueueFlush("beacon")
  /\ CopyFirstData
  /\ beacon' = Head(txbuf)
  /\ UNCHANGED <<sharedVars, replyVars, mgmtVars, cmdVars>>

(* Faulty variant: always the same buffer *)
FirstBuffer == 1

(* "the buffer not being used by W_TXBUF_REPLY2" *)
BackBuffer == IF reply2 = 1 THEN 2 ELSE 1

(* Wifi_TxArm9QueueFlushByReply: the destination, ...                       *)
ChooseReplyBuffer ==
  /\ TxArm9QueueFlush("reply")
  /\ dest' = BackBuffer
  /\ pc7' = "copy"
  /\ UNCHANGED <<arm9Vars, sharedVars, reply1, reply2, replyBuf, replying,
                 mgmtVars, cmdVars, beacon>>

(* ... a part of the copy, ...                                              *)
CopyReply ==
  /\ pc7 = "copy"
  /\ replyBuf' = [replyBuf EXCEPT ![dest] = Torn]
  /\ pc7' = "rest"
  /\ UNCHANGED <<arm9Vars, sharedVars, reply1, reply2, replying, dest,
                 mgmtVars, cmdVars, beacon>>

(* ... the rest of it and the end of Wifi_TxArm9QueueCopyFirstData, ...     *)
CopyReplyRest ==
  /\ pc7 = "rest"
  /\ CopyFirstData
  /\ replyBuf' = [replyBuf EXCEPT ![dest] = Head(txbuf)]
  /\ pc7' = "enable"
  /\ UNCHANGED <<sharedVars, reply1, reply2, replying, dest, mgmtVars,
                 cmdVars, beacon>>

(* ... W_TX_RETRYLIMIT and W_TXBUF_REPLY1                                   *)
EnableReply ==
  /\ pc7 = "enable"
  /\ reply1' = dest
  /\ retries' = RetryLimit
  /\ pc7' = "idle"
  /\ UNCHANGED <<arm9Vars, macTx, status, loc3, cmd, over, reply2, replyBuf,
                 replying, dest, mgmtVars, cmdVars, beacon>>

RetryLeft == status = 5 /\ retries > 0

Retry ==
  /\ retries' = retries - 1
  /\ status' = 0
  /\ StartCmd(macTx)
  /\ tries' = tries + 1
  /\ UNCHANGED <<macTx, over>>

(* Wifi_Intr_MultiplayCmdDone *)
MultiplayCmdDone ==
  /\ pc7 = "idle"
  /\ irqCmd
  /\ irqCmd' = FALSE
  /\ \/ RetryLeft /\ Retry
     \/ ~ RetryLeft /\ UNCHANGED <<sharedVars, tries>>
  /\ UNCHANGED <<arm9Vars, replyVars, mgmtVars, lastCmd, beacon>>

-----------------------------------------------------------------------------
(* External: the hardware *)

Loc3Ends ==
  /\ loc3 # None
  /\ loc3' = None
  /\ status' = 1
  /\ UNCHANGED <<arm9Vars, macTx, cmd, retries, over, replyVars, mgmtVars, cmdVars, beacon>>

(* Everybody answered (1, as every end that is not 5), or W_CMD_COUNT ran out (5) *)
CmdEnds(result) ==
  /\ cmd # None
  /\ cmd' = None
  /\ status' = result
  /\ irqCmd' = TRUE
  /\ UNCHANGED <<arm9Vars, macTx, loc3, retries, over, replyVars, mgmtVars, lastCmd,
                 tries, beacon>>

(* A CMD of the host arrives: RXCNT_MP_SWAP_TXBUF, "W_TXBUF_REPLY1 ->       *)
(* W_TXBUF_REPLY2; 0 -> W_TXBUF_REPLY1", and the current reply is sent.     *)
CmdArrives ==
  /\ role = "client"
  /\ replying = NoReply
  /\ reply2' = reply1
  /\ reply1' = 0
  /\ replying' = IF reply1 = 0 THEN NoReply
                 ELSE [at |-> reply1, frame |-> replyBuf[reply1],
                       replaced |-> pc7 # "idle" /\ dest = reply1]
  /\ UNCHANGED <<arm9Vars, sharedVars, replyBuf, pc7, dest, mgmtVars, cmdVars, beacon>>

ReplyEnds ==
  /\ replying # NoReply
  /\ replying' = NoReply
  /\ UNCHANGED <<arm9Vars, sharedVars, reply1, reply2, replyBuf, pc7, dest,
                 mgmtVars, cmdVars, beacon>>

-----------------------------------------------------------------------------

FlushByReply == ChooseReplyBuffer \/ CopyReply \/ CopyReplyRest \/ EnableReply

Arm7 ==
  \/ TxArm7QueueFlush
  \/ FlushByLoc3
  \/ FlushByCmd
  \/ FlushBeacon
  \/ FlushByReply
  \/ MultiplayCmdDone

Arm9 ==
  \/ RawTxFrame
  \/ BeaconStart
  \/ MultiplayerHostCmdTxFrame
  \/ MultiplayerHostToClientDataTxFrame
  \/ MultiplayerClientToHostDataTxFrame
  \/ MultiplayerClientReplyTxFrame

Hardware == Loc3Ends \/ CmdEnds(1) \/ CmdEnds(5) \/ ReplyEnds

Next ==
  \/ Arm9
  \/ SendManagement
  \/ Arm7
  \/ Hardware
  \/ CmdArrives

(* Wifi_NTR_Update runs every frame and interrupts are handled; a frame that *)
(* the hardware has begun ends, a CMD at the latest when W_CMD_COUNT is 0.   *)
Spec == Init /\ [][Next]_vars /\ WF_vars(Arm7) /\ WF_vars(Hardware)

-----------------------------------------------------------------------------
(* Properties *)

Frames(kinds, max) == [kind : kinds, id : 1 .. max]
Arm9Frames == Frames({"data", "cmd", "beacon", "reply"}, MaxFrames)
Arm7Frames == Frames({"mgmt"}, MaxMgmt)
Buffer == Arm9Frames \cup {None, Torn}

(* Every register, buffer and counter has its type. *)
TypeOK ==
  /\ role \in Roles
  /\ txbuf \in Seq(Arm9Frames) /\ queued \in 0 .. MaxFrames
  /\ arm7q \in Arm7Frames \cup {None} /\ offered \in 0 .. MaxMgmt
  /\ macTx \in Arm9Frames \cup Arm7Frames \cup {None} /\ status \in {0, 1, 5}
  /\ loc3 \in Arm9Frames \cup Arm7Frames \cup {None}
  /\ cmd \in Arm9Frames \cup Arm7Frames \cup {None}
  /\ retries \in 0 .. RetryLimit
  /\ irqCmd \in BOOLEAN
  /\ reply1 \in 0 .. 2 /\ reply2 \in 0 .. 2 /\ dest \in 0 .. 2
  /\ replyBuf \in [{1, 2} -> Buffer]
  /\ replying \in [at : 0 .. 2, frame : Buffer, replaced : BOOLEAN]
  /\ beacon \in Arm9Frames \cup {None}
  /\ pc7 \in {"idle", "copy", "rest", "enable"}
  /\ lastMgmt \in 0 .. MaxMgmt
  /\ lastCmd \in Arm9Frames \cup {None} /\ tries \in Nat
  /\ over \in BOOLEAN

(* The buffer that LOC3 and CMD share is not written while either of them   *)
(* sends from it, and they never send from it at the same time.             *)
(* Wifi_TxArm7QueueAdd breaks it ("No active transfer", tx_queue.c, after a *)
(* look at LOC3 only).                                                      *)
BufferIntact ==
  /\ loc3 # None => macTx = loc3 /\ cmd = None
  /\ cmd # None => macTx = cmd

(* The frame on LOC3 is always intact.  A CMD on the air shares its buffer  *)
(* with another frame only if Wifi_TxArm7QueueAdd wrote a management frame  *)
(* over it (over): Wifi_TxAllQueueFlush, the interrupts and the retries,    *)
(* also those that come late, keep to the rule.                             *)
SentIntact ==
  /\ TypeOK
  /\ loc3 # None => macTx = loc3
  /\ over \/ BufferIntact

(* What is sent as CMD is the last CMD frame of the ARM9, tried             *)
(* RetryLimit + 1 times at most, also when the retry comes after the buffer *)
(* was used for another frame.  Only a management frame that was written    *)
(* over a CMD on the air takes its place, and then no other frame does.     *)
CmdIsLast ==
  /\ cmd # None => cmd = lastCmd \/ (over /\ cmd.kind = "mgmt")
  /\ ~ over => tries <= RetryLimit + 1

(* The ARM7's own frames are not sent twice or out of turn: the one that    *)
(* waits is younger than every one that was sent.                           *)
MgmtInOrder == arm7q # None => arm7q.id > lastMgmt

(* "If there is a pre-existing packet that hasn't been sent to the host     *)
(* yet, it will be replaced by the new one" (dswifi9.h): the reply that a   *)
(* CMD asks for is one whole reply and is not written to while it is sent   *)
(* ("the buffer not being used by W_TXBUF_REPLY2", tx_queue.c), however     *)
(* many are prepared.  The exception is a CMD that arrives while the ARM7   *)
(* is replacing that very reply (replaced): the two halves of the copy and  *)
(* W_TXBUF_REPLY1 = 0 are not one step.                                     *)
ReplyIntact ==
  replying # NoReply /\ ~ replying.replaced =>
    /\ replying.frame.kind = "reply"
    /\ replyBuf[replying.at] = replying.frame

(* Whatever was queued leaves: once nobody adds frames, both queues are     *)
(* empty and the channels idle, for good.                                   *)
Drains == <>[](txbuf = <<>> /\ arm7q = None /\ loc3 = None /\ cmd = None)

=============================================================================
