----------------------------- MODULE PacketRing -----------------------------
(***************************************************************************)
(* The circular buffers through which the ARM7 and the ARM9 exchange       *)
(* packets without a lock: WifiData->rxbufData (the ARM7 writes, the ARM9  *)
(* reads) and WifiData->txbufData (the ARM9 writes, the ARM7 reads).  A    *)
(* packet is a size word, the data padded to 32 bits, and the place of the *)
(* next size word, which holds 0 until the next packet is complete.  A     *)
(* packet is never split: WIFI_SIZE_WRAP in place of a size sends the      *)
(* reader to the start of the buffer.                                      *)
(*                                                                         *)
(* Indices count 32-bit words (the code's byte offsets are multiples of    *)
(* 4).  Each action makes at most one access that the other processor can  *)
(* observe, so that writer and reader interleave between any two of them.  *)
(***************************************************************************)
EXTENDS Integers, Sequences

CONSTANTS
  Direction,   \* "rx": rxbufData, "tx": txbufData
  Size,        \* WIFI_RXBUFFER_SIZE / 4 or WIFI_TXBUFFER_SIZE / 4
  Lengths,     \* the lengths of packets, in bytes
  Data,        \* the values a word of data may have
  Header,      \* the values its first word may have
  Burst,       \* packets that one call of the ARM9's Wifi_NTR_Update handles
  CopyLimit,   \* buffer_end: the longest packet the ARM7 copies to MAC RAM
  MaxPackets   \* bound on the packets that are sent

ASSUME RingAssumption ==
  /\ Direction \in {"rx", "tx"}
  /\ Size \in Nat \ {0}
  /\ Lengths \subseteq Nat \ {0}
  /\ Data \subseteq Int
  /\ Header \subseteq Data
  /\ Burst \in Nat \ {0}
  /\ CopyLimit \in Nat
  /\ MaxPackets \in Nat

VARIABLES
  mem,       \* the words of the buffer
  wr,        \* rxbufWrite or txbufWrite
  rd,        \* rxbufRead or txbufRead
  wpc,       \* what the writer does next
  wpk,       \* the packet it is writing
  wpos,      \* size_idx: where the packet goes
  woff,      \* words of data it has copied
  refused,   \* the last call found no space and returned -1
  rpc,       \* what the reader does next
  rpos,      \* its local read_idx
  rlen,      \* the size word it has read
  cnt,       \* packets that this call of the reader has handled
  out,       \* the packet the reader handled last
  accepted,  \* history: the packets written
  at,        \* history: at[k] is the place of accepted[k]
  got        \* history: packets the reader has taken

writerVars == <<wr, wpc, wpk, wpos, woff, refused, accepted, at>>
readerVars == <<rd, rpc, rpos, rlen, cnt, out, got>>
vars == <<mem, writerVars, readerVars>>

WIFI_SIZE_WRAP == -1

(* round_up_32(), in words *)
WordsOf(len) == (len + 3) \div 4

(* The size word, the data and the place of the next size word *)
TotalSize(len) == 1 + WordsOf(len) + 1

Packets == UNION {[len : {n}, data : {d \in [0 .. WordsOf(n) - 1 -> Data] : d[0] \in Header}]
                    : n \in Lengths}
NoPacket == [len |-> 0, data |-> <<>>]

Init ==
  /\ mem = [i \in 0 .. Size - 1 |-> 0]
  /\ wr = 0 /\ rd = 0
  /\ wpc = "idle" /\ wpk = NoPacket /\ wpos = 0 /\ woff = 0 /\ refused = FALSE
  /\ rpc = "idle" /\ rpos = 0 /\ rlen = 0 /\ cnt = 0 /\ out = NoPacket
  /\ accepted = <<>> /\ at = <<>> /\ got = 0

Store(i, value) == mem' = [mem EXCEPT ![i] = value]

-----------------------------------------------------------------------------
(* The writer.  Wifi_RxBufferAllocBuffer and Wifi_TxBufferAllocBuffer, with *)
(* the index that the other processor may be about to advance.              *)

(* Faulty variants of the tests below *)
NeverAtStart(total) == FALSE
FitsPastReader(total) == rd > wr /\ wr + total < Size

FitsAtEnd(total) == rd <= wr /\ wr + total < Size
FitsAtStart(total) == rd <= wr /\ wr + total >= Size /\ total < rd
FitsBetween(total) == rd > wr /\ wr + total < rd
Fits(total) == FitsAtEnd(total) \/ FitsAtStart(total) \/ FitsBetween(total)

Refuse ==
  /\ wpc = "idle"
  /\ \E len \in Lengths : ~Fits(TotalSize(len))
  /\ refused' = TRUE
  /\ UNCHANGED <<mem, wr, wpc, wpk, wpos, woff, accepted, at, readerVars>>

Alloc ==
  /\ wpc = "idle"
  /\ Len(accepted) < MaxPackets
  /\ \E p \in Packets :
       /\ Fits(TotalSize(p.len))
       /\ wpk' = p
       /\ IF FitsAtStart(TotalSize(p.len))
            THEN wpos' = 0 /\ wpc' = "stop"
            ELSE wpos' = wr /\ wpc' = "data"
  /\ woff' = 0
  /\ refused' = FALSE
  /\ UNCHANGED <<mem, wr, accepted, at, readerVars>>

(* "Write the stop marker before we write the wrap marker" *)
WriteStop ==
  /\ wpc = "stop"
  /\ Store(0, 0)
  /\ wpc' = "wrap"
  /\ UNCHANGED <<wr, wpk, wpos, woff, refused, accepted, at, readerVars>>

WriteWrap ==
  /\ wpc = "wrap"
  /\ Store(wr, WIFI_SIZE_WRAP)
  /\ wpc' = "data"
  /\ UNCHANGED <<wr, wpk, wpos, woff, refused, accepted, at, readerVars>>

(* One word of the memcpy() or Wifi_MACRead() of the frame *)
WriteData ==
  /\ wpc = "data"
  /\ woff < WordsOf(wpk.len)
  /\ Store(wpos + 1 + woff, wpk.data[woff])
  /\ woff' = woff + 1
  /\ UNCHANGED <<wr, wpc, wpk, wpos, refused, accepted, at, readerVars>>

(* The place of the next size word *)
WriteEnd == wpos + 1 + WordsOf(wpk.len)

(* Faulty variant: the next block keeps its old contents *)
NoTerminator ==
  /\ wpc = "data"
  /\ woff = WordsOf(wpk.len)
  /\ wpc' = "publish"
  /\ UNCHANGED <<mem, wr, wpk, wpos, woff, refused, accepted, at, readerVars>>

(* "Mark the next block as empty" *)
WriteTerminator ==
  /\ wpc = "data"
  /\ woff = WordsOf(wpk.len)
  /\ Store(WriteEnd, 0)
  /\ wpc' = "publish"
  /\ UNCHANGED <<wr, wpk, wpos, woff, refused, accepted, at, readerVars>>

PublishWrite ==
  /\ wpc = "publish"
  /\ wr' = WriteEnd
  /\ wpc' = "size"
  /\ UNCHANGED <<mem, wpk, wpos, woff, refused, accepted, at, readerVars>>

(* "Now that the packet is finished, write real size of data": the packet   *)
(* becomes visible to the reader here.                                      *)
WriteSize ==
  /\ wpc = "size"
  /\ Store(wpos, wpk.len)
  /\ wpc' = "idle"
  /\ accepted' = Append(accepted, wpk)
  /\ at' = Append(at, wpos)
  /\ UNCHANGED <<wr, wpk, wpos, woff, refused, readerVars>>

-----------------------------------------------------------------------------
(* The reader of rxbufData: the loop of the ARM9's Wifi_NTR_Update, which   *)
(* follows a wrap marker with its local index only.                         *)

(* The packet that starts at position i, as the reader finds it *)
PacketAt(i, len) == [len |-> len, data |-> [j \in 0 .. WordsOf(len) - 1 |-> mem[i + 1 + j]]]

RxBegin ==
  /\ rpc = "idle"
  /\ rpos' = rd
  /\ cnt' = 0
  /\ rpc' = "head"
  /\ UNCHANGED <<mem, writerVars, rd, rlen, out, got>>

RxReadSize ==
  /\ rpc = "head"
  /\ \/ mem[rpos] = 0 /\ rpc' = "idle" /\ UNCHANGED <<rpos, rlen>>
     \/ mem[rpos] = WIFI_SIZE_WRAP /\ rpos' = 0 /\ rpc' = "wrapped" /\ UNCHANGED rlen
     \/ /\ mem[rpos] \notin {0, WIFI_SIZE_WRAP}
        /\ rlen' = mem[rpos] /\ rpc' = "handle" /\ UNCHANGED rpos
  /\ UNCHANGED <<mem, writerVars, rd, cnt, out, got>>

RxReadWrapped ==
  /\ rpc = "wrapped"
  /\ \/ mem[rpos] = 0 /\ rpc' = "idle" /\ UNCHANGED rlen
     \/ mem[rpos] # 0 /\ rlen' = mem[rpos] /\ rpc' = "handle"
  /\ UNCHANGED <<mem, writerVars, rd, rpos, cnt, out, got>>

(* lwIP, the multiplayer handlers and the raw handler read it in place. *)
RxHandle ==
  /\ rpc = "handle"
  /\ out' = PacketAt(rpos, rlen)
  /\ got' = got + 1
  /\ rpc' = "advance"
  /\ UNCHANGED <<mem, writerVars, rd, rpos, rlen, cnt>>

(* Faulty variant: rxbufRead is not updated *)
RxKeepsIndex ==
  /\ rpc = "advance"
  /\ rpos' = rpos + 1 + WordsOf(rlen)
  /\ cnt' = cnt + 1
  /\ rpc' = IF cnt' < Burst THEN "head" ELSE "idle"
  /\ UNCHANGED <<mem, writerVars, rd, rlen, out, got>>

RxAdvance ==
  /\ rpc = "advance"
  /\ rpos' = rpos + 1 + WordsOf(rlen)
  /\ rd' = rpos'
  /\ cnt' = cnt + 1
  /\ rpc' = IF cnt' < Burst THEN "head" ELSE "idle"
  /\ UNCHANGED <<mem, writerVars, rlen, out, got>>

RxReader == RxBegin \/ RxReadSize \/ RxReadWrapped \/ RxHandle \/ RxAdvance

-----------------------------------------------------------------------------
(* The reader of txbufData: Wifi_TxArm9QueueFlush takes one packet per call *)
(* and follows a wrap marker by moving txbufRead at once.                   *)

TxReadStatus ==
  /\ rpc = "idle"
  /\ mem[rd] # 0
  /\ \/ mem[rd] = WIFI_SIZE_WRAP /\ rd' = 0 /\ rpc' = "wrapped" /\ UNCHANGED rlen
     \/ /\ mem[rd] # WIFI_SIZE_WRAP
        /\ rlen' = mem[rd] /\ rpc' = "handle" /\ UNCHANGED rd
  /\ UNCHANGED <<mem, writerVars, rpos, cnt, out, got>>

(* Faulty variant: the word after a wrap marker is not checked for 0 *)
TxReadUnchecked ==
  /\ rpc = "wrapped"
  /\ rlen' = mem[rd] /\ rpc' = "handle"
  /\ UNCHANGED <<mem, writerVars, rd, rpos, cnt, out, got>>

TxReadWrapped ==
  /\ rpc = "wrapped"
  /\ \/ mem[rd] = 0 /\ rpc' = "idle" /\ UNCHANGED rlen
     \/ mem[rd] # 0 /\ rlen' = mem[rd] /\ rpc' = "handle"
  /\ UNCHANGED <<mem, writerVars, rd, rpos, cnt, out, got>>

(* Wifi_TxArm9QueueCopyFirstData: Wifi_MACWrite() of the whole packet *)
TxCopy ==
  /\ rpc = "handle"
  /\ rlen <= CopyLimit
  /\ rpos' = rd
  /\ out' = PacketAt(rd, rlen)
  /\ got' = got + 1
  /\ rpc' = "advance"
  /\ UNCHANGED <<mem, writerVars, rd, rlen, cnt>>

(* The packet is too long for the buffer in MAC RAM: only its size word is  *)
(* skipped.                                                                 *)
TxReject ==
  /\ rpc = "handle"
  /\ rlen > CopyLimit
  /\ rd' = rd + 1
  /\ rpc' = "idle"
  /\ UNCHANGED <<mem, writerVars, rpos, rlen, cnt, out, got>>

TxAdvance ==
  /\ rpc = "advance"
  /\ rd' = rd + 1 + WordsOf(rlen)
  /\ rpc' = "idle"
  /\ UNCHANGED <<mem, writerVars, rpos, rlen, cnt, out, got>>

TxReader == TxReadStatus \/ TxReadWrapped \/ TxCopy \/ TxReject \/ TxAdvance

-----------------------------------------------------------------------------

Finish == WriteStop \/ WriteWrap \/ WriteData \/ WriteTerminator \/ PublishWrite \/ WriteSize
Writer == Alloc \/ Refuse \/ Finish
Reader == (Direction = "rx" /\ RxReader) \/ (Direction = "tx" /\ TxReader)

Next == Writer \/ Reader

(* A writer runs to its end inside a critical section.  The ARM9's update   *)
(* thread and the ARM7's Wifi_Update call the readers at least once a frame. *)
Fairness == WF_vars(Finish) /\ WF_vars(Reader)

Spec == Init /\ [][Next]_vars /\ Fairness

-----------------------------------------------------------------------------

Points == {"idle", "stop", "wrap", "data", "publish", "size"}

(* The indices and program counters have their types: both processors'     *)
(* offsets stay inside the buffer whatever wraps around.                     *)
TypeOK ==
  /\ mem \in [0 .. Size - 1 -> Int]
  /\ wr \in 0 .. Size - 1
  /\ rd \in 0 .. Size - 1
  /\ wpc \in Points
  /\ wpk \in Packets \cup {NoPacket}
  /\ wpos \in 0 .. Size - 1
  /\ woff \in Nat
  /\ refused \in BOOLEAN
  /\ rpc \in {"idle", "head", "wrapped", "handle", "advance"}
  /\ rpos \in 0 .. Size - 1
  /\ rlen \in Lengths \cup {0}
  /\ cnt \in 0 .. Burst
  /\ out \in Packets \cup {NoPacket}
  /\ accepted \in Seq(Packets)
  /\ at \in Seq(0 .. Size - 1)
  /\ got \in Nat

EndOf(k) == at[k] + 1 + WordsOf(accepted[k].len)

(* Packets the reader has not released yet with rxbufRead or txbufRead *)
Unreleased == IF rpc = "advance" THEN got .. Len(accepted) ELSE got + 1 .. Len(accepted)

(* The writer never touches a packet that the reader may still look at: from *)
(* the moment its size word is written until the reader moves its index past *)
(* it, every word of it stays as it was written.                             *)
UnreadIntact ==
  \A k \in Unreleased : k > 0 =>
    /\ mem[at[k]] = accepted[k].len
    /\ PacketAt(at[k], accepted[k].len) = accepted[k]

(* What the reader hands on is the packet that was accepted in that turn:   *)
(* no packet is skipped, repeated, cut or read from a stale place.          *)
DeliveredInOrder == got > 0 => got <= Len(accepted) /\ out = accepted[got]

(* An empty buffer takes every packet that is less than half of it, where   *)
(* ever the indices stand: the buffer cannot get stuck refusing packets.    *)
EmptyTakesAny ==
  got = Len(accepted) /\ wpc = "idle" /\ rpc = "idle" =>
    \A len \in Lengths : 2 * TotalSize(len) < Size => Fits(TotalSize(len))

(* Every frame that the ARM9 could queue is copied to MAC RAM, as long as no *)
(* frame that MAC RAM cannot take was queued before it.                      *)
SentUnlessBlocked ==
  \A k \in 1 .. MaxPackets :
    (Len(accepted) >= k /\ \A j \in 1 .. k : accepted[j].len <= CopyLimit) ~> (got >= k)

(* The lock-free buffer implements the queue of whole packets. *)
Fifo == INSTANCE PacketFifo WITH queue <- SubSeq(accepted, got + 1, Len(accepted))
FifoSpec == Fifo!Spec

=============================================================================
