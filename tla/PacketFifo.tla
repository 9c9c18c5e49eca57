----------------------------- MODULE PacketFifo -----------------------------
(***************************************************************************)
(* What the shared packet buffers of WifiData promise: the other processor *)
(* sees the packets that were accepted, each one whole, once and in order, *)
(* and it does see each of them.  A packet may be refused, never lost      *)
(* after it has been accepted.                                             *)
(***************************************************************************)
EXTENDS Sequences

CONSTANTS
  Packets,   \* the packets that may be sent
  NoPacket   \* the value of "out" before the first packet is received

VARIABLES
  queue,   \* accepted packets that have not been received yet, oldest first
  out      \* the last packet received

vars == <<queue, out>>

Init ==
  /\ queue = <<>>
  /\ out = NoPacket

Send ==
  /\ \E p \in Packets : queue' = Append(queue, p)
  /\ UNCHANGED out

Receive ==
  /\ queue # <<>>
  /\ out' = Head(queue)
  /\ queue' = Tail(queue)

Next == Send \/ Receive

Spec == Init /\ [][Next]_vars /\ WF_vars(Receive)

=============================================================================
