-------------------------- MODULE PacketRingProofs --------------------------
(***************************************************************************)
(* The packet buffers deliver what was accepted, for every buffer size,    *)
(* every set of packet lengths and data words, and every interleaving of   *)
(* writer and reader.                                                      *)
(***************************************************************************)
EXTENDS PacketRing, SequenceTheorems, TLAPS

(* The packets behind the reader's published index *)
Released == IF rpc = "advance" THEN got - 1 ELSE got

(* Where the next size word goes: the place that holds the stop marker *)
Tail0 == IF wpc \in {"data", "publish", "size"} THEN wpos ELSE wr

(* Where the reader looks for packet k + 1, and where that packet is *)
ExpectedAfter(k) == IF k = Released THEN rd ELSE EndOf(k)
PlaceOf(k) == IF k <= Len(accepted) THEN at[k] ELSE Tail0

Live == Released + 1 .. Len(accepted)

(* Live packets lie between the reader and the tail; when the tail has      *)
(* wrapped around they are above the reader or below the tail.              *)
Placed(k) ==
  IF rd <= Tail0
    THEN rd <= at[k] /\ EndOf(k) <= Tail0
    ELSE (rd <= at[k] /\ EndOf(k) <= Size - 1) \/ EndOf(k) <= Tail0

Before(j, k) ==
  IF rd <= Tail0
    THEN EndOf(j) <= at[k]
    ELSE \/ rd <= at[j] /\ EndOf(j) <= at[k] /\ rd <= at[k]
         \/ rd <= at[j] /\ EndOf(k) <= Tail0
         \/ EndOf(j) <= at[k] /\ EndOf(k) <= Tail0

Intact(k) ==
  /\ mem[at[k]] = accepted[k].len
  /\ \A j \in 0 .. WordsOf(accepted[k].len) - 1 : mem[at[k] + 1 + j] = accepted[k].data[j]

Linked(k) ==
  \/ PlaceOf(k + 1) = ExpectedAfter(k)
  \/ PlaceOf(k + 1) = 0 /\ mem[ExpectedAfter(k)] = WIFI_SIZE_WRAP

Types ==
  /\ mem \in [0 .. Size - 1 -> Int]
  /\ wr \in 0 .. Size - 1
  /\ rd \in 0 .. Size - 1
  /\ wpc \in Points
  /\ wpos \in 0 .. Size - 1
  /\ woff \in Nat
  /\ rpc \in {"idle", "head", "wrapped", "handle", "advance"}
  /\ rpos \in 0 .. Size - 1
  /\ rlen \in Lengths \cup {0}
  /\ accepted \in Seq(Packets)
  /\ at \in Seq(0 .. Size - 1)
  /\ Len(at) = Len(accepted)
  /\ got \in 0 .. Len(accepted)
  /\ rpc = "advance" => got > 0

WriterInv ==
  /\ wpc # "idle" => wpk \in Packets
  /\ mem[Tail0] = 0
  /\ wpc \in {"stop", "wrap"} => wpos = 0 /\ WriteEnd < rd /\ rd <= wr /\ woff = 0
  /\ wpc = "wrap" => mem[0] = 0
  /\ wpc \in {"data", "publish", "size"} =>
       /\ WriteEnd <= Size - 1
       /\ Tail0 < rd => WriteEnd < rd
       /\ woff <= WordsOf(wpk.len)
       /\ \A j \in 0 .. woff - 1 : mem[wpos + 1 + j] = wpk.data[j]
  /\ wpc \in {"publish", "size"} => mem[WriteEnd] = 0 /\ woff = WordsOf(wpk.len)
  /\ wpc = "size" => wr = WriteEnd

ReaderInv ==
  /\ rpc = "head" => rpos = rd
  /\ rpc = "wrapped" /\ Direction = "rx" => rpos = 0 /\ mem[rd] = WIFI_SIZE_WRAP
  /\ rpc = "wrapped" /\ Direction = "tx" => rd = 0 /\ PlaceOf(got + 1) = 0
  /\ rpc = "handle" => got < Len(accepted) /\ rlen = accepted[got + 1].len
  /\ rpc = "handle" /\ Direction = "rx" => rpos = at[got + 1]
  /\ rpc = "handle" /\ Direction = "tx" => rd = at[got + 1]
  /\ rpc = "advance" => rlen = accepted[got].len
  /\ rpc = "advance" /\ Direction = "rx" => rpos = at[got]
  /\ rpc = "advance" /\ Direction = "tx" => rd = at[got]
  /\ Direction = "tx" => rpc # "head"

RingInv ==
  /\ Types
  /\ WriterInv
  /\ ReaderInv
  /\ \A k \in Live : Placed(k) /\ Intact(k)
  /\ \A j, k \in Live : j < k => Before(j, k)
  /\ \A k \in Released .. Len(accepted) : Linked(k)
  /\ DeliveredInOrder

-----------------------------------------------------------------------------

(* round_up_32() of a length is at least one word. *)
LEMMA WordsFact == \A n \in Lengths : WordsOf(n) \in Nat /\ WordsOf(n) >= 1
  BY RingAssumption DEF WordsOf

(* What a packet is made of. *)
LEMMA PacketFact ==
  \A p \in Packets : /\ p.len \in Lengths
                     /\ p.len \in Nat /\ p.len # 0 /\ p.len # WIFI_SIZE_WRAP
                     /\ WordsOf(p.len) \in Nat /\ WordsOf(p.len) >= 1
                     /\ p.data \in [0 .. WordsOf(p.len) - 1 -> Data]
                     /\ \A j \in 0 .. WordsOf(p.len) - 1 : p.data[j] \in Int
<1> SUFFICES ASSUME NEW n \in Lengths, NEW p \in [len : {n}, data : [0 .. WordsOf(n) - 1 -> Data]]
             PROVE  /\ p.len \in Lengths
                    /\ p.len \in Nat /\ p.len # 0 /\ p.len # WIFI_SIZE_WRAP
                    /\ WordsOf(p.len) \in Nat /\ WordsOf(p.len) >= 1
                    /\ p.data \in [0 .. WordsOf(p.len) - 1 -> Data]
                    /\ \A j \in 0 .. WordsOf(p.len) - 1 : p.data[j] \in Int
  BY DEF Packets
<1>1. p.len = n
  OBVIOUS
<1>2. p.data \in [0 .. WordsOf(n) - 1 -> Data]
  OBVIOUS
<1>3. \A j \in 0 .. WordsOf(n) - 1 : p.data[j] \in Int
  BY <1>2, RingAssumption
<1>4. QED
  BY <1>1, <1>2, <1>3, WordsFact, RingAssumption DEF WIFI_SIZE_WRAP

(* A refused packet changes nothing the reader or the writer relies on. *)
LEMMA RefuseStep == RingInv /\ Refuse => RingInv'
  BY DEF RingInv, Refuse, readerVars, Types, WriterInv, ReaderInv, Placed, Intact, Before,
         Linked, DeliveredInOrder, Live, Released, Tail0, ExpectedAfter, PlaceOf, EndOf, WriteEnd

(* Choosing a place changes nothing in the buffer: the packet that begins  *)
(* finds enough free space between the tail and the reader.                *)
LEMMA AllocStep == RingInv /\ Alloc => RingInv'
<1> SUFFICES ASSUME RingInv, Alloc PROVE RingInv'
  OBVIOUS
<1> PICK p \in Packets :
       /\ Fits(TotalSize(p.len))
       /\ wpk' = p
       /\ IF FitsAtStart(TotalSize(p.len))
            THEN wpos' = 0 /\ wpc' = "stop"
            ELSE wpos' = wr /\ wpc' = "data"
  BY DEF Alloc
<1>0. WordsOf(p.len) \in Nat /\ WordsOf(p.len) >= 1
  BY PacketFact
<1>1. Tail0 = wr /\ Tail0' = wr
  BY DEF RingInv, Types, Tail0, Alloc
<1>2. Types'
  BY RingAssumption DEF RingInv, Types, Alloc, readerVars, Points
<1>3. WriterInv'
  <2>1. /\ rd' = rd /\ wr' = wr /\ woff' = 0 /\ mem' = mem /\ mem[wr] = 0
        /\ rd \in 0 .. Size - 1 /\ wr \in 0 .. Size - 1 /\ Size \in Nat
    BY <1>1, RingAssumption DEF RingInv, Types, Alloc, readerVars, WriterInv
  <2>2. CASE FitsAtStart(TotalSize(p.len))
    <3>1. wpos' = 0 /\ wpc' = "stop" /\ WriteEnd' < rd' /\ rd' <= wr'
      BY <1>0, <2>1, <2>2 DEF FitsAtStart, TotalSize, WriteEnd
    <3>2. QED
      BY <1>1, <2>1, <3>1 DEF WriterInv
  <2>3. CASE ~FitsAtStart(TotalSize(p.len))
    <3>1. WriteEnd' = wr + 1 + WordsOf(p.len) /\ wpos' = wr /\ wpc' = "data"
      BY <2>3 DEF WriteEnd
    <3>2. WriteEnd' <= Size - 1 /\ (wr < rd => WriteEnd' < rd)
      BY <1>0, <2>1, <2>3, <3>1 DEF Fits, FitsAtEnd, FitsAtStart, FitsBetween, TotalSize
    <3>3. woff' <= WordsOf(wpk'.len) /\ 0 .. woff' - 1 = {}
      BY <1>0, <2>1
    <3>4. QED
      BY <1>1, <2>1, <3>1, <3>2, <3>3 DEF WriterInv
  <2>4. QED
    BY <2>2, <2>3
<1>4. UNCHANGED <<rd, mem, accepted, at, got, rpc, rpos, rlen, out>>
  BY DEF Alloc, readerVars
<1>5. Live' = Live /\ Released' = Released
  BY <1>4 DEF Live, Released
<1>6. \A k : Placed(k)' = Placed(k) /\ Intact(k)' = Intact(k) /\ PlaceOf(k)' = PlaceOf(k)
  BY <1>4, <1>1 DEF Placed, Intact, PlaceOf, EndOf
<1>7. \A j, k : Before(j, k)' = Before(j, k)
  BY <1>4, <1>1 DEF Before, EndOf
<1>8. \A k : Linked(k)' = Linked(k)
  BY <1>4, <1>5, <1>1 DEF Linked, ExpectedAfter, EndOf, PlaceOf
<1>9. ReaderInv' /\ DeliveredInOrder'
  BY <1>4, <1>6 DEF RingInv, ReaderInv, DeliveredInOrder
<1>10. QED
  BY <1>2, <1>3, <1>4, <1>5, <1>6, <1>7, <1>8, <1>9 DEF RingInv

-----------------------------------------------------------------------------

(* Where a live packet can be. *)
LEMMA LiveFact ==
  ASSUME RingInv
  PROVE  /\ Released \in Nat /\ Released <= Len(accepted) /\ Len(accepted) \in Nat
         /\ Tail0 \in 0 .. Size - 1 /\ rd \in 0 .. Size - 1 /\ Size \in Nat
         /\ \A k \in Live : /\ k \in Nat /\ k > Released /\ k <= Len(accepted)
                            /\ accepted[k] \in Packets
                            /\ at[k] \in 0 .. Size - 1
                            /\ WordsOf(accepted[k].len) \in Nat
                            /\ WordsOf(accepted[k].len) >= 1
                            /\ EndOf(k) = at[k] + 1 + WordsOf(accepted[k].len)
                            /\ EndOf(k) \in 0 .. Size - 1
<1>1. /\ Released \in Nat /\ Released <= Len(accepted) /\ Len(accepted) \in Nat
      /\ Tail0 \in 0 .. Size - 1 /\ rd \in 0 .. Size - 1 /\ Size \in Nat
  BY RingAssumption DEF RingInv, Types, Released, Tail0
<1>2. ASSUME NEW k \in Live
      PROVE  /\ k \in Nat /\ k > Released /\ k <= Len(accepted)
             /\ accepted[k] \in Packets
             /\ at[k] \in 0 .. Size - 1
             /\ WordsOf(accepted[k].len) \in Nat
             /\ WordsOf(accepted[k].len) >= 1
             /\ EndOf(k) = at[k] + 1 + WordsOf(accepted[k].len)
             /\ EndOf(k) \in 0 .. Size - 1
  <2>1. k \in Nat /\ k > Released /\ k <= Len(accepted) /\ k \in 1 .. Len(accepted)
    BY <1>1 DEF Live
  <2>2. accepted[k] \in Packets /\ at[k] \in 0 .. Size - 1
    <3>1. accepted \in Seq(Packets) /\ at \in Seq(0 .. Size - 1) /\ Len(at) = Len(accepted)
      BY DEF RingInv, Types
    <3>2. accepted[k] \in Packets
      BY <2>1, <3>1, ElementOfSeq
    <3>3. at[k] \in 0 .. Size - 1
      BY <2>1, <3>1, ElementOfSeq
    <3>4. QED
      BY <3>2, <3>3
  <2>3. WordsOf(accepted[k].len) \in Nat /\ WordsOf(accepted[k].len) >= 1
    BY <2>2, PacketFact
  <2>4. EndOf(k) = at[k] + 1 + WordsOf(accepted[k].len)
    BY DEF EndOf
  <2>5. Placed(k)
    BY DEF RingInv
  <2>6. EndOf(k) <= Size - 1
    BY <1>1, <2>2, <2>3, <2>4, <2>5 DEF Placed
  <2>7. QED
    BY <1>1, <2>1, <2>2, <2>3, <2>4, <2>6
<1>3. QED
  BY <1>1, <1>2

(* The words the reader starts from lie outside the writer's free space.    *)
LEMMA ExpectedFact ==
  ASSUME RingInv, NEW k \in Released .. Len(accepted)
  PROVE  /\ ExpectedAfter(k) \in 0 .. Size - 1
         /\ rd <= Tail0 => rd <= ExpectedAfter(k) /\ ExpectedAfter(k) <= Tail0
         /\ Tail0 < rd => rd <= ExpectedAfter(k) \/ ExpectedAfter(k) <= Tail0
<1>1. CASE k = Released
  BY <1>1, LiveFact DEF ExpectedAfter
<1>2. CASE k # Released
  <2>1. k \in Live
    BY <1>2, LiveFact DEF Live
  <2>2. Placed(k) /\ ExpectedAfter(k) = EndOf(k)
    BY <1>2, <2>1 DEF RingInv, ExpectedAfter
  <2>3. QED
    BY <2>1, <2>2, LiveFact DEF Placed
<1>3. QED
  BY <1>1, <1>2

(* A store outside the live packets and the words that lead to them changes *)
(* nothing for the reader.                                                  *)
LEMMA StoreFrame ==
  ASSUME RingInv, NEW i \in 0 .. Size - 1, NEW v \in Int, Store(i, v),
         UNCHANGED <<readerVars, accepted, at>>, Tail0' = Tail0,
         \A k \in Live : i < at[k] \/ EndOf(k) <= i,
         \A k \in Released .. Len(accepted) : ExpectedAfter(k) # i
  PROVE  /\ ReaderInv' /\ DeliveredInOrder'
         /\ \A k \in Live' : Placed(k)' /\ Intact(k)'
         /\ \A j, k \in Live' : j < k => Before(j, k)'
         /\ \A k \in (Released .. Len(accepted))' : Linked(k)'
<1>1. /\ rd' = rd /\ rpc' = rpc /\ got' = got /\ accepted' = accepted /\ at' = at
      /\ rpos' = rpos /\ rlen' = rlen /\ out' = out
  BY DEF readerVars
<1>2. Live' = Live /\ Released' = Released /\ \A k : EndOf(k)' = EndOf(k)
  BY <1>1 DEF Live, Released, EndOf
<1>3. \A x \in 0 .. Size - 1 : x # i => mem'[x] = mem[x]
  BY DEF RingInv, Types, Store
<1>4. \A k : PlaceOf(k)' = PlaceOf(k) /\ ExpectedAfter(k)' = ExpectedAfter(k)
  BY <1>1, <1>2 DEF PlaceOf, ExpectedAfter
<1>5. ASSUME NEW k \in Live PROVE Placed(k)' /\ Intact(k)'
  <2>1. Placed(k) /\ Intact(k)
    BY DEF RingInv
  <2> DEFINE n == WordsOf(accepted[k].len)
  <2>0. /\ at[k] \in Nat /\ n \in Nat /\ n >= 1 /\ at[k] + 1 + n <= Size - 1
        /\ i < at[k] \/ at[k] + 1 + n <= i
        /\ Size \in Nat
    BY LiveFact
  <2> HIDE DEF n
  <2>2. mem'[at[k]] = mem[at[k]]
    BY <1>3, <2>0
  <2>3. ASSUME NEW j \in 0 .. n - 1
        PROVE  mem'[at[k] + 1 + j] = mem[at[k] + 1 + j]
    BY <1>3, <2>0
  <2> USE DEF n
  <2>4. QED
    BY <1>1, <1>2, <2>1, <2>2, <2>3 DEF Placed, Intact
<1>6. ASSUME NEW j \in Live, NEW k \in Live, j < k PROVE Before(j, k)'
  BY <1>1, <1>2, <1>6 DEF RingInv, Before
<1>7. ASSUME NEW k \in Released .. Len(accepted) PROVE Linked(k)'
  <2>1. Linked(k)
    BY DEF RingInv
  <2>2. mem'[ExpectedAfter(k)] = mem[ExpectedAfter(k)]
    BY <1>3, ExpectedFact
  <2>3. QED
    BY <1>4, <2>1, <2>2 DEF Linked
<1>8. ReaderInv' /\ DeliveredInOrder'
  <2>1. mem'[rd] = mem[rd]
    <3>1. ExpectedAfter(Released) = rd /\ Released \in Released .. Len(accepted)
      BY LiveFact DEF ExpectedAfter
    <3>2. QED
      BY <1>3, <3>1, LiveFact
  <2>2. QED
    BY <1>1, <1>4, <2>1 DEF RingInv, ReaderInv, DeliveredInOrder
<1>9. QED
  BY <1>1, <1>2, <1>5, <1>6, <1>7, <1>8

(* The free space above the tail. *)
LEMMA FreeAboveTail ==
  ASSUME RingInv, NEW i \in 0 .. Size - 1, Tail0 < i, Tail0 < rd => i < rd
  PROVE  /\ \A k \in Live : i < at[k] \/ EndOf(k) <= i
         /\ \A k \in Released .. Len(accepted) : ExpectedAfter(k) # i
<1>1. ASSUME NEW k \in Live PROVE i < at[k] \/ EndOf(k) <= i
  <2>1. Placed(k)
    BY DEF RingInv
  <2>2. QED
    BY <2>1, LiveFact DEF Placed
<1>2. ASSUME NEW k \in Released .. Len(accepted) PROVE ExpectedAfter(k) # i
  BY ExpectedFact, LiveFact
<1>3. QED
  BY <1>1, <1>2

-----------------------------------------------------------------------------
(* The writer's steps *)

(* The packet being written and the places it needs. *)
LEMMA WriterFact ==
  ASSUME RingInv, wpc # "idle"
  PROVE  /\ wpk \in Packets
         /\ WordsOf(wpk.len) \in Nat /\ WordsOf(wpk.len) >= 1
         /\ wpos \in Nat /\ woff \in Nat /\ wr \in 0 .. Size - 1
         /\ WriteEnd = wpos + 1 + WordsOf(wpk.len)
         /\ wpc \in {"data", "publish", "size"} => Tail0 = wpos
         /\ wpc \in {"stop", "wrap"} => Tail0 = wr
<1>1. wpk \in Packets
  BY DEF RingInv, WriterInv
<1>2. QED
  BY <1>1, PacketFact DEF RingInv, Types, WriteEnd, Tail0

(* The stop marker goes to word 0 while the reader is above it. *)
LEMMA WriteStopStep == RingInv /\ WriteStop => RingInv'
<1> SUFFICES ASSUME RingInv, WriteStop PROVE RingInv'
  OBVIOUS
<1>1. /\ wpc = "stop" /\ wpc' = "wrap" /\ Store(0, 0)
      /\ UNCHANGED <<wr, wpk, wpos, woff, accepted, at, readerVars>>
  BY DEF WriteStop
<1>2. wpos = 0 /\ WriteEnd < rd /\ rd <= wr /\ woff = 0 /\ mem[wr] = 0 /\ WriteEnd \in Nat
  BY <1>1, WriterFact DEF RingInv, WriterInv
<1>3. Tail0 = wr /\ Tail0' = Tail0 /\ rd' = rd /\ WriteEnd' = WriteEnd
  BY <1>1 DEF Tail0, readerVars, WriteEnd
<1>4. \A k \in Live : 0 < at[k] \/ EndOf(k) <= 0
  <2> SUFFICES ASSUME NEW k \in Live PROVE 0 < at[k]
    OBVIOUS
  <2>1. Placed(k)
    BY DEF RingInv
  <2>2. QED
    BY <1>2, <1>3, <2>1, LiveFact DEF Placed
<1>5. \A k \in Released .. Len(accepted) : ExpectedAfter(k) # 0
  BY <1>2, <1>3, ExpectedFact, LiveFact
<1>6. 0 \in 0 .. Size - 1
  BY <1>2, LiveFact
<1>7. /\ ReaderInv' /\ DeliveredInOrder'
      /\ \A k \in Live' : Placed(k)' /\ Intact(k)'
      /\ \A j, k \in Live' : j < k => Before(j, k)'
      /\ \A k \in (Released .. Len(accepted))' : Linked(k)'
  BY <1>1, <1>3, <1>4, <1>5, <1>6, StoreFrame
<1>8. mem' \in [0 .. Size - 1 -> Int] /\ mem'[0] = 0 /\ mem'[wr] = 0
  BY <1>1, <1>2, <1>6 DEF RingInv, Types, Store
<1>9. Types'
  BY <1>1, <1>8 DEF RingInv, Types, readerVars, Points
<1>10. WriterInv'
  BY <1>1, <1>2, <1>3, <1>8, WriterFact DEF WriterInv
<1>11. QED
  BY <1>7, <1>9, <1>10 DEF RingInv

(* A word of the data goes to the free space above the tail. *)
LEMMA WriteDataStep == RingInv /\ WriteData => RingInv'
<1> SUFFICES ASSUME RingInv, WriteData PROVE RingInv'
  OBVIOUS
<1> DEFINE i == wpos + 1 + woff
<1>1. /\ wpc = "data" /\ Store(i, wpk.data[woff]) /\ woff' = woff + 1
      /\ woff < WordsOf(wpk.len)
      /\ UNCHANGED <<wr, wpc, wpk, wpos, accepted, at, readerVars>>
  BY DEF WriteData
<1>2. /\ WriteEnd <= Size - 1 /\ (Tail0 < rd => WriteEnd < rd) /\ mem[Tail0] = 0
      /\ \A j \in 0 .. woff - 1 : mem[wpos + 1 + j] = wpk.data[j]
  BY <1>1 DEF RingInv, WriterInv
<1>3. Tail0 = wpos /\ Tail0' = Tail0 /\ rd' = rd /\ WriteEnd' = WriteEnd
  BY <1>1 DEF Tail0, readerVars, WriteEnd
<1>4. i \in 0 .. Size - 1 /\ Tail0 < i /\ (Tail0 < rd => i < rd)
  BY <1>1, <1>2, <1>3, WriterFact, LiveFact
<1>5. wpk.data[woff] \in Int
  BY <1>1, WriterFact, PacketFact
<1>6. /\ \A k \in Live : i < at[k] \/ EndOf(k) <= i
      /\ \A k \in Released .. Len(accepted) : ExpectedAfter(k) # i
  BY <1>4, FreeAboveTail
<1>7. /\ ReaderInv' /\ DeliveredInOrder'
      /\ \A k \in Live' : Placed(k)' /\ Intact(k)'
      /\ \A j, k \in Live' : j < k => Before(j, k)'
      /\ \A k \in (Released .. Len(accepted))' : Linked(k)'
  <2> HIDE DEF i
  <2>1. QED
    BY <1>1, <1>3, <1>4, <1>5, <1>6, StoreFrame
<1>8. mem' = [mem EXCEPT ![i] = wpk.data[woff]] /\ mem \in [0 .. Size - 1 -> Int]
  BY <1>1 DEF RingInv, Types, Store
<1>9. Types'
  BY <1>1, <1>4, <1>5, <1>8 DEF RingInv, Types, readerVars
<1>10. WriterInv'
  <2>1. mem'[Tail0] = 0
    BY <1>2, <1>4, <1>8, LiveFact
  <2>2. ASSUME NEW j \in 0 .. woff PROVE mem'[wpos + 1 + j] = wpk.data[j]
    <3>1. wpos \in Nat /\ woff \in Nat /\ i \in 0 .. Size - 1
      BY <1>1, <1>4, WriterFact
    <3>2. CASE j = woff
      BY <1>8, <3>1, <3>2
    <3>3. CASE j # woff
      BY <1>2, <1>8, <3>1, <3>3
    <3>4. QED
      BY <3>2, <3>3
  <2>3. woff' <= WordsOf(wpk.len) /\ 0 .. woff' - 1 = 0 .. woff
    BY <1>1, WriterFact
  <2>4. QED
    BY <1>1, <1>2, <1>3, <2>1, <2>2, <2>3, WriterFact DEF WriterInv
<1>11. QED
  BY <1>7, <1>9, <1>10 DEF RingInv

(* So does the stop marker of the next packet. *)
LEMMA WriteTerminatorStep == RingInv /\ WriteTerminator => RingInv'
<1> SUFFICES ASSUME RingInv, WriteTerminator PROVE RingInv'
  OBVIOUS
<1>1. /\ wpc = "data" /\ wpc' = "publish" /\ Store(WriteEnd, 0)
      /\ woff = WordsOf(wpk.len)
      /\ UNCHANGED <<wr, wpk, wpos, woff, accepted, at, readerVars>>
  BY DEF WriteTerminator
<1>2. /\ WriteEnd <= Size - 1 /\ (Tail0 < rd => WriteEnd < rd) /\ mem[Tail0] = 0
      /\ \A j \in 0 .. woff - 1 : mem[wpos + 1 + j] = wpk.data[j]
  BY <1>1 DEF RingInv, WriterInv
<1>3. Tail0 = wpos /\ Tail0' = Tail0 /\ rd' = rd /\ WriteEnd' = WriteEnd
  BY <1>1 DEF Tail0, readerVars, WriteEnd
<1>4. WriteEnd \in 0 .. Size - 1 /\ Tail0 < WriteEnd
  BY <1>1, <1>2, <1>3, WriterFact, LiveFact
<1>5. /\ \A k \in Live : WriteEnd < at[k] \/ EndOf(k) <= WriteEnd
      /\ \A k \in Released .. Len(accepted) : ExpectedAfter(k) # WriteEnd
  BY <1>2, <1>4, FreeAboveTail
<1>6. /\ ReaderInv' /\ DeliveredInOrder'
      /\ \A k \in Live' : Placed(k)' /\ Intact(k)'
      /\ \A j, k \in Live' : j < k => Before(j, k)'
      /\ \A k \in (Released .. Len(accepted))' : Linked(k)'
  BY <1>1, <1>3, <1>4, <1>5, StoreFrame
<1>7. mem' = [mem EXCEPT ![WriteEnd] = 0] /\ mem \in [0 .. Size - 1 -> Int]
  BY <1>1 DEF RingInv, Types, Store
<1>8. Types'
  BY <1>1, <1>4, <1>7 DEF RingInv, Types, readerVars, Points
<1>9. WriterInv'
  <2>1. mem'[Tail0] = 0 /\ mem'[WriteEnd] = 0
    BY <1>2, <1>4, <1>7, LiveFact
  <2>2. ASSUME NEW j \in 0 .. woff - 1 PROVE mem'[wpos + 1 + j] = wpk.data[j]
    BY <1>1, <1>2, <1>4, <1>7, WriterFact
  <2>3. QED
    BY <1>1, <1>2, <1>3, <2>1, <2>2, WriterFact DEF WriterInv
<1>10. QED
  BY <1>6, <1>8, <1>9 DEF RingInv

(* Publishing the write index moves nothing that the reader looks at. *)
LEMMA PublishWriteStep == RingInv /\ PublishWrite => RingInv'
<1> SUFFICES ASSUME RingInv, PublishWrite PROVE RingInv'
  OBVIOUS
<1>1. /\ wpc = "publish" /\ wpc' = "size" /\ wr' = WriteEnd
      /\ UNCHANGED <<mem, wpk, wpos, woff, accepted, at, readerVars>>
  BY DEF PublishWrite
<1>2. Tail0' = Tail0 /\ WriteEnd' = WriteEnd /\ Tail0 = wpos
  BY <1>1 DEF Tail0, WriteEnd
<1>3. WriteEnd \in 0 .. Size - 1
  BY <1>1, WriterFact DEF RingInv, WriterInv
<1>4. /\ rd' = rd /\ rpc' = rpc /\ got' = got /\ rpos' = rpos /\ rlen' = rlen /\ out' = out
  BY <1>1 DEF readerVars
<1>5. Types'
  BY <1>1, <1>3, <1>4 DEF RingInv, Types, Points
<1>6. WriterInv'
  BY <1>1, <1>2, <1>4 DEF RingInv, WriterInv
<1>7. Live' = Live /\ Released' = Released
  BY <1>1, <1>4 DEF Live, Released
<1>8. \A k : Placed(k)' = Placed(k) /\ Intact(k)' = Intact(k) /\ PlaceOf(k)' = PlaceOf(k)
  BY <1>1, <1>2, <1>4 DEF Placed, Intact, PlaceOf, EndOf
<1>9. \A j, k : Before(j, k)' = Before(j, k)
  BY <1>1, <1>2, <1>4 DEF Before, EndOf
<1>10. \A k : Linked(k)' = Linked(k)
  BY <1>1, <1>2, <1>4, <1>7 DEF Linked, ExpectedAfter, EndOf, PlaceOf
<1>11. ReaderInv' /\ DeliveredInOrder'
  BY <1>1, <1>4, <1>8 DEF RingInv, ReaderInv, DeliveredInOrder
<1>12. QED
  BY <1>1, <1>5, <1>6, <1>7, <1>8, <1>9, <1>10, <1>11 DEF RingInv

(* With the wrap marker the tail moves to word 0, below the reader. *)
LEMMA WriteWrapStep == RingInv /\ WriteWrap => RingInv'
<1> SUFFICES ASSUME RingInv, WriteWrap PROVE RingInv'
  OBVIOUS
<1>1. /\ wpc = "wrap" /\ wpc' = "data" /\ Store(wr, WIFI_SIZE_WRAP)
      /\ UNCHANGED <<wr, wpk, wpos, woff, accepted, at, readerVars>>
  BY DEF WriteWrap
<1>2. /\ wpos = 0 /\ WriteEnd < rd /\ rd <= wr /\ woff = 0 /\ mem[0] = 0
      /\ WriteEnd \in Nat /\ 0 < WriteEnd
  BY <1>1, WriterFact DEF RingInv, WriterInv
<1>3. /\ Tail0 = wr /\ Tail0' = 0 /\ WriteEnd' = WriteEnd
      /\ rd' = rd /\ rpc' = rpc /\ got' = got /\ rpos' = rpos /\ rlen' = rlen /\ out' = out
  BY <1>1, <1>2 DEF Tail0, readerVars, WriteEnd
<1>4. mem' = [mem EXCEPT ![wr] = WIFI_SIZE_WRAP] /\ mem \in [0 .. Size - 1 -> Int]
  BY <1>1 DEF RingInv, Types, Store
<1>5. /\ \A x \in 0 .. Size - 1 : x # wr => mem'[x] = mem[x]
      /\ mem'[wr] = WIFI_SIZE_WRAP /\ mem' \in [0 .. Size - 1 -> Int]
      /\ wr \in 0 .. Size - 1 /\ Size \in Nat
  BY <1>1, <1>4, WriterFact, RingAssumption DEF WIFI_SIZE_WRAP
<1>6. Types'
  BY <1>1, <1>3, <1>5 DEF RingInv, Types, Points
<1>7. WriterInv'
  <2>1. mem'[0] = 0
    BY <1>2, <1>5, LiveFact
  <2>2. WriteEnd <= Size - 1 /\ 0 .. woff - 1 = {} /\ woff <= WordsOf(wpk.len)
    BY <1>1, <1>2, <1>5, LiveFact, WriterFact
  <2>3. QED
    BY <1>1, <1>2, <1>3, <2>1, <2>2, WriterFact DEF WriterInv
<1>8. Live' = Live /\ Released' = Released /\ \A k : EndOf(k)' = EndOf(k)
  BY <1>1, <1>3 DEF Live, Released, EndOf
<1>9. ASSUME NEW k \in Live PROVE Placed(k)' /\ Intact(k)'
  <2> DEFINE n == WordsOf(accepted[k].len)
  <2>1. Placed(k) /\ Intact(k)
    BY DEF RingInv
  <2>2. /\ at[k] \in Nat /\ n \in Nat /\ n >= 1 /\ EndOf(k) = at[k] + 1 + n
        /\ rd <= at[k] /\ EndOf(k) <= wr /\ at[k] + 1 + n <= wr
        /\ rd \in Nat /\ wr \in Nat /\ wr <= Size - 1 /\ Size \in Nat
    BY <1>2, <1>3, <1>5, <2>1, LiveFact DEF Placed
  <2> HIDE DEF n
  <2>3. mem'[at[k]] = mem[at[k]]
    BY <1>5, <2>2
  <2>4. ASSUME NEW j \in 0 .. n - 1 PROVE mem'[at[k] + 1 + j] = mem[at[k] + 1 + j]
    <3>1. at[k] + 1 + j \in 0 .. Size - 1 /\ at[k] + 1 + j # wr
      BY <2>2
    <3>2. QED
      BY <1>5, <3>1
  <2> USE DEF n
  <2>5. Intact(k)'
    BY <1>1, <2>1, <2>3, <2>4 DEF Intact
  <2>6. Placed(k)'
    BY <1>1, <1>2, <1>3, <1>5, <1>8, <2>2 DEF Placed
  <2>7. QED
    BY <2>5, <2>6
<1>10. ASSUME NEW j \in Live, NEW k \in Live, j < k PROVE Before(j, k)'
  <2>1. Before(j, k) /\ Placed(j) /\ Placed(k)
    BY <1>10 DEF RingInv
  <2>2. rd <= at[j] /\ rd <= at[k] /\ EndOf(j) <= at[k]
    BY <1>2, <1>3, <2>1 DEF Before, Placed
  <2>3. QED
    BY <1>1, <1>2, <1>3, <1>8, <2>2, LiveFact DEF Before
<1>11. ASSUME NEW k \in Released .. Len(accepted) PROVE Linked(k)'
  <2>1. Linked(k) /\ ExpectedAfter(k)' = ExpectedAfter(k)
    BY <1>3, <1>8 DEF RingInv, ExpectedAfter
  <2>2. CASE k = Len(accepted)
    <3>1. PlaceOf(k + 1) = wr /\ PlaceOf(k + 1)' = 0
      BY <1>1, <1>3, <2>2, LiveFact DEF PlaceOf
    <3>2. ExpectedAfter(k) = wr
      BY <1>2, <1>5, <2>1, <3>1, LiveFact DEF Linked
    <3>3. QED
      BY <1>5, <2>1, <3>1, <3>2 DEF Linked
  <2>3. CASE k # Len(accepted)
    <3>1. PlaceOf(k + 1)' = PlaceOf(k + 1)
      BY <1>1, <2>3, LiveFact DEF PlaceOf
    <3>2. mem[ExpectedAfter(k)] = WIFI_SIZE_WRAP => mem'[ExpectedAfter(k)] = WIFI_SIZE_WRAP
      BY <1>5, ExpectedFact
    <3>3. QED
      BY <2>1, <3>1, <3>2 DEF Linked
  <2>4. QED
    BY <2>2, <2>3
<1>12. ReaderInv' /\ DeliveredInOrder'
  <2>1. mem[rd] = WIFI_SIZE_WRAP => mem'[rd] = WIFI_SIZE_WRAP
    BY <1>5, LiveFact
  <2>2. ~(rpc = "wrapped" /\ Direction = "tx")
    BY <1>2, LiveFact DEF RingInv, ReaderInv
  <2>3. QED
    BY <1>1, <1>3, <2>1, <2>2 DEF RingInv, ReaderInv, DeliveredInOrder
<1>13. QED
  BY <1>1, <1>3, <1>6, <1>7, <1>8, <1>9, <1>10, <1>11, <1>12 DEF RingInv

(* Writing the size word makes the packet live. *)
LEMMA WriteSizeStep == RingInv /\ WriteSize => RingInv'
<1> SUFFICES ASSUME RingInv, WriteSize PROVE RingInv'
  OBVIOUS
<1>0. PICK s \in Nat : s = Len(accepted)
  BY LiveFact
<1> DEFINE m == WordsOf(wpk.len)
<1>1. /\ wpc = "size" /\ wpc' = "idle" /\ Store(wpos, wpk.len)
      /\ accepted' = Append(accepted, wpk) /\ at' = Append(at, wpos)
      /\ UNCHANGED <<wr, wpk, wpos, woff, readerVars>>
  BY DEF WriteSize
<1>2. /\ WriteEnd <= Size - 1 /\ (Tail0 < rd => WriteEnd < rd) /\ mem[Tail0] = 0
      /\ \A j \in 0 .. m - 1 : mem[wpos + 1 + j] = wpk.data[j]
      /\ mem[WriteEnd] = 0 /\ wr = WriteEnd
  BY <1>0, <1>1 DEF RingInv, WriterInv
<1>3. /\ Tail0 = wpos /\ Tail0' = wr
      /\ rd' = rd /\ rpc' = rpc /\ got' = got /\ rpos' = rpos /\ rlen' = rlen /\ out' = out
  BY <1>1 DEF Tail0, readerVars
<1>4. /\ wpk \in Packets /\ wpos \in 0 .. Size - 1 /\ m \in Nat /\ m >= 1
      /\ wr = wpos + 1 + m /\ wr <= Size - 1 /\ wr \in 0 .. Size - 1 /\ Size \in Nat
      /\ wpk.len \in Int /\ rd \in 0 .. Size - 1 /\ s \in Nat
      /\ Released \in Nat /\ Released <= s
  BY <1>0, <1>1, <1>2, <1>3, WriterFact, PacketFact, LiveFact
<1>5. mem' = [mem EXCEPT ![wpos] = wpk.len] /\ mem \in [0 .. Size - 1 -> Int]
  BY <1>0, <1>1 DEF RingInv, Types, Store
<1>6. /\ \A x \in 0 .. Size - 1 : x # wpos => mem'[x] = mem[x]
      /\ mem'[wpos] = wpk.len /\ mem' \in [0 .. Size - 1 -> Int]
  BY <1>0, <1>4, <1>5
<1>7. /\ accepted \in Seq(Packets) /\ at \in Seq(0 .. Size - 1) /\ Len(at) = s
      /\ got \in 0 .. s
  BY <1>0 DEF RingInv, Types
<1>8. /\ accepted' \in Seq(Packets) /\ at' \in Seq(0 .. Size - 1)
      /\ Len(accepted') = s + 1 /\ Len(at') = s + 1
      /\ accepted'[s + 1] = wpk /\ at'[s + 1] = wpos
      /\ \A k \in 1 .. s : accepted'[k] = accepted[k] /\ at'[k] = at[k]
  BY <1>0, <1>1, <1>4, <1>7
<1>9. Released' = Released /\ Live' = Live \cup {s + 1} /\ Live \subseteq 1 .. s
  <2>1. Released' = Released
    BY <1>3 DEF Released
  <2>2. Live = Released + 1 .. s /\ Live' = Released + 1 .. s + 1
    BY <1>0, <1>8, <2>1 DEF Live
  <2>3. QED
    BY <1>4, <2>1, <2>2
<1>10. /\ \A k \in 1 .. s : EndOf(k)' = EndOf(k)
       /\ EndOf(s + 1)' = wr
  BY <1>0, <1>4, <1>8 DEF EndOf
<1> HIDE DEF m
<1>11. Types'
  BY <1>0, <1>1, <1>3, <1>4, <1>6, <1>7, <1>8 DEF RingInv, Types, Points
<1>12. WriterInv'
  <2>1. mem'[wr] = 0
    BY <1>0, <1>2, <1>4, <1>6
  <2>2. QED
    BY <1>0, <1>1, <1>3, <2>1 DEF WriterInv
<1>13. ASSUME NEW k \in Live PROVE Placed(k)' /\ Intact(k)' /\ (EndOf(k) <= wpos \/ rd <= at[k])
  <2> DEFINE n == WordsOf(accepted[k].len)
  <2>1. Placed(k) /\ Intact(k) /\ k \in 1 .. s
    BY <1>0, <1>9 DEF RingInv
  <2>2. /\ at[k] \in Nat /\ n \in Nat /\ n >= 1 /\ EndOf(k) = at[k] + 1 + n
        /\ EndOf(k) <= Size - 1
        /\ EndOf(k) <= wpos \/ (wpos < rd /\ rd <= at[k])
    BY <1>0, <1>3, <1>4, <2>1, LiveFact DEF Placed
  <2>3. accepted'[k] = accepted[k] /\ at'[k] = at[k] /\ EndOf(k)' = EndOf(k)
    BY <1>0, <1>8, <1>10, <2>1
  <2> HIDE DEF n
  <2>4. mem'[at[k]] = mem[at[k]]
    <3>1. at[k] \in 0 .. Size - 1 /\ at[k] # wpos
      BY <1>4, <2>2
    <3>2. QED
      BY <1>6, <3>1
  <2>5. ASSUME NEW j \in 0 .. n - 1 PROVE mem'[at[k] + 1 + j] = mem[at[k] + 1 + j]
    <3>1. at[k] + 1 + j \in 0 .. Size - 1 /\ at[k] + 1 + j # wpos
      BY <1>0, <1>4, <2>2
    <3>2. QED
      BY <1>0, <1>6, <3>1
  <2> USE DEF n
  <2>6. Intact(k)'
    BY <2>1, <2>3, <2>4, <2>5 DEF Intact
  <2>7. Placed(k)'
    BY <1>0, <1>2, <1>3, <1>4, <2>1, <2>2, <2>3 DEF Placed
  <2>8. QED
    BY <2>2, <2>6, <2>7
<1>14. Placed(s + 1)' /\ Intact(s + 1)'
  <2>1. Placed(s + 1)'
    BY <1>0, <1>2, <1>3, <1>4, <1>8, <1>10 DEF Placed
  <2>2. ASSUME NEW j \in 0 .. m - 1 PROVE mem'[wpos + 1 + j] = wpk.data[j]
    <3>1. wpos + 1 + j \in 0 .. Size - 1 /\ wpos + 1 + j # wpos
      BY <1>0, <1>4
    <3>2. QED
      BY <1>0, <1>2, <1>6, <3>1
  <2>3. Intact(s + 1)'
    BY <1>0, <1>6, <1>8, <2>2 DEF Intact, m
  <2>4. QED
    BY <2>1, <2>3
<1>15. ASSUME NEW j \in Live', NEW k \in Live', j < k PROVE Before(j, k)'
  <2>1. j \in Live /\ j \in 1 .. s
    BY <1>0, <1>4, <1>9, <1>15
  <2>2. CASE k \in Live
    <3>1. Before(j, k) /\ k \in 1 .. s /\ Placed(j) /\ Placed(k)
      BY <1>0, <1>9, <1>15, <2>1, <2>2 DEF RingInv
    <3>2. at'[j] = at[j] /\ at'[k] = at[k] /\ EndOf(j)' = EndOf(j) /\ EndOf(k)' = EndOf(k)
      BY <1>0, <1>8, <1>10, <2>1, <3>1
    <3>3. EndOf(j) \in Nat /\ EndOf(k) \in Nat /\ at[j] \in Nat /\ at[k] \in Nat
      BY <2>1, <2>2, LiveFact
    <3>4. QED
      BY <1>0, <1>2, <1>3, <1>4, <3>1, <3>2, <3>3 DEF Before, Placed
  <2>3. CASE k = s + 1
    <3>1. at'[j] = at[j] /\ EndOf(j)' = EndOf(j) /\ at'[k] = wpos /\ EndOf(k)' = wr
      BY <1>0, <1>8, <1>10, <2>1, <2>3
    <3>2. EndOf(j) <= wpos \/ rd <= at[j]
      BY <1>0, <1>13, <2>1
    <3>3. Placed(j) /\ EndOf(j) \in Nat /\ at[j] \in Nat
      BY <2>1, LiveFact DEF RingInv
    <3>4. QED
      BY <1>0, <1>2, <1>3, <1>4, <3>1, <3>2, <3>3 DEF Before, Placed
  <2>4. QED
    BY <1>0, <1>9, <2>2, <2>3
<1>16. ASSUME NEW k \in (Released .. Len(accepted))' PROVE Linked(k)'
  <2>1. CASE k = s + 1
    <3>1. ExpectedAfter(k)' = wr
      BY <1>0, <1>4, <1>9, <1>10, <2>1 DEF ExpectedAfter
    <3>2. PlaceOf(k + 1)' = wr
      BY <1>0, <1>3, <1>4, <1>8, <2>1 DEF PlaceOf
    <3>3. QED
      BY <3>1, <3>2 DEF Linked
  <2>2. CASE k # s + 1
    <3>1. k \in Released .. Len(accepted) /\ k \in 0 .. s
      BY <1>0, <1>4, <1>8, <1>9, <2>2
    <3>2. Linked(k)
      BY <3>1 DEF RingInv
    <3>3. ExpectedAfter(k)' = ExpectedAfter(k) /\ ExpectedAfter(k) \in 0 .. Size - 1
      BY <1>0, <1>3, <1>4, <1>9, <1>10, <3>1, ExpectedFact DEF ExpectedAfter
    <3>4. PlaceOf(k + 1)' = PlaceOf(k + 1)
      <4>1. CASE k = s
        BY <1>0, <1>3, <1>4, <1>8, <4>1 DEF PlaceOf
      <4>2. CASE k # s
        BY <1>0, <1>3, <1>4, <1>8, <3>1, <4>2 DEF PlaceOf
      <4>3. QED
        BY <4>1, <4>2
    <3>5. mem[ExpectedAfter(k)] = WIFI_SIZE_WRAP => mem'[ExpectedAfter(k)] = WIFI_SIZE_WRAP
      BY <1>0, <1>2, <1>3, <1>6, <3>3 DEF WIFI_SIZE_WRAP
    <3>6. QED
      BY <3>2, <3>3, <3>4, <3>5 DEF Linked
  <2>3. QED
    BY <2>1, <2>2
<1>17. ReaderInv'
  <2>1. mem[rd] = WIFI_SIZE_WRAP => mem'[rd] = WIFI_SIZE_WRAP
    BY <1>0, <1>2, <1>3, <1>4, <1>6 DEF WIFI_SIZE_WRAP
  <2>2. PlaceOf(got + 1)' = PlaceOf(got + 1)
    BY <1>0, <1>3, <1>7, <1>8 DEF PlaceOf
  <2>3. rpc = "handle" => /\ accepted'[got + 1] = accepted[got + 1]
                          /\ at'[got + 1] = at[got + 1]
                          /\ got < s + 1 /\ got < s
    <3>1. rpc = "handle" => got + 1 \in 1 .. s
      BY <1>0, <1>7 DEF RingInv, ReaderInv
    <3>2. QED
      BY <1>4, <1>7, <1>8, <3>1
  <2>4. rpc = "advance" => accepted'[got] = accepted[got] /\ at'[got] = at[got]
    <3>1. rpc = "advance" => got \in 1 .. s
      BY <1>0, <1>7 DEF RingInv, Types
    <3>2. QED
      BY <1>8, <3>1
  <2>5. ReaderInv
    BY DEF RingInv
  <2>6. QED
    BY <1>3, <1>8, <2>1, <2>2, <2>3, <2>4, <2>5 DEF ReaderInv
<1>18. DeliveredInOrder'
  BY <1>0, <1>3, <1>7, <1>8 DEF RingInv, DeliveredInOrder
<1>19. QED
  BY <1>0, <1>9, <1>11, <1>12, <1>13, <1>14, <1>15, <1>16, <1>17, <1>18 DEF RingInv

-----------------------------------------------------------------------------
(* The reader's steps *)

(* The next place in turn holds the stop marker or the next packet's size. *)
LEMMA PlaceFact ==
  ASSUME RingInv, rpc # "advance"
  PROVE  /\ Released = got
         /\ got = Len(accepted) => PlaceOf(got + 1) = Tail0 /\ mem[Tail0] = 0
         /\ got # Len(accepted) =>
              /\ got + 1 \in Live /\ got < Len(accepted)
              /\ PlaceOf(got + 1) = at[got + 1]
              /\ mem[at[got + 1]] = accepted[got + 1].len
              /\ accepted[got + 1].len \in Lengths
              /\ accepted[got + 1].len \notin {0, WIFI_SIZE_WRAP}
         /\ \/ PlaceOf(got + 1) = rd
            \/ PlaceOf(got + 1) = 0 /\ mem[rd] = WIFI_SIZE_WRAP
<1>1. Released = got /\ got \in 0 .. Len(accepted) /\ Len(accepted) \in Nat
  BY LiveFact DEF Released, RingInv, Types
<1>2. ASSUME got = Len(accepted) PROVE PlaceOf(got + 1) = Tail0 /\ mem[Tail0] = 0
  BY <1>1, <1>2 DEF PlaceOf, RingInv, WriterInv
<1>3. ASSUME got # Len(accepted)
      PROVE  /\ got + 1 \in Live /\ got < Len(accepted)
             /\ PlaceOf(got + 1) = at[got + 1]
             /\ mem[at[got + 1]] = accepted[got + 1].len
             /\ accepted[got + 1].len \in Lengths
             /\ accepted[got + 1].len \notin {0, WIFI_SIZE_WRAP}
  <2>1. got + 1 \in Live /\ got < Len(accepted) /\ PlaceOf(got + 1) = at[got + 1]
    BY <1>1, <1>3 DEF Live, PlaceOf
  <2>2. Intact(got + 1) /\ accepted[got + 1] \in Packets
    BY <2>1, LiveFact DEF RingInv
  <2>3. QED
    BY <1>1, <1>3, <2>1, <2>2, PacketFact DEF Intact
<1>4. Linked(got) /\ ExpectedAfter(got) = rd
  BY <1>1, LiveFact DEF RingInv, ExpectedAfter
<1>5. QED
  BY <1>1, <1>2, <1>3, <1>4 DEF Linked

(* A wrap marker at the reader's index means that the next packet in turn   *)
(* is or will be at word 0, below the reader.                               *)
LEMMA WrapFact ==
  ASSUME RingInv, rpc # "advance", mem[rd] = WIFI_SIZE_WRAP
  PROVE  PlaceOf(got + 1) = 0 /\ Tail0 < rd
<1>1. PlaceOf(got + 1) # rd
  BY PlaceFact DEF WIFI_SIZE_WRAP
<1>2. PlaceOf(got + 1) = 0
  BY <1>1, PlaceFact
<1>3. CASE got = Len(accepted)
  BY <1>1, <1>2, <1>3, PlaceFact, LiveFact
<1>4. CASE got # Len(accepted)
  <2>1. Placed(got + 1) /\ at[got + 1] = 0
    BY <1>2, <1>4, PlaceFact DEF RingInv
  <2>2. QED
    BY <1>1, <1>2, <2>1, LiveFact DEF Placed
<1>5. QED
  BY <1>2, <1>3, <1>4

(* A size word at the reader's index belongs to the next packet in turn. *)
LEMMA SizeFact ==
  ASSUME RingInv, rpc # "advance", mem[rd] \notin {0, WIFI_SIZE_WRAP}
  PROVE  /\ got < Len(accepted) /\ at[got + 1] = rd
         /\ mem[rd] = accepted[got + 1].len /\ mem[rd] \in Lengths
  BY PlaceFact

(* Steps that leave the shared words and the read index alone. *)
LEMMA ReaderFrame ==
  ASSUME RingInv, UNCHANGED <<mem, writerVars, rd>>, Released' = Released
  PROVE  /\ WriterInv'
         /\ \A k \in Live' : Placed(k)' /\ Intact(k)'
         /\ \A j, k \in Live' : j < k => Before(j, k)'
         /\ \A k \in (Released .. Len(accepted))' : Linked(k)'
         /\ \A k : PlaceOf(k)' = PlaceOf(k)
<1>1. /\ wr' = wr /\ wpc' = wpc /\ wpk' = wpk /\ wpos' = wpos /\ woff' = woff
      /\ accepted' = accepted /\ at' = at /\ rd' = rd /\ mem' = mem
  BY DEF writerVars
<1>2. Tail0' = Tail0 /\ WriteEnd' = WriteEnd /\ Live' = Live
  BY <1>1 DEF Tail0, WriteEnd, Live
<1>3. WriterInv'
  BY <1>1, <1>2 DEF RingInv, WriterInv
<1>4. \A k : Placed(k)' = Placed(k) /\ Intact(k)' = Intact(k) /\ PlaceOf(k)' = PlaceOf(k)
  BY <1>1, <1>2 DEF Placed, Intact, PlaceOf, EndOf
<1>5. \A j, k : Before(j, k)' = Before(j, k)
  BY <1>1, <1>2 DEF Before, EndOf
<1>6. \A k : Linked(k)' = Linked(k)
  BY <1>1, <1>2 DEF Linked, ExpectedAfter, EndOf, PlaceOf
<1>7. QED
  BY <1>1, <1>2, <1>3, <1>4, <1>5, <1>6 DEF RingInv

(* The steps of Wifi_NTR_Update on the ARM9 before it moves rxbufRead. *)
LEMMA RxReadSteps ==
  RingInv /\ Direction = "rx" /\ (RxBegin \/ RxReadSize \/ RxReadWrapped) => RingInv'
<1> SUFFICES ASSUME RingInv, Direction = "rx", RxBegin \/ RxReadSize \/ RxReadWrapped
             PROVE  RingInv'
  OBVIOUS
<1>1. /\ UNCHANGED <<mem, writerVars, rd>> /\ got' = got /\ out' = out
      /\ rpc # "advance" /\ rpc' # "advance"
  BY DEF RxBegin, RxReadSize, RxReadWrapped
<1>2. Released' = Released /\ accepted' = accepted /\ at' = at /\ Direction # "tx"
  BY <1>1 DEF Released, writerVars
<1>3. /\ WriterInv'
      /\ \A k \in Live' : Placed(k)' /\ Intact(k)'
      /\ \A j, k \in Live' : j < k => Before(j, k)'
      /\ \A k \in (Released .. Len(accepted))' : Linked(k)'
  BY <1>1, <1>2, ReaderFrame
<1>4. DeliveredInOrder'
  BY <1>1, <1>2 DEF RingInv, DeliveredInOrder
<1>5. CASE RxBegin
  <2>1. rpc' = "head" /\ rpos' = rd /\ rlen' = rlen
    BY <1>5 DEF RxBegin
  <2>2. Types'
    BY <1>1, <2>1 DEF RingInv, Types, writerVars
  <2>3. ReaderInv'
    BY <1>1, <1>2, <2>1 DEF ReaderInv
  <2>4. QED
    BY <1>3, <1>4, <2>2, <2>3 DEF RingInv
<1>6. CASE RxReadSize
  <2>1. rpc = "head" /\ rpos = rd
    BY <1>6 DEF RxReadSize, RingInv, ReaderInv
  <2>2. CASE mem[rd] = 0
    <3>1. rpc' = "idle" /\ rpos' = rpos /\ rlen' = rlen
      BY <1>6, <2>1, <2>2 DEF RxReadSize, WIFI_SIZE_WRAP
    <3>2. Types' /\ ReaderInv'
      BY <1>1, <1>2, <3>1 DEF RingInv, Types, ReaderInv, writerVars
    <3>3. QED
      BY <1>3, <1>4, <3>2 DEF RingInv
  <2>3. CASE mem[rd] = WIFI_SIZE_WRAP
    <3>1. rpc' = "wrapped" /\ rpos' = 0 /\ rlen' = rlen
      BY <1>6, <2>1, <2>3 DEF RxReadSize, WIFI_SIZE_WRAP
    <3>2. Types'
      BY <1>1, <3>1, RingAssumption DEF RingInv, Types, writerVars
    <3>3. ReaderInv'
      BY <1>1, <1>2, <2>3, <3>1 DEF ReaderInv
    <3>4. QED
      BY <1>3, <1>4, <3>2, <3>3 DEF RingInv
  <2>4. CASE mem[rd] \notin {0, WIFI_SIZE_WRAP}
    <3>1. rpc' = "handle" /\ rpos' = rpos /\ rlen' = mem[rd]
      BY <1>6, <2>1, <2>4 DEF RxReadSize
    <3>2. /\ got < Len(accepted) /\ at[got + 1] = rd
          /\ mem[rd] = accepted[got + 1].len /\ mem[rd] \in Lengths
      BY <1>1, <2>4, SizeFact
    <3>3. Types'
      BY <1>1, <3>1, <3>2 DEF RingInv, Types, writerVars
    <3>4. ReaderInv'
      BY <1>1, <1>2, <2>1, <3>1, <3>2 DEF ReaderInv
    <3>5. QED
      BY <1>3, <1>4, <3>3, <3>4 DEF RingInv
  <2>5. QED
    BY <2>2, <2>3, <2>4
<1>7. CASE RxReadWrapped
  <2>1. rpc = "wrapped" /\ rpos = 0 /\ mem[rd] = WIFI_SIZE_WRAP /\ rpos' = rpos
    BY <1>7 DEF RxReadWrapped, RingInv, ReaderInv
  <2>2. PlaceOf(got + 1) = 0
    BY <1>1, <2>1, WrapFact
  <2>3. CASE mem[0] = 0
    <3>1. rpc' = "idle" /\ rlen' = rlen
      BY <1>7, <2>1, <2>3 DEF RxReadWrapped
    <3>2. Types' /\ ReaderInv'
      BY <1>1, <1>2, <2>1, <3>1 DEF RingInv, Types, ReaderInv, writerVars
    <3>3. QED
      BY <1>3, <1>4, <3>2 DEF RingInv
  <2>4. CASE mem[0] # 0
    <3>1. rpc' = "handle" /\ rlen' = mem[0]
      BY <1>7, <2>1, <2>4 DEF RxReadWrapped
    <3>2. /\ got < Len(accepted) /\ at[got + 1] = 0
          /\ mem[0] = accepted[got + 1].len /\ mem[0] \in Lengths
      BY <1>1, <2>2, <2>4, PlaceFact
    <3>3. Types'
      BY <1>1, <2>1, <3>1, <3>2 DEF RingInv, Types, writerVars
    <3>4. ReaderInv'
      BY <1>1, <1>2, <2>1, <3>1, <3>2 DEF ReaderInv
    <3>5. QED
      BY <1>3, <1>4, <3>3, <3>4 DEF RingInv
  <2>5. QED
    BY <2>3, <2>4
<1>8. QED
  BY <1>5, <1>6, <1>7

(* What the reader finds in the words of an intact packet is the packet. *)
LEMMA PacketAtFact ==
  ASSUME RingInv, NEW k \in Live PROVE PacketAt(at[k], accepted[k].len) = accepted[k]
<1> DEFINE p == accepted[k]
           f == [j \in 0 .. WordsOf(p.len) - 1 |-> mem[at[k] + 1 + j]]
<1>1. p \in Packets /\ Intact(k)
  BY LiveFact DEF RingInv
<1>2. p.data \in [0 .. WordsOf(p.len) - 1 -> Data]
  BY <1>1, PacketFact
<1>3. \A j \in 0 .. WordsOf(p.len) - 1 : f[j] = p.data[j]
  BY <1>1 DEF Intact
<1>4. f = p.data
  BY <1>2, <1>3
<1>5. p = [len |-> p.len, data |-> p.data]
  BY <1>1 DEF Packets
<1>6. QED
  BY <1>4, <1>5 DEF PacketAt

(* The packet is handed on, or copied to MAC RAM, where it lies. *)
LEMMA HandleStep ==
  RingInv /\ ((Direction = "rx" /\ RxHandle) \/ (Direction = "tx" /\ TxCopy)) => RingInv'
<1> SUFFICES ASSUME RingInv, (Direction = "rx" /\ RxHandle) \/ (Direction = "tx" /\ TxCopy)
             PROVE  RingInv'
  OBVIOUS
<1>1. /\ UNCHANGED <<mem, writerVars, rd>> /\ got' = got + 1 /\ rlen' = rlen
      /\ rpc = "handle" /\ rpc' = "advance"
      /\ Direction = "rx" => rpos' = rpos
      /\ Direction = "tx" => rpos' = rd
      /\ accepted' = accepted /\ at' = at
  BY DEF RxHandle, TxCopy, writerVars
<1>2. /\ got < Len(accepted) /\ rlen = accepted[got + 1].len
      /\ Direction = "rx" => rpos = at[got + 1]
      /\ Direction = "tx" => rd = at[got + 1]
      /\ got \in 0 .. Len(accepted) /\ got + 1 \in Live
  BY <1>1, PlaceFact DEF RingInv, ReaderInv, Types
<1>3. out' = accepted[got + 1]
  BY <1>2, PacketAtFact DEF RxHandle, TxCopy
<1>4. Released' = Released /\ Len(accepted) \in Nat
  BY <1>1, <1>2, LiveFact DEF Released
<1>5. Types'
  BY <1>1, <1>2, <1>4 DEF RingInv, Types, writerVars
<1>6. ReaderInv' /\ DeliveredInOrder'
  BY <1>1, <1>2, <1>3, <1>4, RingAssumption DEF ReaderInv, DeliveredInOrder
<1>7. QED
  BY <1>1, <1>4, <1>5, <1>6, ReaderFrame DEF RingInv

(* Releasing the oldest live packet. *)
LEMMA AdvanceStep ==
  ASSUME RingInv, rpc = "advance", rpc' \in {"idle", "head"},
         UNCHANGED <<mem, writerVars, got, rlen, out>>,
         rd' = at[got] + 1 + WordsOf(accepted[got].len),
         Direction = "rx" => rpos' = rd',
         Direction = "tx" => rpc' = "idle" /\ rpos' = rpos
  PROVE  RingInv'
<1>1. /\ wr' = wr /\ wpc' = wpc /\ wpk' = wpk /\ wpos' = wpos /\ woff' = woff
      /\ accepted' = accepted /\ at' = at /\ mem' = mem /\ got' = got
      /\ rlen' = rlen /\ out' = out
  BY DEF writerVars
<1>2. Released = got - 1 /\ Released' = got /\ got \in 1 .. Len(accepted)
  BY <1>1 DEF Released, RingInv, Types
<1>3. got \in Live /\ Live' = got + 1 .. Len(accepted) /\ Live' \subseteq Live
  BY <1>1, <1>2, LiveFact DEF Live
<1>4. /\ Tail0' = Tail0 /\ WriteEnd' = WriteEnd /\ rd' = EndOf(got)
      /\ \A k : EndOf(k)' = EndOf(k)
  BY <1>1 DEF Tail0, WriteEnd, EndOf
<1>5. /\ Placed(got) /\ EndOf(got) \in 0 .. Size - 1 /\ at[got] \in 0 .. Size - 1
      /\ at[got] < EndOf(got) /\ Tail0 \in 0 .. Size - 1 /\ rd \in 0 .. Size - 1
      /\ Size \in Nat
  BY <1>3, LiveFact DEF RingInv
<1>6. ASSUME NEW k \in Live', k # got
      PROVE  Before(got, k) /\ Placed(k) /\ Intact(k) /\ at[k] \in Nat /\ EndOf(k) \in Nat
             /\ at[k] < EndOf(k)
  <2>1. k \in Live /\ got < k
    BY <1>2, <1>3
  <2>2. Before(got, k) /\ Placed(k) /\ Intact(k)
    BY <1>3, <2>1 DEF RingInv
  <2>3. at[k] \in Nat /\ EndOf(k) \in Nat /\ at[k] < EndOf(k)
    BY <2>1, LiveFact
  <2>4. QED
    BY <2>2, <2>3
<1>7. ASSUME NEW k \in Live' PROVE Placed(k)' /\ Intact(k)'
  <2>1. k # got
    BY <1>2, <1>3
  <2>2. Placed(k)'
    BY <1>1, <1>4, <1>5, <1>6, <2>1 DEF Placed, Before
  <2>3. Intact(k)'
    BY <1>1, <1>6, <2>1 DEF Intact
  <2>4. QED
    BY <2>2, <2>3
<1>8. ASSUME NEW j \in Live', NEW k \in Live', j < k PROVE Before(j, k)'
  <2>1. j # got /\ k # got
    BY <1>2, <1>3
  <2>2. Before(j, k)
    BY <1>3, <1>8 DEF RingInv
  <2>3. /\ Before(got, j) /\ Placed(j) /\ at[j] \in Nat /\ EndOf(j) \in Nat /\ at[j] < EndOf(j)
        /\ Before(got, k) /\ Placed(k) /\ at[k] \in Nat /\ EndOf(k) \in Nat /\ at[k] < EndOf(k)
    BY <1>6, <2>1
  <2>4. QED
    BY <1>1, <1>4, <1>5, <2>2, <2>3 DEF Before, Placed
<1>9. ASSUME NEW k \in (Released .. Len(accepted))' PROVE Linked(k)'
  <2>1. k \in Released .. Len(accepted) /\ k # Released /\ k \in Nat
    BY <1>1, <1>2
  <2>2. Linked(k) /\ ExpectedAfter(k) = EndOf(k)
    BY <2>1 DEF RingInv, ExpectedAfter
  <2>3. ExpectedAfter(k)' = EndOf(k)
    BY <1>2, <1>4 DEF ExpectedAfter
  <2>4. PlaceOf(k + 1)' = PlaceOf(k + 1)
    BY <1>1, <1>4 DEF PlaceOf
  <2>5. QED
    BY <1>1, <2>2, <2>3, <2>4 DEF Linked
<1>10. WriterInv'
  <2>1. WriterInv /\ (wpc # "idle" => WriteEnd \in Nat /\ wr \in Nat)
    BY WriterFact DEF RingInv
  <2>2. wpc \in {"stop", "wrap"} => Tail0 = wr
    BY DEF Tail0
  <2>3. wpc \in {"stop", "wrap"} => WriteEnd < rd' /\ rd' <= wr
    BY <1>4, <1>5, <2>1, <2>2 DEF WriterInv, Placed
  <2>4. wpc \in {"data", "publish", "size"} => (Tail0 < rd' => WriteEnd < rd')
    BY <1>4, <1>5, <2>1 DEF WriterInv, Placed
  <2>5. QED
    BY <1>1, <1>4, <2>1, <2>3, <2>4 DEF WriterInv
<1>11. Types'
  <2>1. rd' \in 0 .. Size - 1 /\ rpos' \in 0 .. Size - 1
    BY <1>4, <1>5, RingAssumption DEF RingInv, Types
  <2>2. QED
    BY <1>1, <2>1 DEF RingInv, Types
<1>12. ReaderInv' /\ DeliveredInOrder'
  BY <1>1, RingAssumption DEF RingInv, ReaderInv, DeliveredInOrder
<1>13. QED
  BY <1>7, <1>8, <1>9, <1>10, <1>11, <1>12 DEF RingInv

(* Wifi_TxArm9QueueFlush, until it has found the packet to copy.  Moving    *)
(* txbufRead to 0 leaves every live packet between it and the tail.         *)
LEMMA TxReadSteps ==
  RingInv /\ Direction = "tx" /\ (TxReadStatus \/ TxReadWrapped) => RingInv'
<1> SUFFICES ASSUME RingInv, Direction = "tx", TxReadStatus \/ TxReadWrapped PROVE RingInv'
  OBVIOUS
<1>1. /\ UNCHANGED <<mem, writerVars>> /\ got' = got /\ out' = out /\ rpos' = rpos
      /\ rpc # "advance" /\ rpc' \notin {"advance", "head"}
      /\ accepted' = accepted /\ at' = at
  BY DEF TxReadStatus, TxReadWrapped, writerVars
<1>2. Released' = Released /\ Released = got
  BY <1>1 DEF Released
<1>3. DeliveredInOrder'
  BY <1>1 DEF RingInv, DeliveredInOrder
<1>4. CASE rd' = rd /\ rpc' = "idle" /\ rlen' = rlen
  <2>1. Types' /\ ReaderInv'
    BY <1>1, <1>4 DEF RingInv, Types, ReaderInv, writerVars
  <2>2. QED
    BY <1>1, <1>2, <1>3, <1>4, <2>1, ReaderFrame DEF RingInv
<1>5. CASE rd' = rd /\ rpc' = "handle" /\ rlen' = mem[rd] /\ mem[rd] \notin {0, WIFI_SIZE_WRAP}
  <2>1. /\ got < Len(accepted) /\ at[got + 1] = rd
        /\ mem[rd] = accepted[got + 1].len /\ mem[rd] \in Lengths
    BY <1>1, <1>5, SizeFact
  <2>2. Types'
    BY <1>1, <1>5, <2>1 DEF RingInv, Types, writerVars
  <2>3. ReaderInv'
    BY <1>1, <1>5, <2>1 DEF ReaderInv
  <2>4. QED
    BY <1>1, <1>2, <1>3, <1>5, <2>2, <2>3, ReaderFrame DEF RingInv
<1>6. CASE rd' = 0 /\ rpc' = "wrapped" /\ rlen' = rlen /\ mem[rd] = WIFI_SIZE_WRAP
  <2>1. PlaceOf(got + 1) = 0 /\ Tail0 < rd /\ Tail0 \in Nat /\ rd \in Nat
    BY <1>1, <1>6, WrapFact, LiveFact
  <2>2. /\ wr' = wr /\ wpc' = wpc /\ wpk' = wpk /\ wpos' = wpos /\ woff' = woff /\ mem' = mem
    BY <1>1 DEF writerVars
  <2>3. /\ Tail0' = Tail0 /\ WriteEnd' = WriteEnd /\ Live' = Live
        /\ \A k : EndOf(k)' = EndOf(k) /\ PlaceOf(k)' = PlaceOf(k)
    BY <1>1, <1>2, <2>2 DEF Tail0, WriteEnd, Live, EndOf, PlaceOf
  <2>4. ASSUME NEW k \in Live
        PROVE  /\ EndOf(k) <= Tail0 /\ at[k] \in Nat /\ EndOf(k) \in Nat /\ at[k] < EndOf(k)
    <3>1. got # Len(accepted) /\ got + 1 \in Live /\ at[got + 1] = 0
      BY <1>1, <1>2, <2>1, PlaceFact, LiveFact
    <3>2. Placed(k) /\ (k = got + 1 \/ Before(got + 1, k))
      <4>1. k = got + 1 \/ got + 1 < k
        BY <1>2, LiveFact
      <4>2. QED
        BY <3>1, <4>1 DEF RingInv
    <3>3. at[k] \in Nat /\ EndOf(k) \in Nat /\ at[k] < EndOf(k)
      BY LiveFact
    <3>4. EndOf(k) <= Tail0
      BY <2>1, <3>1, <3>2, <3>3 DEF Placed, Before
    <3>5. QED
      BY <3>3, <3>4
  <2>5. ASSUME NEW k \in Live PROVE Placed(k)' /\ Intact(k)'
    <3>1. Intact(k)
      BY DEF RingInv
    <3>2. QED
      BY <1>1, <1>6, <2>1, <2>2, <2>3, <2>4, <3>1 DEF Placed, Intact
  <2>6. ASSUME NEW j \in Live, NEW k \in Live, j < k PROVE Before(j, k)'
    <3>1. Before(j, k)
      BY <2>6 DEF RingInv
    <3>2. QED
      BY <1>1, <1>6, <2>1, <2>3, <2>4, <3>1 DEF Before
  <2>7. ASSUME NEW k \in Released .. Len(accepted) PROVE Linked(k)'
    <3>1. CASE k = Released
      BY <1>2, <1>6, <2>1, <2>3, <3>1 DEF Linked, ExpectedAfter
    <3>2. CASE k # Released
      <4>1. Linked(k) /\ ExpectedAfter(k) = EndOf(k) /\ ExpectedAfter(k)' = EndOf(k)
        BY <1>2, <2>3, <3>2 DEF RingInv, ExpectedAfter
      <4>2. QED
        BY <2>2, <2>3, <4>1 DEF Linked
    <3>3. QED
      BY <3>1, <3>2
  <2>8. WriterInv'
    <3>1. WriterInv /\ wpc \notin {"stop", "wrap"}
      BY <2>1, WriterFact DEF RingInv, WriterInv
    <3>2. ~(Tail0 < rd')
      BY <1>6, <2>1
    <3>3. QED
      BY <1>1, <2>2, <2>3, <3>1, <3>2 DEF WriterInv
  <2>9. Types'
    BY <1>1, <1>6, <2>2, RingAssumption DEF RingInv, Types
  <2>10. ReaderInv'
    BY <1>1, <1>6, <2>1, <2>3 DEF ReaderInv
  <2>11. QED
    BY <1>1, <1>2, <1>3, <2>3, <2>5, <2>6, <2>7, <2>8, <2>9, <2>10 DEF RingInv
<1>7. CASE TxReadStatus
  BY <1>4, <1>5, <1>6, <1>7 DEF TxReadStatus
<1>8. CASE TxReadWrapped
  <2>1. rd = 0 /\ PlaceOf(got + 1) = 0
    BY <1>8 DEF TxReadWrapped, RingInv, ReaderInv
  <2>2. mem[rd] # WIFI_SIZE_WRAP
    BY <1>1, <2>1, WrapFact, LiveFact
  <2>3. QED
    BY <1>4, <1>5, <1>8, <2>2 DEF TxReadWrapped
<1>9. QED
  BY <1>7, <1>8

-----------------------------------------------------------------------------

(* No packet is too long for the buffer in MAC RAM that it is copied to. *)
NoOversize == Direction = "tx" => \A len \in Lengths : len <= CopyLimit

(* Every step of either processor keeps the invariant. *)
LEMMA RingStep == ASSUME NoOversize PROVE RingInv /\ [Next]_vars => RingInv'
<1> SUFFICES ASSUME RingInv, [Next]_vars PROVE RingInv'
  OBVIOUS
<1>1. CASE UNCHANGED vars
  <2>1. UNCHANGED <<mem, writerVars, rd>> /\ UNCHANGED readerVars
    BY <1>1 DEF vars, readerVars
  <2>2. Released' = Released
    BY <2>1 DEF Released, readerVars
  <2>3. Types' /\ ReaderInv' /\ DeliveredInOrder'
    BY <2>1, <2>2, ReaderFrame
       DEF RingInv, Types, ReaderInv, DeliveredInOrder, readerVars, writerVars
  <2>4. QED
    BY <2>1, <2>2, <2>3, ReaderFrame DEF RingInv
<1>2. CASE Writer
  BY <1>2, AllocStep, RefuseStep, WriteStopStep, WriteWrapStep, WriteDataStep,
     WriteTerminatorStep, PublishWriteStep, WriteSizeStep DEF Writer, Finish
<1>3. CASE Direction = "rx" /\ RxAdvance
  <2>1. rlen = accepted[got].len /\ rpos = at[got]
    BY <1>3 DEF RxAdvance, RingInv, ReaderInv
  <2>2. QED
    BY <1>3, <2>1, AdvanceStep DEF RxAdvance
<1>4. CASE Direction = "tx" /\ TxAdvance
  <2>1. rlen = accepted[got].len /\ rd = at[got]
    BY <1>4 DEF TxAdvance, RingInv, ReaderInv
  <2>2. QED
    BY <1>4, <2>1, AdvanceStep DEF TxAdvance
<1>5. CASE Direction = "tx" /\ TxReject
  <2>1. rpc = "handle" /\ rlen > CopyLimit
    BY <1>5 DEF TxReject
  <2>2. rlen \in Lengths
    BY <2>1, PlaceFact DEF RingInv, ReaderInv
  <2>3. QED
    BY <1>5, <2>1, <2>2, NoOversize, RingAssumption DEF NoOversize
<1>6. QED
  BY <1>1, <1>2, <1>3, <1>4, <1>5, RxReadSteps, TxReadSteps, HandleStep
     DEF Next, Reader, RxReader, TxReader

(* The rest of the types, and where the indices are before the first packet *)
RestInv ==
  /\ wpk \in Packets \cup {NoPacket}
  /\ refused \in BOOLEAN
  /\ cnt \in 0 .. Burst
  /\ Direction = "rx" /\ rpc # "idle" => cnt < Burst
  /\ got = 0 => out = NoPacket
  /\ wr = 0 => Len(accepted) = 0 /\ rd = 0 /\ wpc # "size"

(* Wifi_TxBufferReset and Wifi_RxBufferReset establish the invariant. *)
LEMMA RingInit == Init => RingInv /\ RestInv
<1> SUFFICES ASSUME Init PROVE RingInv /\ RestInv
  OBVIOUS
<1> USE RingAssumption DEF Init
<1>1. Types
  BY DEF Types, Points
<1>2. Released = 0 /\ Tail0 = 0 /\ Live = {}
  BY DEF Released, Tail0, Live
<1>3. WriterInv /\ ReaderInv
  BY <1>2 DEF WriterInv, ReaderInv
<1>4. DeliveredInOrder
  BY DEF DeliveredInOrder
<1>5. RestInv
  <2>1. wpk \in Packets \cup {NoPacket} /\ refused \in BOOLEAN
    BY Zenon
  <2>2. cnt \in 0 .. Burst /\ rpc = "idle" /\ Len(accepted) = 0
    OBVIOUS
  <2>3. QED
    BY <2>1, <2>2, Zenon DEF RestInv
<1>6. \A k \in Released .. Len(accepted) : Linked(k)
  BY <1>2 DEF Linked, PlaceOf, ExpectedAfter
<1>7. QED
  BY <1>1, <1>2, <1>3, <1>4, <1>5, <1>6 DEF RingInv

(* The remaining types are kept, and a write index of 0 only occurs before *)
(* the first packet.                                                       *)
LEMMA RestStep == RingInv /\ RestInv /\ [Next]_vars => RestInv'
<1> SUFFICES ASSUME RingInv, RestInv, [Next]_vars PROVE RestInv'
  OBVIOUS
<1> USE RingAssumption DEF RestInv, readerVars, writerVars
<1>1. CASE UNCHANGED vars
  BY <1>1 DEF vars
<1>2. CASE Alloc \/ Refuse
  BY <1>2 DEF Alloc, Refuse
<1>3. CASE WriteStop \/ WriteWrap \/ WriteData \/ WriteTerminator
  BY <1>3 DEF WriteStop, WriteWrap, WriteData, WriteTerminator
<1>4. CASE PublishWrite
  <2>1. WriteEnd # 0
    BY <1>4, WriterFact DEF PublishWrite
  <2>2. QED
    BY <1>4, <2>1 DEF PublishWrite
<1>5. CASE WriteSize
  BY <1>5 DEF WriteSize
<1>6. CASE Direction = "rx" /\ RxReader
  <2>1. rpc = "advance" => Len(accepted) # 0
    BY DEF RingInv, Types
  <2>2. got + 1 # 0
    BY DEF RingInv, Types
  <2>3. QED
    BY <1>6, <2>1, <2>2
       DEF RxReader, RxBegin, RxReadSize, RxReadWrapped, RxHandle, RxAdvance
<1>7. CASE Direction = "tx" /\ TxReader
  <2>1. rpc \in {"handle", "advance"} => Len(accepted) # 0
    BY DEF RingInv, Types, ReaderInv
  <2>2. got + 1 # 0
    BY DEF RingInv, Types
  <2>3. QED
    BY <1>7, <2>1, <2>2
       DEF TxReader, TxReadStatus, TxReadWrapped, TxCopy, TxReject, TxAdvance
<1>8. QED
  BY <1>1, <1>2, <1>3, <1>4, <1>5, <1>6, <1>7 DEF Next, Writer, Finish, Reader

(* The indices of both processors stay inside the buffer (the assertions on *)
(* write_idx and read_idx), whatever the lengths of the packets.            *)
THEOREM RingTypeCorrect == ASSUME NoOversize PROVE Spec => []TypeOK
<1>1. RingInv /\ RestInv => TypeOK
  <2> SUFFICES ASSUME RingInv, RestInv PROVE TypeOK
    OBVIOUS
  <2>1. out \in Packets \cup {NoPacket}
    <3>1. CASE got = 0
      BY <3>1 DEF RestInv
    <3>2. CASE got # 0
      <4>1. accepted \in Seq(Packets) /\ got \in 1 .. Len(accepted) /\ out = accepted[got]
        BY <3>2 DEF RingInv, Types, DeliveredInOrder
      <4>2. QED
        BY <4>1, ElementOfSeq
    <3>3. QED
      BY <3>1, <3>2
  <2>2. QED
    BY <2>1 DEF RingInv, Types, RestInv, TypeOK
<1>2. QED
  BY <1>1, RingInit, RingStep, RestStep, PTL DEF Spec

(* Between the two processors no packet is lost, repeated, reordered or     *)
(* torn: the reader hands on exactly the accepted packets, in turn, and the *)
(* writer never touches one that the reader may still be looking at.        *)
THEOREM RingDelivers == ASSUME NoOversize PROVE Spec => [](DeliveredInOrder /\ UnreadIntact)
<1>1. RingInv => DeliveredInOrder /\ UnreadIntact
  <2> SUFFICES ASSUME RingInv PROVE UnreadIntact
    BY DEF RingInv
  <2>1. \A k \in Unreleased : k \in Live
    <3>1. got \in Int /\ Len(accepted) \in Int
      BY LiveFact DEF RingInv, Types
    <3>2. QED
      BY <3>1 DEF Unreleased, Live, Released
  <2>2. ASSUME NEW k \in Live
        PROVE  mem[at[k]] = accepted[k].len /\ PacketAt(at[k], accepted[k].len) = accepted[k]
    BY PacketAtFact DEF RingInv, Intact
  <2>3. QED
    BY <2>1, <2>2 DEF UnreadIntact
<1>2. QED
  BY <1>1, RingInit, RingStep, RestStep, PTL DEF Spec

(* The writer of rxbufData (ARM7) or txbufData (ARM9) leaves every word of  *)
(* a packet as it is until the reader has moved its index past the packet.  *)
THEOREM RingUnreadIntact == ASSUME NoOversize PROVE Spec => []UnreadIntact
BY RingDelivers, PTL

(* An empty buffer never refuses a packet shorter than half of it. *)
THEOREM RingEmptyTakesAny == ASSUME NoOversize PROVE Spec => []EmptyTakesAny
<1>1. RingInv /\ RestInv => EmptyTakesAny
  <2> SUFFICES ASSUME RingInv, RestInv, got = Len(accepted), wpc = "idle", rpc = "idle",
                      NEW len \in Lengths, 2 * TotalSize(len) < Size
               PROVE  Fits(TotalSize(len))
    BY DEF EmptyTakesAny
  <2>1. TotalSize(len) \in Nat
    BY WordsFact DEF TotalSize
  <2>2. rd = wr /\ wr \in Nat /\ wr < Size /\ Size \in Nat
    BY PlaceFact, LiveFact DEF Tail0, RestInv
  <2> HIDE DEF TotalSize
  <2>3. QED
    BY <2>1, <2>2 DEF Fits, FitsAtEnd, FitsAtStart
<1>2. QED
  BY <1>1, RingInit, RingStep, RestStep, PTL DEF Spec

-----------------------------------------------------------------------------
(* The buffer implements the queue of packets. *)

Queue == SubSeq(accepted, got + 1, Len(accepted))

(* Accepting a packet appends it to the queue. *)
LEMMA QueueAppend ==
  ASSUME NEW S, NEW a \in Seq(S), NEW e \in S, NEW g \in 0 .. Len(a)
  PROVE  SubSeq(Append(a, e), g + 1, Len(a) + 1) = Append(SubSeq(a, g + 1, Len(a)), e)
<1> DEFINE b == Append(a, e)
           q == SubSeq(a, g + 1, Len(a))
           r == SubSeq(b, g + 1, Len(a) + 1)
<1>0. Len(a) \in Nat /\ g \in Nat
  OBVIOUS
<1>1. /\ b \in Seq(S) /\ Len(b) = Len(a) + 1 /\ b[Len(a) + 1] = e
      /\ \A i \in 1 .. Len(a) : b[i] = a[i]
  BY AppendProperties
<1>2. /\ q \in Seq(S) /\ Len(q) = Len(a) - g
      /\ \A i \in 1 .. Len(a) - g : q[i] = a[g + i]
  <2>1. \A i \in g + 1 .. Len(a) : a[i] \in S
    BY <1>0, ElementOfSeq
  <2>2. /\ q \in Seq(S)
        /\ Len(q) = IF g + 1 <= Len(a) THEN Len(a) - (g + 1) + 1 ELSE 0
        /\ \A i \in 1 .. Len(a) - (g + 1) + 1 : q[i] = a[g + 1 + i - 1]
    BY <1>0, <2>1, SubSeqProperties
  <2> HIDE DEF q
  <2>3. QED
    BY <1>0, <2>2
<1>3. /\ r \in Seq(S) /\ Len(r) = Len(a) + 1 - g
      /\ \A i \in 1 .. Len(a) + 1 - g : r[i] = b[g + i]
  <2> HIDE DEF b
  <2>1. \A i \in g + 1 .. Len(a) + 1 : b[i] \in S
    BY <1>0, <1>1, ElementOfSeq
  <2>2. /\ r \in Seq(S)
        /\ Len(r) = IF g + 1 <= Len(a) + 1 THEN Len(a) + 1 - (g + 1) + 1 ELSE 0
        /\ \A i \in 1 .. Len(a) + 1 - (g + 1) + 1 : r[i] = b[g + 1 + i - 1]
    BY <1>0, <2>1, SubSeqProperties
  <2> HIDE DEF r
  <2>3. QED
    BY <1>0, <2>2
<1>4. /\ Append(q, e) \in Seq(S) /\ Len(Append(q, e)) = Len(q) + 1
      /\ \A i \in 1 .. Len(q) : Append(q, e)[i] = q[i]
      /\ Append(q, e)[Len(q) + 1] = e
  <2>1. q \in Seq(S)
    BY <1>2
  <2> HIDE DEF q
  <2>2. QED
    BY <2>1, AppendProperties
<1> HIDE DEF b, q, r
<1>5. ASSUME NEW i \in 1 .. Len(r) PROVE r[i] = Append(q, e)[i]
  <2>1. i \in 1 .. Len(a) + 1 - g /\ r[i] = b[g + i]
    BY <1>0, <1>3
  <2>2. CASE i = Len(a) + 1 - g
    BY <1>0, <1>1, <1>2, <1>4, <2>1, <2>2
  <2>3. CASE i # Len(a) + 1 - g
    <3>1. i \in 1 .. Len(a) - g /\ g + i \in 1 .. Len(a)
      BY <1>0, <2>1, <2>3
    <3>2. QED
      BY <1>1, <1>2, <1>4, <2>1, <3>1
  <2>4. QED
    BY <2>2, <2>3
<1>6. r = Append(q, e)
  <2>1. Len(r) = Len(Append(q, e)) /\ r \in Seq(S) /\ Append(q, e) \in Seq(S)
    BY <1>0, <1>2, <1>3, <1>4
  <2>2. QED
    BY <1>5, <2>1, SeqEqual
<1>7. QED
  BY <1>6 DEF b, q, r

(* Taking the next packet takes the head of the queue. *)
LEMMA QueueTake ==
  ASSUME NEW S, NEW a \in Seq(S), NEW h \in 1 .. Len(a)
  PROVE  /\ Head(SubSeq(a, h, Len(a))) = a[h]
         /\ Tail(SubSeq(a, h, Len(a))) = SubSeq(a, h + 1, Len(a))
         /\ SubSeq(a, h, Len(a)) # <<>>
<1>1. Len(a) \in Nat /\ h \in Int /\ Len(a) \in h .. Len(a)
  OBVIOUS
<1>2. /\ Head(SubSeq(a, h, Len(a))) = a[h]
      /\ Tail(SubSeq(a, h, Len(a))) = SubSeq(a, h + 1, Len(a))
  BY <1>1, HeadTailOfSubSeq
<1>3. \A i \in h .. Len(a) : a[i] \in S
  BY <1>1, ElementOfSeq
<1>4. Len(SubSeq(a, h, Len(a))) = IF h <= Len(a) THEN Len(a) - h + 1 ELSE 0
  BY <1>1, <1>3, SubSeqProperties
<1>5. Len(SubSeq(a, h, Len(a))) # 0
  BY <1>1, <1>4
<1>6. Len(<<>>) = 0
  OBVIOUS
<1>7. SubSeq(a, h, Len(a)) # <<>>
  BY <1>5, <1>6
<1>8. QED
  BY <1>2, <1>7

(* Every behaviour of the buffer is one of the queue: the packets that were *)
(* accepted and not yet handled are the queue, WriteSize is a Send, the     *)
(* reader's hand-over is a Receive, and nothing else changes it.            *)
THEOREM RingImplementsFifo ==
  ASSUME NoOversize PROVE Spec => Fifo!Init /\ [][Fifo!Next]_(Fifo!vars)
<1>1. Init => Fifo!Init
  <2> SUFFICES ASSUME Init PROVE Fifo!Init
    OBVIOUS
  <2>1. accepted = <<>> /\ got = 0 /\ out = NoPacket /\ Len(accepted) = 0
    BY DEF Init
  <2>2. SubSeq(accepted, 1, 0) = <<>>
    BY SubSeqEmpty
  <2>3. QED
    BY <2>1, <2>2 DEF Fifo!Init
<1>2. RingInv /\ RingInv' /\ [Next]_vars => [Fifo!Next]_(Fifo!vars)
  <2> SUFFICES ASSUME RingInv, RingInv', [Next]_vars PROVE [Fifo!Next]_(Fifo!vars)
    OBVIOUS
  <2>1. CASE UNCHANGED <<accepted, got, out>>
    BY <2>1 DEF Fifo!vars
  <2>2. CASE WriteSize
    <3>1. /\ accepted' = Append(accepted, wpk) /\ got' = got /\ out' = out /\ wpk \in Packets
      BY <2>2, WriterFact DEF WriteSize, readerVars
    <3>2. accepted \in Seq(Packets) /\ got \in 0 .. Len(accepted)
      BY DEF RingInv, Types
    <3>3. Len(accepted') = Len(accepted) + 1
      BY <3>1, <3>2
    <3>4. Queue' = Append(Queue, wpk)
      BY <3>1, <3>2, <3>3, QueueAppend DEF Queue
    <3>5. Fifo!Send
      BY <3>1, <3>4 DEF Fifo!Send, Queue
    <3>6. QED
      BY <3>5 DEF Fifo!Next
  <2>3. CASE (Direction = "rx" /\ RxHandle) \/ (Direction = "tx" /\ TxCopy)
    <3>1. accepted' = accepted /\ got' = got + 1 /\ rpc = "handle"
      BY <2>3 DEF RxHandle, TxCopy, writerVars
    <3>2. accepted \in Seq(Packets) /\ got + 1 \in 1 .. Len(accepted) /\ Len(accepted) \in Nat
      BY <3>1, LiveFact DEF RingInv, Types, ReaderInv
    <3>3. out' = accepted[got + 1]
      BY <3>1, <3>2 DEF RingInv, DeliveredInOrder
    <3>4. /\ Head(Queue) = accepted[got + 1]
          /\ Tail(Queue) = SubSeq(accepted, got + 1 + 1, Len(accepted))
          /\ Queue # <<>>
      BY <3>2, QueueTake DEF Queue
    <3>5. got \in Nat
      BY DEF RingInv, Types
    <3>6. Fifo!Receive
      BY <3>1, <3>3, <3>4, <3>5 DEF Fifo!Receive, Queue
    <3>7. QED
      BY <3>6 DEF Fifo!Next
  <2>4. CASE UNCHANGED vars
    BY <2>1, <2>4 DEF vars, readerVars, writerVars
  <2>5. CASE Alloc \/ Refuse \/ WriteStop \/ WriteWrap \/ WriteData \/ WriteTerminator
             \/ PublishWrite
    BY <2>1, <2>5 DEF Alloc, Refuse, WriteStop, WriteWrap, WriteData, WriteTerminator,
                      PublishWrite, readerVars
  <2>6. CASE RxBegin \/ RxReadSize \/ RxReadWrapped \/ RxAdvance
    BY <2>1, <2>6 DEF RxBegin, RxReadSize, RxReadWrapped, RxAdvance, writerVars
  <2>7. CASE TxReadStatus \/ TxReadWrapped \/ TxReject \/ TxAdvance
    BY <2>1, <2>7 DEF TxReadStatus, TxReadWrapped, TxReject, TxAdvance, writerVars
  <2>8. QED
    BY <2>2, <2>3, <2>4, <2>5, <2>6, <2>7 DEF Next, Writer, Finish, Reader, RxReader, TxReader
<1>3. QED
  BY <1>1, <1>2, RingInit, RingStep, PTL DEF Spec

=============================================================================
