----------------------- MODULE ChannelBuffers_proofs -----------------------
(***************************************************************************)
(* Proofs about ChannelBuffers, for every depth and every set of packets:  *)
(* the buffers keep their types and their indices consistent, and when     *)
(* dequeues are guarded the two rings and the handshake implement one FIFO.*)
(***************************************************************************)
EXTENDS ChannelBuffers, SequenceTheorems, TLAPS

(***************************************************************************)
(* Index arithmetic.                                                       *)
(***************************************************************************)

\* Advancing an index stays within the ring.
LEMMA IncType == \A i \in Index : Inc(i) \in Index
  BY DepthAssumption DEF Index, Inc

\* The slot count places behind a head is an index of the ring.
LEMMA SlotType == \A h \in Index, n \in 0 .. Depth : Slot(h, n) \in Index
  BY DepthAssumption DEF Index, Slot

\* Advancing the head by one shifts every slot by one.
LEMMA SlotShift ==
    \A h \in Index, n \in 0 .. Depth - 1 :
        /\ Slot(Inc(h), n) = Slot(h, n + 1)
        /\ Inc(Slot(h, n)) = Slot(h, n + 1)
  BY DepthAssumption DEF Index, Slot, Inc

\* Distinct places behind a head are distinct slots.
LEMMA SlotInjective ==
    \A h \in Index, m, n \in 0 .. Depth - 1 : Slot(h, m) = Slot(h, n) => m = n
  BY DepthAssumption DEF Index, Slot

(***************************************************************************)
(* What popping and pushing do to the contents of one buffer.              *)
(***************************************************************************)

\* A buffer holds a sequence of count packets.
LEMMA ContentsType ==
    ASSUME NEW b \in Buffer
    PROVE  /\ Contents(b) \in Seq(Packet)
           /\ Len(Contents(b)) = b.count
           /\ \A i \in 1 .. b.count : Contents(b)[i] = b.fifo[Slot(b.head, i - 1)]
<1>1. b.count \in 0 .. Depth /\ b.head \in Index /\ b.fifo \in [Index -> Packet]
  BY DEF Buffer
<1>2. \A i \in 1 .. b.count : i - 1 \in 0 .. Depth
  BY <1>1, DepthAssumption
<1>3. \A i \in 1 .. b.count : b.fifo[Slot(b.head, i - 1)] \in Packet
  BY <1>1, <1>2, SlotType
<1>4. Contents(b) \in [1 .. b.count -> Packet]
  BY <1>3 DEF Contents
<1>5. b.count \in Nat
  BY <1>1, DepthAssumption
<1>6. \A i \in 1 .. b.count : Contents(b)[i] = b.fifo[Slot(b.head, i - 1)]
  BY DEF Contents
<1> HIDE DEF Contents
<1>7. Contents(b) \in Seq(Packet)
  BY <1>4, <1>5
<1>8. Len(Contents(b)) = b.count
  BY <1>4, <1>5, <1>7, LenProperties
<1> QED
  BY <1>6, <1>7, <1>8

\* Moving the head and lowering the count removes the oldest packet.
LEMMA Pop ==
    ASSUME NEW b \in Buffer, NEW c \in Buffer, b.count # 0,
           c.fifo = b.fifo, c.head = Inc(b.head), c.count = b.count - 1
    PROVE  Contents(c) = Tail(Contents(b))
<1>1. b.count \in 1 .. Depth /\ b.head \in Index
  BY DepthAssumption DEF Buffer
<1>2. Contents(b) # << >>
  BY <1>1, ContentsType, DepthAssumption
<1>3. /\ Tail(Contents(b)) \in Seq(Packet)
      /\ Len(Tail(Contents(b))) = b.count - 1
      /\ \A i \in 1 .. b.count - 1 : Tail(Contents(b))[i] = Contents(b)[i + 1]
  BY <1>1, <1>2, ContentsType, HeadTailProperties, DepthAssumption
<1>4. ASSUME NEW i \in 1 .. b.count - 1
      PROVE  Contents(c)[i] = Tail(Contents(b))[i]
  <2>1. i - 1 \in 0 .. Depth - 1 /\ i + 1 \in 1 .. b.count
    BY <1>1, DepthAssumption
  <2>2. Contents(c)[i] = b.fifo[Slot(Inc(b.head), i - 1)]
    BY <1>1, ContentsType
  <2>3. Slot(Inc(b.head), i - 1) = Slot(b.head, i)
    BY <1>1, <2>1, SlotShift
  <2>4. Contents(b)[i + 1] = b.fifo[Slot(b.head, i)]
    BY <1>1, <2>1, ContentsType
  <2> QED
    BY <1>3, <2>2, <2>3, <2>4
<1> QED
  BY <1>1, <1>3, <1>4, ContentsType, SeqEqual

\* Writing at the tail and raising the count adds a packet at the back.
LEMMA Push ==
    ASSUME NEW b \in Buffer, NEW c \in Buffer, NEW p \in Packet, b.count # Depth,
           b.tail = Slot(b.head, b.count),
           c.fifo = [b.fifo EXCEPT ![b.tail] = p], c.head = b.head, c.count = b.count + 1
    PROVE  Contents(c) = Append(Contents(b), p)
<1>1. b.count \in 0 .. Depth - 1 /\ b.head \in Index /\ b.fifo \in [Index -> Packet]
      /\ b.tail \in Index
  BY DepthAssumption DEF Buffer
<1>2. /\ Append(Contents(b), p) \in Seq(Packet)
      /\ Len(Append(Contents(b), p)) = b.count + 1
      /\ \A i \in 1 .. b.count : Append(Contents(b), p)[i] = Contents(b)[i]
      /\ Append(Contents(b), p)[b.count + 1] = p
  BY ContentsType, AppendProperties
<1>3. ASSUME NEW i \in 1 .. b.count + 1
      PROVE  Contents(c)[i] = Append(Contents(b), p)[i]
  <2>1. i - 1 \in 0 .. Depth - 1
    BY <1>1, DepthAssumption
  <2>2. Contents(c)[i] = c.fifo[Slot(b.head, i - 1)]
    BY <1>1, ContentsType
  <2>3. Slot(b.head, i - 1) \in Index
    BY <1>1, <2>1, SlotType, DepthAssumption
  <2>4. CASE i = b.count + 1
    BY <1>1, <1>2, <2>2, <2>4
  <2>5. CASE i # b.count + 1
    <3>1. i \in 1 .. b.count /\ i - 1 # b.count
      BY <1>1, <2>5
    <3>2. Slot(b.head, i - 1) # b.tail
      BY <1>1, <2>1, <3>1, SlotInjective
    <3>3. Contents(b)[i] = b.fifo[Slot(b.head, i - 1)]
      BY <3>1, ContentsType
    <3> QED
      BY <1>1, <1>2, <2>2, <2>3, <3>1, <3>2, <3>3
  <2> QED
    BY <2>4, <2>5
<1>4. Len(Contents(c)) = b.count + 1 /\ Contents(c) \in Seq(Packet)
  BY ContentsType
<1> QED
  BY <1>2, <1>3, <1>4, SeqEqual

\* Doing both at once on a buffer that is neither empty nor full: the packet
\* that enters cannot overwrite one that stays.
LEMMA PushPop ==
    ASSUME NEW b \in Buffer, NEW c \in Buffer, NEW p \in Packet,
           b.count # 0, b.count # Depth, b.tail = Slot(b.head, b.count),
           c.fifo = [b.fifo EXCEPT ![b.tail] = p], c.head = Inc(b.head), c.count = b.count
    PROVE  Contents(c) = Append(Tail(Contents(b)), p)
<1> DEFINE m == [fifo |-> b.fifo, head |-> Inc(b.head), tail |-> b.tail,
                 count |-> b.count - 1]
<1>1. b.count \in 1 .. Depth - 1 /\ b.head \in Index /\ b.fifo \in [Index -> Packet]
      /\ b.tail \in Index
  BY DepthAssumption DEF Buffer
<1>2. m \in Buffer
  BY <1>1, IncType, DepthAssumption DEF Buffer
<1>3. m.fifo = b.fifo /\ m.head = Inc(b.head) /\ m.count = b.count - 1 /\ m.tail = b.tail
  BY DEF Buffer
<1>4. Contents(m) = Tail(Contents(b))
  BY <1>2, <1>3, Pop
<1>5. m.tail = Slot(m.head, m.count)
  <2>1. b.count - 1 \in 0 .. Depth - 1
    BY <1>1, DepthAssumption
  <2>2. Slot(Inc(b.head), b.count - 1) = Slot(b.head, b.count)
    BY <1>1, <2>1, SlotShift
  <2> QED
    BY <1>3, <2>2
<1>6. m.count # Depth /\ c.count = m.count + 1
  BY <1>1, <1>3, DepthAssumption
<1> HIDE DEF m
<1>7. Contents(c) = Append(Contents(m), p)
  BY <1>2, <1>3, <1>5, <1>6, Push
<1> QED
  BY <1>4, <1>7

-----------------------------------------------------------------------------
(***************************************************************************)
(* One clock edge of each buffer.                                          *)
(***************************************************************************)

\* The sender's buffer keeps its type and its ring consistent on any clock edge.
LEMMA OutputStep ==
    ASSUME TypeOK, RingConsistent, NEW packet \in Packet \cup {NoPacket}
    PROVE  /\ OutputAfter(packet) \in Buffer
           /\ OutputAfter(packet).tail
                = Slot(OutputAfter(packet).head, OutputAfter(packet).count)
<1>1. /\ out.fifo \in [Index -> Packet] /\ out.head \in Index /\ out.tail \in Index
      /\ out.count \in 0 .. Depth /\ out.tail = Slot(out.head, out.count)
      /\ out \in Buffer
  BY DEF TypeOK, RingConsistent, Buffer
<1>2. CASE packet # NoPacket /\ ~OutputFull
  <2>1. out.count \in 0 .. Depth - 1 /\ packet \in Packet
    BY <1>1, <1>2, DepthAssumption DEF OutputFull
  <2>2. /\ Slot(Inc(out.head), out.count) = Slot(out.head, out.count + 1)
        /\ Inc(out.tail) = Slot(out.head, out.count + 1)
    BY <1>1, <2>1, SlotShift
  <2>3. Inc(out.head) \in Index /\ Inc(out.tail) \in Index
    BY <1>1, IncType
  <2>4. out.count + 1 \in 0 .. Depth
    BY <2>1, DepthAssumption
  <2> QED
    BY <1>1, <1>2, <2>1, <2>2, <2>3, <2>4 DEF OutputAfter, Buffer
<1>3. CASE packet = NoPacket /\ Req /\ Ack
  <2>1. out.count - 1 \in 0 .. Depth - 1
    BY <1>1, <1>3, DepthAssumption DEF Req
  <2>2. Slot(Inc(out.head), out.count - 1) = Slot(out.head, out.count)
    BY <1>1, <2>1, SlotShift
  <2>3. Inc(out.head) \in Index
    BY <1>1, IncType
  <2>4. out.count - 1 \in 0 .. Depth
    BY <2>1, DepthAssumption
  <2>5. OutputAfter(packet) = [out EXCEPT !.head = Inc(out.head), !.count = out.count - 1]
    BY <1>3 DEF OutputAfter
  <2>6. OutputAfter(packet) = [fifo |-> out.fifo, head |-> Inc(out.head),
                               tail |-> out.tail, count |-> out.count - 1]
    BY <1>1, <2>5 DEF Buffer
  <2> QED
    BY <1>1, <2>2, <2>3, <2>4, <2>6 DEF Buffer
<1>4. CASE (packet # NoPacket /\ OutputFull) \/ (packet = NoPacket /\ ~(Req /\ Ack))
  BY <1>1, <1>4 DEF OutputAfter
<1> QED
  BY <1>2, <1>3, <1>4

\* The receiver's buffer likewise, a dequeue from an empty buffer included.
LEMMA InputStep ==
    ASSUME TypeOK, RingConsistent, NEW dequeue \in BOOLEAN
    PROVE  /\ InputAfter(dequeue) \in Buffer
           /\ InputAfter(dequeue).tail
                = Slot(InputAfter(dequeue).head, InputAfter(dequeue).count)
<1>1. /\ in.fifo \in [Index -> Packet] /\ in.head \in Index /\ in.tail \in Index
      /\ in.count \in 0 .. Depth /\ in.tail = Slot(in.head, in.count)
      /\ in \in Buffer /\ LinkPacket \in Packet
  BY DEF TypeOK, RingConsistent, Buffer, LinkPacket
<1>2. Inc(in.head) \in Index /\ Inc(in.tail) \in Index
  BY <1>1, IncType
<1>3. CASE Req /\ Ack /\ ~(dequeue /\ InputEmpty)
  <2>1. in.count \in 0 .. Depth - 1
    BY <1>1, <1>3, DepthAssumption DEF Ack
  <2>2. /\ Slot(Inc(in.head), in.count) = Slot(in.head, in.count + 1)
        /\ Inc(in.tail) = Slot(in.head, in.count + 1)
    BY <1>1, <2>1, SlotShift
  <2>3. in.count + 1 \in 0 .. Depth
    BY <2>1, DepthAssumption
  <2> QED
    BY <1>1, <1>2, <1>3, <2>1, <2>2, <2>3 DEF InputAfter, Buffer
<1>4. CASE dequeue /\ ~InputEmpty /\ ~(Req /\ Ack)
  <2>1. in.count - 1 \in 0 .. Depth - 1
    BY <1>1, <1>4, DepthAssumption DEF InputEmpty
  <2>2. Slot(Inc(in.head), in.count - 1) = Slot(in.head, in.count)
    BY <1>1, <2>1, SlotShift
  <2>3. in.count - 1 \in 0 .. Depth
    BY <2>1, DepthAssumption
  <2>4. InputAfter(dequeue) = [in EXCEPT !.head = Inc(in.head), !.count = in.count - 1]
    BY <1>4 DEF InputAfter
  <2>5. InputAfter(dequeue) = [fifo |-> in.fifo, head |-> Inc(in.head),
                               tail |-> in.tail, count |-> in.count - 1]
    BY <1>1, <2>4 DEF Buffer
  <2> QED
    BY <1>1, <1>2, <2>2, <2>3, <2>5 DEF Buffer
<1>5. CASE (dequeue /\ InputEmpty) \/ (~dequeue /\ ~(Req /\ Ack))
  BY <1>1, <1>5 DEF InputAfter
<1> QED
  BY <1>3, <1>4, <1>5

\* TypeOK and RingConsistent hold in every state, for every depth: no index
\* leaves its ring, no count its width, and tail stays count slots behind head.
\* Each needs the other, so they are proved together.
THEOREM BufferSafety == Spec => [](TypeOK /\ RingConsistent)
<1>1. Init => TypeOK /\ RingConsistent
  <2>1. \A h \in Index : Slot(h, 0) = h
    BY DepthAssumption DEF Slot, Index
  <2> QED
    BY <2>1 DEF Init, Cleared, TypeOK, RingConsistent, Buffer
<1>2. TypeOK /\ RingConsistent /\ [Next]_vars => TypeOK' /\ RingConsistent'
  <2> SUFFICES ASSUME TypeOK, RingConsistent, [Next]_vars
               PROVE  TypeOK' /\ RingConsistent'
    OBVIOUS
  <2>1. ASSUME NEW packet \in Packet \cup {NoPacket}, NEW dequeue \in BOOLEAN,
               Clock(packet, dequeue)
        PROVE  TypeOK' /\ RingConsistent'
    <3>1. out' = OutputAfter(packet) /\ in' = InputAfter(dequeue)
      BY <2>1 DEF Clock
    <3> QED
      BY <3>1, OutputStep, InputStep DEF TypeOK, RingConsistent
  <2>2. CASE UNCHANGED vars
    BY <2>2 DEF vars, TypeOK, RingConsistent
  <2> QED
    BY <2>1, <2>2 DEF Next
<1> QED
  BY <1>1, <1>2, PTL DEF Spec

\* One dequeue: the packet behind the head comes to the head.  The packet that
\* arrives with the dequeue is written to the tail, and the tail is the slot next to
\* the head only in a full ring, which acknowledges nothing, or an empty one.
LEMMA LookaheadStep ==
    ASSUME TypeOK, RingConsistent, NEW p \in Packet \cup {NoPacket},
           Clock(p, TRUE), NextPacket # NoPacket
    PROVE  PeekPacket' = NextPacket
<1>1. /\ in \in Buffer /\ in' = InputAfter(TRUE) /\ in.tail = Slot(in.head, in.count)
      /\ in.count \in 2 .. Depth /\ NextPacket = in.fifo[Inc(in.head)]
  BY DepthAssumption DEF TypeOK, RingConsistent, Clock, NextPacket, Buffer
<1>2. in.head \in Index /\ Inc(in.head) \in Index /\ in.fifo \in [Index -> Packet]
  BY <1>1, IncType DEF Buffer
<1>3. ~InputEmpty
  BY <1>1, DepthAssumption DEF InputEmpty
<1>4. CASE Req /\ Ack
  <2>1. in.count \in 0 .. Depth - 1 /\ 1 \in 0 .. Depth - 1 /\ in.count # 1
    BY <1>1, <1>4, DepthAssumption DEF Ack
  <2>2. Inc(in.head) = Slot(in.head, 1)
    BY <1>2, DepthAssumption DEF Slot, Inc, Index
  <2>3. Inc(in.head) # in.tail
    BY <1>1, <1>2, <2>1, <2>2, SlotInjective
  <2>4. /\ in'.head = Inc(in.head)
        /\ in'.fifo = [in.fifo EXCEPT ![in.tail] = LinkPacket]
    BY <1>1, <1>3, <1>4 DEF InputAfter
  <2> QED
    BY <1>1, <1>2, <2>3, <2>4 DEF PeekPacket
<1>5. CASE ~(Req /\ Ack)
  <2>1. in'.head = Inc(in.head) /\ in'.fifo = in.fifo
    BY <1>1, <1>3, <1>5 DEF InputAfter, Buffer
  <2> QED
    BY <1>1, <2>1 DEF PeekPacket
<1> QED
  BY <1>4, <1>5

\* For every depth and packet set, the tag the trigger stage has seen behind the head
\* is the tag of the packet an instruction finds there one edge after a dequeue.
THEOREM LookaheadSafety == Spec => LookaheadIsNextHead
<1>1. TypeOK /\ RingConsistent =>
         \A p \in Packet \cup {NoPacket} :
            Clock(p, TRUE) /\ NextPacket # NoPacket => PeekPacket' = NextPacket
  BY LookaheadStep
<1>2. Spec => [](TypeOK /\ RingConsistent)
  BY BufferSafety
<1> QED
  BY <1>1, <1>2, PTL DEF LookaheadIsNextHead

-----------------------------------------------------------------------------
(***************************************************************************)
(* The rings implement one FIFO.                                           *)
(***************************************************************************)

\* The packet offered on the link is the oldest one of the sender's buffer.
LEMMA LinkPacketIsOldest ==
    ASSUME TypeOK, Req
    PROVE  LinkPacket = Head(Contents(out)) /\ Contents(out) # << >>
<1>1. out \in Buffer /\ out.count \in 1 .. Depth /\ out.head \in Index
  BY DepthAssumption DEF TypeOK, Req, Buffer
<1>2. Slot(out.head, 1 - 1) = out.head
  BY <1>1, DepthAssumption DEF Slot, Index
<1>3. Contents(out)[1] = LinkPacket
  BY <1>1, <1>2, ContentsType, DepthAssumption DEF LinkPacket
<1>4. Len(Contents(out)) # 0
  BY <1>1, ContentsType, DepthAssumption
<1> QED
  BY <1>1, <1>3, <1>4, ContentsType

\* The sender's packets after an edge: the oldest is gone if the link took it,
\* the one enqueued is at the back.
LEMMA OutputContents ==
    ASSUME TypeOK, RingConsistent, NEW packet \in Packet \cup {NoPacket},
           packet # NoPacket => ~OutputFull
    PROVE  Contents(OutputAfter(packet))
             = Channel!Adding(Channel!Removing(Contents(out), Req /\ Ack), packet)
<1> DEFINE c == OutputAfter(packet)
<1>1. out \in Buffer /\ c \in Buffer /\ out.tail = Slot(out.head, out.count)
  BY OutputStep DEF TypeOK, RingConsistent
<1>2. CASE packet # NoPacket /\ Req /\ Ack
  <2>1. /\ c.fifo = [out.fifo EXCEPT ![out.tail] = packet]
        /\ c.head = Inc(out.head) /\ c.count = out.count
        /\ packet \in Packet /\ out.count # 0 /\ out.count # Depth
    BY <1>2 DEF OutputAfter, Req, OutputFull
  <2> HIDE DEF c
  <2>2. Contents(c) = Append(Tail(Contents(out)), packet)
    BY <1>1, <2>1, PushPop
  <2> QED
    BY <1>2, <2>2 DEF Channel!Adding, Channel!Removing, c
<1>3. CASE packet # NoPacket /\ ~(Req /\ Ack)
  <2>1. /\ c.fifo = [out.fifo EXCEPT ![out.tail] = packet]
        /\ c.head = out.head /\ c.count = out.count + 1
        /\ packet \in Packet /\ out.count # Depth
    BY <1>3 DEF OutputAfter, OutputFull
  <2> HIDE DEF c
  <2>2. Contents(c) = Append(Contents(out), packet)
    BY <1>1, <2>1, Push
  <2> QED
    BY <1>3, <2>2 DEF Channel!Adding, Channel!Removing, c
<1>4. CASE packet = NoPacket /\ Req /\ Ack
  <2>1. c = [out EXCEPT !.head = Inc(out.head), !.count = out.count - 1]
    BY <1>4 DEF OutputAfter
  <2>2. c.fifo = out.fifo /\ c.head = Inc(out.head) /\ c.count = out.count - 1
        /\ out.count # 0
    BY <1>1, <1>4, <2>1 DEF Buffer, Req
  <2> HIDE DEF c
  <2>3. Contents(c) = Tail(Contents(out))
    BY <1>1, <2>2, Pop
  <2> QED
    BY <1>4, <2>3 DEF Channel!Adding, Channel!Removing, c
<1>5. CASE packet = NoPacket /\ ~(Req /\ Ack)
  BY <1>5 DEF OutputAfter, Channel!Adding, Channel!Removing
<1> QED
  BY <1>2, <1>3, <1>4, <1>5

\* The receiver's packets after an edge: the oldest is gone if it was dequeued,
\* the one on the link is at the back if it was acknowledged.
LEMMA InputContents ==
    ASSUME TypeOK, RingConsistent, NEW dequeue \in BOOLEAN, dequeue => ~InputEmpty
    PROVE  Contents(InputAfter(dequeue))
             = LET s == Channel!Removing(Contents(in), dequeue)
               IN  IF Req /\ Ack THEN Append(s, LinkPacket) ELSE s
<1> DEFINE c == InputAfter(dequeue)
<1>1. /\ in \in Buffer /\ c \in Buffer /\ in.tail = Slot(in.head, in.count)
      /\ LinkPacket \in Packet
  BY InputStep DEF TypeOK, RingConsistent, LinkPacket, Buffer
<1>2. CASE dequeue /\ Req /\ Ack
  <2>1. /\ c.fifo = [in.fifo EXCEPT ![in.tail] = LinkPacket]
        /\ c.head = Inc(in.head) /\ c.count = in.count
        /\ in.count # 0 /\ in.count # Depth
    BY <1>2 DEF InputAfter, InputEmpty, Ack
  <2> HIDE DEF c
  <2>2. Contents(c) = Append(Tail(Contents(in)), LinkPacket)
    BY <1>1, <2>1, PushPop
  <2> QED
    BY <1>2, <2>2 DEF Channel!Removing, c
<1>3. CASE dequeue /\ ~(Req /\ Ack)
  <2>1. c = [in EXCEPT !.head = Inc(in.head), !.count = in.count - 1]
    BY <1>3 DEF InputAfter
  <2>2. c.fifo = in.fifo /\ c.head = Inc(in.head) /\ c.count = in.count - 1
        /\ in.count # 0
    BY <1>1, <1>3, <2>1 DEF Buffer, InputEmpty
  <2> HIDE DEF c
  <2>3. Contents(c) = Tail(Contents(in))
    BY <1>1, <2>2, Pop
  <2> QED
    BY <1>3, <2>3 DEF Channel!Removing, c
<1>4. CASE ~dequeue /\ Req /\ Ack
  <2>1. /\ c.fifo = [in.fifo EXCEPT ![in.tail] = LinkPacket]
        /\ c.head = in.head /\ c.count = in.count + 1 /\ in.count # Depth
    BY <1>4 DEF InputAfter, Ack
  <2> HIDE DEF c
  <2>2. Contents(c) = Append(Contents(in), LinkPacket)
    BY <1>1, <2>1, Push
  <2> QED
    BY <1>4, <2>2 DEF Channel!Removing, c
<1>5. CASE ~dequeue /\ ~(Req /\ Ack)
  BY <1>5 DEF InputAfter, Channel!Removing
<1> QED
  BY <1>2, <1>3, <1>4, <1>5

\* Handing the oldest packet of t to the back of s leaves s \o t as it was.
LEMMA Handover ==
    ASSUME NEW S, NEW s \in Seq(S), NEW t \in Seq(S), t # << >>
    PROVE  Append(s, Head(t)) \o Tail(t) = s \o t
<1>1. /\ Head(t) \in S /\ Tail(t) \in Seq(S) /\ Len(Tail(t)) = Len(t) - 1
      /\ \A i \in 1 .. Len(Tail(t)) : Tail(t)[i] = t[i + 1]
      /\ Head(t) = t[1] /\ Len(t) \in Nat /\ Len(t) # 0 /\ Len(s) \in Nat
  BY HeadTailProperties, LenProperties, EmptySeq
<1> DEFINE l == Append(s, Head(t)) \o Tail(t)
           r == s \o t
<1>2. /\ Append(s, Head(t)) \in Seq(S)
      /\ Len(Append(s, Head(t))) = Len(s) + 1
      /\ \A i \in 1 .. Len(s) : Append(s, Head(t))[i] = s[i]
      /\ Append(s, Head(t))[Len(s) + 1] = Head(t)
  BY <1>1, AppendProperties
<1>3. /\ l \in Seq(S) /\ Len(l) = Len(s) + Len(t)
      /\ \A i \in 1 .. Len(s) + Len(t) :
           l[i] = IF i <= Len(s) + 1 THEN Append(s, Head(t))[i] ELSE Tail(t)[i - (Len(s) + 1)]
  <2>1. (Len(s) + 1) + (Len(t) - 1) = Len(s) + Len(t)
    BY <1>1
  <2> QED
    BY <1>1, <1>2, <2>1, ConcatProperties
<1>4. /\ r \in Seq(S) /\ Len(r) = Len(s) + Len(t)
      /\ \A i \in 1 .. Len(s) + Len(t) : r[i] = IF i <= Len(s) THEN s[i] ELSE t[i - Len(s)]
  BY ConcatProperties
<1> HIDE DEF l, r
<1>5. ASSUME NEW i \in 1 .. Len(s) + Len(t) PROVE l[i] = r[i]
  <2>1. CASE i <= Len(s)
    BY <1>1, <1>2, <1>3, <1>4, <2>1
  <2>2. CASE i = Len(s) + 1
    BY <1>1, <1>2, <1>3, <1>4, <2>2
  <2>3. CASE i > Len(s) + 1
    <3>1. i - (Len(s) + 1) \in 1 .. Len(Tail(t)) /\ (i - (Len(s) + 1)) + 1 = i - Len(s)
      BY <1>1, <2>3
    <3>2. Tail(t)[i - (Len(s) + 1)] = t[i - Len(s)]
      BY <1>1, <3>1
    <3> QED
      BY <1>1, <1>3, <1>4, <2>3, <3>2
  <2> QED
    BY <1>1, <2>1, <2>2, <2>3
<1>6. l = r
  BY <1>3, <1>4, <1>5, SeqEqual
<1> QED
  BY <1>6 DEF l, r

\* Removing the front of s \o t removes the front of s, when s has one.
LEMMA RemovingFront ==
    ASSUME NEW S, NEW s \in Seq(S), NEW t \in Seq(S), s # << >>
    PROVE  Tail(s \o t) = Tail(s) \o t
<1>1. /\ Tail(s) \in Seq(S) /\ Len(Tail(s)) = Len(s) - 1 /\ Len(s) \in Nat
      /\ \A i \in 1 .. Len(Tail(s)) : Tail(s)[i] = s[i + 1]
      /\ Len(s) # 0 /\ Len(t) \in Nat
  BY HeadTailProperties, LenProperties, EmptySeq
<1>2. /\ s \o t \in Seq(S) /\ Len(s \o t) = Len(s) + Len(t) /\ s \o t # << >>
      /\ \A i \in 1 .. Len(s) + Len(t) :
           (s \o t)[i] = IF i <= Len(s) THEN s[i] ELSE t[i - Len(s)]
  BY ConcatProperties, ConcatEqualIffEmpty
<1> DEFINE l == Tail(s \o t)
           r == Tail(s) \o t
<1>3. /\ l \in Seq(S) /\ Len(l) = Len(s) + Len(t) - 1
      /\ \A i \in 1 .. Len(s) + Len(t) - 1 : l[i] = (s \o t)[i + 1]
  BY <1>1, <1>2, HeadTailProperties
<1>4. /\ r \in Seq(S) /\ Len(r) = (Len(s) - 1) + Len(t)
      /\ \A i \in 1 .. (Len(s) - 1) + Len(t) :
           r[i] = IF i <= Len(s) - 1 THEN Tail(s)[i] ELSE t[i - (Len(s) - 1)]
  BY <1>1, ConcatProperties
<1> HIDE DEF l, r
<1>5. ASSUME NEW i \in 1 .. Len(s) + Len(t) - 1 PROVE l[i] = r[i]
  <2>1. i + 1 \in 1 .. Len(s) + Len(t) /\ (i + 1) - Len(s) = i - (Len(s) - 1)
    BY <1>1
  <2>2. CASE i <= Len(s) - 1
    BY <1>1, <1>2, <1>3, <1>4, <2>1, <2>2
  <2>3. CASE i > Len(s) - 1
    BY <1>1, <1>2, <1>3, <1>4, <2>1, <2>3
  <2> QED
    BY <1>1, <2>2, <2>3
<1>6. l = r
  <2>1. Len(l) = Len(r)
    BY <1>1, <1>3, <1>4
  <2> QED
    BY <1>3, <1>4, <1>5, <2>1, SeqEqual
<1> QED
  BY <1>6 DEF l, r

\* The output buffer, the link and the input buffer of a channel implement one
\* FIFO of twice the depth (output_channel_buffer.sv and input_channel_buffer.sv
\* together): no packet is lost, duplicated or reordered, for every depth, as
\* long as dequeues are guarded by the trigger.
THEOREM ChannelIsFifo == GuardedDequeues => (Spec => ImplementsPacketFifo)
<1> SUFFICES ASSUME GuardedDequeues PROVE Spec => ImplementsPacketFifo
  OBVIOUS
<1> DEFINE q == Contents(in) \o Contents(out)
<1>1. Init => Channel!Init
  <2> SUFFICES ASSUME Init PROVE Contents(in) \o Contents(out) = << >>
    BY DEF Channel!Init
  <2>1. in \in Buffer /\ out \in Buffer /\ in.count = 0 /\ out.count = 0
    BY DEF Init, Cleared
  <2>2. /\ Contents(in) \in Seq(Packet) /\ Contents(out) \in Seq(Packet)
        /\ Len(Contents(in)) = 0 /\ Len(Contents(out)) = 0
    BY <2>1, ContentsType
  <2>3. Contents(in) = << >> /\ Contents(out) = << >>
    BY <2>2, EmptySeq
  <2> QED
    BY <2>2, <2>3, ConcatEmptySeq
<1>2. TypeOK /\ RingConsistent /\ [Next]_vars => [Channel!Next]_(Contents(in) \o Contents(out))
  <2> SUFFICES ASSUME TypeOK, RingConsistent, [Next]_vars
               PROVE  Channel!Next \/ UNCHANGED q
    OBVIOUS
  <2>1. ASSUME NEW packet \in Packet \cup {NoPacket}, NEW dequeue \in BOOLEAN,
               Clock(packet, dequeue)
        PROVE  Channel!Edge(dequeue, packet)
    <3> DEFINE s == Contents(in)
               t == Contents(out)
               s1 == Channel!Removing(s, dequeue)
               moved == Req /\ Ack
    <3>1. /\ dequeue => ~InputEmpty
          /\ packet # NoPacket => ~OutputFull
          /\ out' = OutputAfter(packet) /\ in' = InputAfter(dequeue)
      BY <2>1 DEF Clock
    <3>2. /\ in \in Buffer /\ out \in Buffer
          /\ s \in Seq(Packet) /\ t \in Seq(Packet)
          /\ Len(s) = in.count /\ Len(t) = out.count
          /\ in.count \in 0 .. Depth /\ out.count \in 0 .. Depth
      BY ContentsType DEF TypeOK, Buffer
    <3>3. Len(s \o t) = Len(s) + Len(t)
      BY <3>2, ConcatProperties
    <3>4. dequeue => s # << >> /\ s \o t # << >>
      BY <3>1, <3>2, ConcatEqualIffEmpty, EmptySeq DEF InputEmpty
    <3>5. packet # NoPacket => Len(s \o t) < 2 * Depth /\ packet \in Packet
      BY <3>1, <3>2, <3>3, DepthAssumption DEF OutputFull
    <3>6. s1 \in Seq(Packet)
      BY <3>2, <3>4, HeadTailProperties DEF Channel!Removing
    <3>7. Contents(in)' = IF moved THEN Append(s1, LinkPacket) ELSE s1
      <4>1. Contents(in)' = Contents(InputAfter(dequeue))
        BY <3>1 DEF Contents
      <4> QED
        BY <3>1, <4>1, InputContents
    <3>8. Contents(out)' = Channel!Adding(Channel!Removing(t, moved), packet)
      <4>1. Contents(out)' = Contents(OutputAfter(packet))
        BY <3>1 DEF Contents
      <4> QED
        BY <3>1, <4>1, OutputContents
    <3>9. Channel!Removing(s \o t, dequeue) = s1 \o t
      BY <3>2, <3>4, RemovingFront DEF Channel!Removing
    <3>10. moved => t # << >> /\ LinkPacket = Head(t) /\ Tail(t) \in Seq(Packet)
      BY <3>2, LinkPacketIsOldest, HeadTailProperties
    <3> DEFINE s2 == IF moved THEN Append(s1, LinkPacket) ELSE s1
               t2 == Channel!Removing(t, moved)
    <3>11. s2 \o t2 = s1 \o t /\ s2 \in Seq(Packet) /\ t2 \in Seq(Packet)
      <4>1. CASE moved
        <5>1. LinkPacket \in Packet
          BY <3>2, <3>10, <4>1, HeadTailProperties
        <5>2. Append(s1, LinkPacket) \in Seq(Packet)
          BY <3>6, <5>1, AppendProperties
        <5> QED
          BY <3>2, <3>6, <3>10, <4>1, <5>2, Handover DEF Channel!Removing
      <4>2. CASE ~moved
        BY <3>2, <3>6, <4>2 DEF Channel!Removing
      <4> QED
        BY <4>1, <4>2
    <3> HIDE DEF s2, t2
    <3>12. s2 \o Channel!Adding(t2, packet) = Channel!Adding(s1 \o t, packet)
      <4>1. CASE packet = NoPacket
        BY <3>11, <4>1 DEF Channel!Adding
      <4>2. CASE packet # NoPacket
        <5>1. packet \in Packet /\ s2 \in Seq(Packet) /\ t2 \in Seq(Packet)
          BY <3>11, <4>2
        <5>2. Append(s2 \o t2, packet) = s2 \o Append(t2, packet)
          <6>1. << packet >> \in Seq(Packet)
            BY <5>1
          <6>2. /\ Append(s2 \o t2, packet) = (s2 \o t2) \o << packet >>
                /\ Append(t2, packet) = t2 \o << packet >>
            BY <5>1, AppendIsConcat, ConcatProperties
          <6> QED
            BY <5>1, <6>1, <6>2, ConcatAssociative
        <5> QED
          BY <3>11, <4>2, <5>2 DEF Channel!Adding
      <4> QED
        BY <4>1, <4>2
    <3> HIDE DEF s, t, s1, s2, t2, moved
    <3>13. (Contents(in) \o Contents(out))'
             = Channel!Adding(Channel!Removing(Contents(in) \o Contents(out), dequeue), packet)
      BY <3>7, <3>8, <3>9, <3>12 DEF s2, t2, s, t
    <3> QED
      BY <3>4, <3>5, <3>13 DEF Channel!Edge, s, t
  <2>2. CASE UNCHANGED vars
    BY <2>2 DEF vars, Contents
  <2> QED
    BY <2>1, <2>2 DEF Next, Channel!Next
<1>3. Spec => [](TypeOK /\ RingConsistent)
  BY BufferSafety
<1> QED
  BY <1>1, <1>2, <1>3, PTL DEF Spec, ImplementsPacketFifo, Channel!Spec
=============================================================================
