-------------------------- MODULE ChannelBuffers --------------------------
(***************************************************************************)
(* One channel of the interconnect: the output_channel_buffer of the       *)
(* sending element, the link (req, ack, packet) and the                    *)
(* input_channel_buffer of the receiving element.  Both buffers are        *)
(* circular FIFOs with a head index, a tail index and a count, updated on  *)
(* the same clock edge; the handshake between them is combinational.       *)
(***************************************************************************)
EXTENDS Naturals, Sequences

CONSTANTS
    Packet,      \* the packets the channel carries
    NoPacket,    \* no enqueue on this clock edge
    Depth,       \* TIA_CHANNEL_BUFFER_FIFO_DEPTH, a power of two
    GuardedDequeues
        \* TRUE when every program names the channels it dequeues among the
        \* channels its trigger checks, so that a dequeue finds a packet.
        \* The assembler does not enforce it.

ASSUME DepthAssumption   == Depth \in Nat /\ Depth >= 2
ASSUME NoPacketAssumption == NoPacket \notin Packet
ASSUME GuardAssumption   == GuardedDequeues \in BOOLEAN

VARIABLES
    out,  \* output_channel_buffer of the sender
    in    \* input_channel_buffer of the receiver

vars == << out, in >>

Index == 0 .. Depth - 1

Buffer == [fifo : [Index -> Packet], head : Index, tail : Index, count : 0 .. Depth]

-----------------------------------------------------------------------------
\* An index of $clog2(FIFO_DEPTH) bits wraps at the depth.
Inc(i) == IF i = Depth - 1 THEN 0 ELSE i + 1

OutputFull == out.count = Depth
Req        == out.count # 0
LinkPacket == out.fifo[out.head]

\* Mutant of Ack: the full test is off by one.
AckOffByOne == in.count # Depth + 1

Ack        == in.count # Depth
InputEmpty == in.count = 0

\* input_channel.packet and input_channel.next_packet, the two packets the
\* core can see (the second is zero, here NoPacket, unless there are two).
PeekPacket == in.fifo[in.head]

\* Mutant of NextPacket: a stale slot is shown when only one packet is buffered.
NextPacketUnguarded == IF in.count > 0 THEN in.fifo[Inc(in.head)] ELSE NoPacket

NextPacket == IF in.count > 1 THEN in.fifo[Inc(in.head)] ELSE NoPacket

\* A reset leaves the packet memory as it is.
Cleared(b) == b.head = 0 /\ b.tail = 0 /\ b.count = 0

-----------------------------------------------------------------------------
\* Mutant of OutputAfter: the tail stays when a packet enters as another leaves.
OutputAfterTailForgotten(packet) ==
    IF packet # NoPacket /\ ~OutputFull
    THEN IF Req /\ Ack
         THEN [out EXCEPT !.fifo[out.tail] = packet, !.head = Inc(out.head)]
         ELSE [out EXCEPT !.fifo[out.tail] = packet, !.tail = Inc(out.tail),
                          !.count = out.count + 1]
    ELSE IF Req /\ Ack
         THEN [out EXCEPT !.head = Inc(out.head), !.count = out.count - 1]
         ELSE out

\* output_channel_buffer on a clock edge.
OutputAfter(packet) ==
    LET sent == Req /\ Ack
    IN  IF packet # NoPacket
        THEN IF OutputFull
             THEN out
             ELSE [fifo  |-> [out.fifo EXCEPT ![out.tail] = packet],
                   head  |-> IF sent THEN Inc(out.head) ELSE out.head,
                   tail  |-> Inc(out.tail),
                   count |-> IF sent THEN out.count ELSE out.count + 1]
        ELSE IF sent
             THEN [out EXCEPT !.head = Inc(out.head), !.count = out.count - 1]
             ELSE out

\* Mutant of InputAfter: a dequeue hides the packet that arrives with it.
InputAfterArrivalHidden(dequeue) ==
    IF dequeue
    THEN IF InputEmpty
         THEN in
         ELSE [in EXCEPT !.head = Inc(in.head), !.count = in.count - 1]
    ELSE IF Req /\ Ack
         THEN [in EXCEPT !.fifo[in.tail] = LinkPacket, !.tail = Inc(in.tail),
                         !.count = in.count + 1]
         ELSE in

\* input_channel_buffer on a clock edge.
InputAfter(dequeue) ==
    LET received == Req /\ Ack
    IN  IF dequeue
        THEN IF InputEmpty
             THEN in
             ELSE IF received
                  THEN [fifo  |-> [in.fifo EXCEPT ![in.tail] = LinkPacket],
                        head  |-> Inc(in.head),
                        tail  |-> Inc(in.tail),
                        count |-> in.count]
                  ELSE [in EXCEPT !.head = Inc(in.head), !.count = in.count - 1]
        ELSE IF received
             THEN [fifo  |-> [in.fifo EXCEPT ![in.tail] = LinkPacket],
                   head  |-> in.head,
                   tail  |-> Inc(in.tail),
                   count |-> in.count + 1]
             ELSE in

Init ==
    /\ out \in Buffer /\ Cleared(out)
    /\ in \in Buffer /\ Cleared(in)

\* The sender's trigger resolver never fires an instruction whose output
\* channel is full; the receiver dequeues what its instructions say.
Clock(packet, dequeue) ==
    /\ packet # NoPacket => ~OutputFull
    /\ GuardedDequeues /\ dequeue => ~InputEmpty
    /\ out' = OutputAfter(packet)
    /\ in' = InputAfter(dequeue)

Next == \E packet \in Packet \cup {NoPacket}, dequeue \in BOOLEAN :
            Clock(packet, dequeue)

Spec == Init /\ [][Next]_vars

-----------------------------------------------------------------------------
\* Type invariant: indices and counts stay within the widths declared for them.
TypeOK == out \in Buffer /\ in \in Buffer

\* The n-th slot behind index h, going round the ring.
Slot(h, n) == IF h + n >= Depth THEN h + n - Depth ELSE h + n

\* The packets a buffer holds, oldest first.
Contents(b) == [i \in 1 .. b.count |-> b.fifo[Slot(b.head, i - 1)]]

\* The three pieces of state of each ring agree: the tail index, which is
\* where the next packet is written, is always count slots behind the head.
\* Broken by any path through the update that moves one without the others.
RingConsistent ==
    /\ out.tail = Slot(out.head, out.count)
    /\ in.tail = Slot(in.head, in.count)

\* The two rings and the handshake together are one FIFO of twice the depth:
\* every packet enqueued by the sender reaches the receiver exactly once and in
\* order, whichever combination of enqueue, transfer and dequeue a clock edge sees.
Channel == INSTANCE PacketFifo
               WITH q <- Contents(in) \o Contents(out), Capacity <- 2 * Depth
ImplementsPacketFifo == Channel!Spec

\* The tag lookahead shown to the trigger stage is the truth: when the head is
\* dequeued from a buffer of two or more packets, next_packet is what the core
\* sees at the head after the edge, whatever arrives on the link meanwhile.
LookaheadIsNextHead ==
    [][ \A p \in Packet \cup {NoPacket} :
          Clock(p, TRUE) /\ NextPacket # NoPacket => PeekPacket' = NextPacket ]_vars

\* "Note that attempts to dequeue from an empty input channel will be ignored":
\* the comment at the head of input_channel_buffer.sv.  An ignored attempt would
\* leave the buffer as the same clock edge without the attempt leaves it.
EmptyDequeueIgnored ==
    [][ \A p \in Packet \cup {NoPacket} :
          Clock(p, TRUE) /\ InputEmpty => in' = InputAfter(FALSE) ]_vars
=============================================================================
