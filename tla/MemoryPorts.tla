--------------------------- MODULE MemoryPorts ---------------------------
(***************************************************************************)
(* The data memory of a test system (memory_1r_1w, memory_2r_1w,           *)
(* memory_4r_1w): read ports with a state machine of two states, a write   *)
(* port without state, and a block RAM whose read data are registered.     *)
(* The memory is always enabled.  The channel buffers are the queues that  *)
(* ChannelBuffers shows them to be.  The host, which reads and writes the  *)
(* RAM through the same ports of it, is silent while elements execute.     *)
(***************************************************************************)
EXTENDS Naturals, Sequences

CONSTANTS
    ReadPorts,
    Packet,     \* [tag, data] records
    Arriving,   \* the packets elements send, a subset of Packet
    NoPacket,   \* nothing arrives at this edge
    Size,       \* DEPTH of the memory
    Reach,      \* 2 ** $clog2(DEPTH), the indices that reach the RAM
    Depth       \* TIA_CHANNEL_BUFFER_FIFO_DEPTH

ASSUME MemoryAssumption ==
    /\ Size \in Nat \ {0} /\ Depth \in Nat /\ Depth >= 2
    /\ Reach \in Nat /\ Size <= Reach /\ Reach < 2 * Size /\ \E n \in 0 .. Size : Reach = 2 ^ n
    /\ Arriving \subseteq Packet /\ NoPacket \notin Packet
    /\ \A p, q \in Packet : p.data \in Nat /\ [tag |-> p.tag, data |-> q.data] \in Packet

VARIABLES
    ram,          \* dual_port_ram.ram, every bank the same
    readData,     \* dual_port_ram.read_data of the bank of each read port
    state,        \* read_port.current_state
    readIndexIn,  \* read_index_input_channel
    readDataOut,  \* read_data_output_channel
    writeIndexIn, \* write_index_input_channel
    writeDataIn   \* write_data_input_channel

vars == << ram, readData, state, readIndexIn, readDataOut, writeIndexIn, writeDataIn >>

Words == {p.data : p \in Packet}

States == {"STATE_0", "STATE_1"}

Init ==
    /\ ram \in [0 .. Size - 1 -> Words]
    /\ readData \in [ReadPorts -> Words]
    /\ state = [p \in ReadPorts |-> "STATE_0"]
    /\ readIndexIn = [p \in ReadPorts |-> << >>]
    /\ readDataOut = [p \in ReadPorts |-> << >>]
    /\ writeIndexIn = << >> /\ writeDataIn = << >>

-----------------------------------------------------------------------------
\* $clog2(DEPTH) bits of the index reach the RAM, which may be more than its words.
Location(packet) == packet.data % Reach

Full(q) == Len(q) = Depth

\* Mutant of Received: the link acknowledges when the buffer is full.
ReceivedWhenFull(q, dequeue, arriving) ==
    LET rest == IF dequeue THEN Tail(q) ELSE q
    IN  IF arriving # NoPacket THEN Append(rest, arriving) ELSE rest

\* An input channel buffer at an edge; the link acknowledges unless it is full.
Received(q, dequeue, arriving) ==
    LET rest == IF dequeue THEN Tail(q) ELSE q
    IN  IF arriving # NoPacket /\ ~Full(q) THEN Append(rest, arriving) ELSE rest

\* An output channel buffer at an edge; what is enqueued when full is dropped.
Sent(q, enqueue, packet, acknowledged) ==
    LET rest == IF acknowledged /\ q # << >> THEN Tail(q) ELSE q
    IN  IF ~enqueue THEN rest ELSE IF Full(q) THEN q ELSE Append(rest, packet)

\* Mutant of NextState: the room for the answer is not looked at.
NextStateIgnoringRoom(p) ==
    IF state[p] = "STATE_0" /\ readIndexIn[p] # << >> THEN "STATE_1" ELSE "STATE_0"

\* Mutant of NextState: a slot of the output buffer is kept free.
NextStateOneEarly(p) ==
    IF state[p] = "STATE_0" /\ readIndexIn[p] # << >> /\ Len(readDataOut[p]) + 1 < Depth
    THEN "STATE_1" ELSE "STATE_0"

\* Mutant of NextState: a second request is answered in the cycle after the first.
NextStateBackToBack(p) ==
    IF Len(readIndexIn[p]) > (IF state[p] = "STATE_1" THEN 1 ELSE 0)
         /\ ~Full(readDataOut[p])
    THEN "STATE_1" ELSE "STATE_0"

\* Only this port enqueues answers, so the room seen in STATE_0 is still there in
\* STATE_1.
NextState(p) ==
    IF state[p] = "STATE_0" /\ readIndexIn[p] # << >> /\ ~Full(readDataOut[p])
    THEN "STATE_1" ELSE "STATE_0"

\* In STATE_1 the request is dequeued and the answer enqueued, with its tag.
Answering(p) == state[p] = "STATE_1"
AnswerPacket(p) == [tag |-> Head(readIndexIn[p]).tag, data |-> readData[p]]

\* The words the RAM may register: the head slot of an empty buffer is stale, and what
\* lies beyond the words is undefined.
RamOutput(p) ==
    IF readIndexIn[p] # << >> /\ Location(Head(readIndexIn[p])) < Size
    THEN {ram[Location(Head(readIndexIn[p]))]}
    ELSE Words

WriteEnable == writeIndexIn # << >> /\ writeDataIn # << >>

\* One clock edge: what arrives on each link, and which answers are taken.
Clock(request, taken, address, datum) ==
    /\ state' = [p \in ReadPorts |-> NextState(p)]
    /\ readData' \in {r \in [ReadPorts -> Words] : \A p \in ReadPorts : r[p] \in RamOutput(p)}
    /\ readIndexIn' =
          [p \in ReadPorts |-> Received(readIndexIn[p], Answering(p), request[p])]
    /\ readDataOut' =
          [p \in ReadPorts |->
              IF Answering(p)
              THEN Sent(readDataOut[p], TRUE, AnswerPacket(p), p \in taken)
              ELSE Sent(readDataOut[p], FALSE, NoPacket, p \in taken)]
    /\ ram' = IF WriteEnable
              THEN [a \in DOMAIN ram |->
                       IF a = Location(Head(writeIndexIn)) THEN Head(writeDataIn).data ELSE ram[a]]
              ELSE ram
    /\ writeIndexIn' = Received(writeIndexIn, WriteEnable, address)
    /\ writeDataIn' = Received(writeDataIn, WriteEnable, datum)

Links == Arriving \cup {NoPacket}

Next ==
    \E request \in [ReadPorts -> Links], taken \in SUBSET ReadPorts,
       address, datum \in Links : Clock(request, taken, address, datum)

Spec == Init /\ [][Next]_vars

\* The clock ticks as long as a tick can change something.
FairSpec == Spec /\ WF_vars(Next)

-----------------------------------------------------------------------------
Queue == {<< >>} \cup UNION {[1 .. n -> Packet] : n \in 1 .. Depth}

\* Type invariant: no queue holds more than its buffer.
TypeOK ==
    /\ ram \in [0 .. Size - 1 -> Words] /\ readData \in [ReadPorts -> Words]
    /\ state \in [ReadPorts -> States]
    /\ readIndexIn \in [ReadPorts -> Queue] /\ readDataOut \in [ReadPorts -> Queue]
    /\ writeIndexIn \in Queue /\ writeDataIn \in Queue

\* Between the edge that reads the RAM and the edge that passes the word on, a port
\* still holds the request and still has room for the answer: what was looked at
\* in STATE_0 has not gone stale.
AnswerFits ==
    \A p \in ReadPorts : Answering(p) => readIndexIn[p] # << >> /\ ~Full(readDataOut[p])

\* The ports are a memory that answers each request once and in order, with its tag
\* and with the word of the moment the RAM is read; a write that comes between that
\* moment and the answer is not seen, one before it is.  Addresses meet data in order.
Service == INSTANCE MemoryService WITH
    WritePorts <- {"wp"},
    requests   <- [p \in ReadPorts |->
                      IF Answering(p) THEN Tail(readIndexIn[p]) ELSE readIndexIn[p]],
    answers    <- [p \in ReadPorts |->
                      IF Answering(p) THEN Append(readDataOut[p], AnswerPacket(p))
                                      ELSE readDataOut[p]],
    addresses  <- [w \in {"wp"} |-> writeIndexIn],
    data       <- [w \in {"wp"} |-> writeDataIn]
ImplementsMemory == Service!Spec

\* A request that has arrived is answered, provided that answers are taken: that
\* there is room for one more again and again.
RequestsServed ==
    \A p \in ReadPorts :
        []<>~Full(readDataOut[p]) => (readIndexIn[p] # << >> ~> Answering(p))
=============================================================================
