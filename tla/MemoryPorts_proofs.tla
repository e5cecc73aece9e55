------------------------ MODULE MemoryPorts_proofs ------------------------
(***************************************************************************)
(* Proofs about MemoryPorts, for every number of read ports, every set of  *)
(* packets, every size of the memory and every depth of the channel        *)
(* buffers: what a read port looks at in STATE_0 is still there in         *)
(* STATE_1, and the ports implement MemoryService.                         *)
(***************************************************************************)
EXTENDS MemoryPorts, SequenceTheorems, TLAPS

(***************************************************************************)
(* Queues and what an edge does to them.                                   *)
(***************************************************************************)

\* A queue is a sequence of packets no longer than its buffer.
LEMMA QueueIsBounded == Queue = {s \in Seq(Packet) : Len(s) <= Depth}
<1>1. Depth \in Nat
  BY MemoryAssumption
<1>2. ASSUME NEW s \in Queue PROVE s \in Seq(Packet) /\ Len(s) <= Depth
  <2>1. CASE s = << >>
    BY <1>1, <2>1
  <2>2. CASE \E n \in 1 .. Depth : s \in [1 .. n -> Packet]
    BY <1>1, <2>2
  <2> QED
    BY <1>2, <2>1, <2>2 DEF Queue
<1>3. ASSUME NEW s \in Seq(Packet), Len(s) <= Depth PROVE s \in Queue
  <2>1. s \in [1 .. Len(s) -> Packet] /\ Len(s) \in Nat
    BY LenProperties
  <2>2. CASE Len(s) = 0
    BY <2>2, EmptySeq DEF Queue
  <2>3. CASE Len(s) # 0
    <3>1. Len(s) \in 1 .. Depth
      BY <1>1, <1>3, <2>1, <2>3
    <3> QED
      BY <2>1, <3>1 DEF Queue
  <2> QED
    BY <2>2, <2>3
<1> QED
  BY <1>2, <1>3

\* What arrives is a packet, unless nothing arrives.
LEMMA ArrivingType == \A a \in Links : a # NoPacket => a \in Packet
  BY MemoryAssumption DEF Links

\* A packet that arrives in a buffer with room fits behind what a dequeue may leave.
LEMMA AppendFits ==
    ASSUME NEW q \in Queue, ~Full(q), NEW rest \in Seq(Packet), Len(rest) <= Len(q),
           NEW a \in Packet
    PROVE  Append(rest, a) \in Queue
<1>1. q \in Seq(Packet) /\ Len(q) <= Depth /\ Depth \in Nat /\ Len(q) \in Nat /\ Len(rest) \in Nat
  BY QueueIsBounded, MemoryAssumption, LenProperties
<1>2. Append(rest, a) \in Seq(Packet) /\ Len(Append(rest, a)) <= Depth
  BY <1>1, AppendProperties DEF Full
<1> QED
  BY <1>2, QueueIsBounded

\* Taking the oldest packet leaves a queue.
LEMMA TailIsQueue ==
    \A q \in Queue : q # << >> => Tail(q) \in Queue /\ Len(Tail(q)) <= Len(q)
<1> SUFFICES ASSUME NEW q \in Queue, q # << >>
             PROVE  Tail(q) \in Queue /\ Len(Tail(q)) <= Len(q)
  OBVIOUS
<1>1. q \in Seq(Packet) /\ Len(q) <= Depth /\ Depth \in Nat /\ Len(q) \in Nat
  BY QueueIsBounded, MemoryAssumption, LenProperties
<1>2. Tail(q) \in Seq(Packet) /\ Len(Tail(q)) = Len(q) - 1
  BY <1>1, HeadTailProperties
<1> QED
  BY <1>1, <1>2, QueueIsBounded

\* What arrives in an input channel buffer at an edge goes behind what stays.
LEMMA ReceivedType ==
    ASSUME NEW q \in Queue, NEW a \in Links
    PROVE  /\ Received(q, FALSE, a) \in Queue
           /\ \/ Received(q, FALSE, a) = q
              \/ \E p \in Packet : Received(q, FALSE, a) = Append(q, p)
           /\ q # << >> =>
                 /\ Received(q, TRUE, a) \in Queue
                 /\ \/ Received(q, TRUE, a) = Tail(q)
                    \/ \E p \in Packet : Received(q, TRUE, a) = Append(Tail(q), p)
<1>1. q \in Seq(Packet) /\ Len(q) \in Nat /\ Len(q) <= Len(q)
  BY QueueIsBounded, LenProperties
<1>2. q # << >> => Tail(q) \in Queue /\ Tail(q) \in Seq(Packet) /\ Len(Tail(q)) <= Len(q)
  BY TailIsQueue, QueueIsBounded
<1>3. CASE a # NoPacket /\ ~Full(q)
  <2>1. a \in Packet
    BY <1>3, ArrivingType
  <2>2. Append(q, a) \in Queue
    BY <1>1, <1>3, <2>1, AppendFits
  <2>3. q # << >> => Append(Tail(q), a) \in Queue
    BY <1>2, <1>3, <2>1, AppendFits
  <2> QED
    BY <1>3, <2>1, <2>2, <2>3 DEF Received
<1>4. CASE ~(a # NoPacket /\ ~Full(q))
  BY <1>2, <1>4 DEF Received
<1> QED
  BY <1>3, <1>4

\* The packet that is enqueued goes behind one that is taken at the same edge.
LEMMA TailAppend ==
    ASSUME NEW s \in Seq(Packet), NEW a \in Packet, s # << >>
    PROVE  /\ Tail(Append(s, a)) = Append(Tail(s), a)
           /\ Head(Append(s, a)) = Head(s)
           /\ Append(s, a) # << >>
<1>1. Len(s) \in Nat \ {0}
  BY EmptySeq, LenProperties
<1> QED
  BY <1>1

\* Giving nothing, and giving one answer.
LEMMA Giving ==
    \A s \in Seq(Packet), a \in Packet : s \o << >> = s /\ s \o << a >> = Append(s, a)
<1> SUFFICES ASSUME NEW s \in Seq(Packet), NEW a \in Packet
             PROVE  s \o << >> = s /\ s \o << a >> = Append(s, a)
  OBVIOUS
<1>1. s \o << >> = s
  BY ConcatEmptySeq
<1>2. s \o << a >> = Append(s, a)
  BY AppendIsConcat
<1> QED
  BY <1>1, <1>2

\* An index that reaches the RAM is a number, which may be beyond its words.
LEMMA LocationType == \A p \in Packet : Location(p) \in Nat
<1>1. \A i \in Nat, n \in Nat \ {0} : i % n \in Nat
  OBVIOUS
<1>2. Size \in Nat \ {0} /\ Reach \in Nat /\ Size <= Reach
  BY MemoryAssumption, Zenon
<1>3. \A p \in Packet : p.data \in Nat
  BY MemoryAssumption, Zenon
<1>4. Reach \in Nat \ {0}
  BY <1>2
<1> QED
  BY <1>1, <1>3, <1>4 DEF Location

\* Every word the RAM may register is a word.
LEMMA RamOutputType ==
    ASSUME TypeOK, NEW p \in ReadPorts PROVE RamOutput(p) \subseteq Words
<1>1. CASE ~(readIndexIn[p] # << >> /\ Location(Head(readIndexIn[p])) < Size)
  BY <1>1 DEF RamOutput
<1>2. CASE readIndexIn[p] # << >> /\ Location(Head(readIndexIn[p])) < Size
  <2>1. Head(readIndexIn[p]) \in Packet
    BY <1>2, QueueIsBounded, HeadTailProperties DEF TypeOK
  <2>2. Location(Head(readIndexIn[p])) \in 0 .. Size - 1
    BY <1>2, <2>1, LocationType, MemoryAssumption
  <2> QED
    BY <1>2, <2>2 DEF RamOutput, TypeOK
<1> QED
  BY <1>1, <1>2

\* The answer is a packet while a request waits.
LEMMA AnswerType ==
    ASSUME TypeOK, NEW p \in ReadPorts, readIndexIn[p] # << >>
    PROVE  AnswerPacket(p) \in Packet
<1>1. Head(readIndexIn[p]) \in Packet
  BY QueueIsBounded, HeadTailProperties DEF TypeOK
<1>2. PICK w \in Packet : readData[p] = w.data
  BY DEF TypeOK, Words
<1> QED
  BY <1>1, <1>2, MemoryAssumption DEF AnswerPacket

(***************************************************************************)
(* Safety: TypeOK and AnswerFits are inductive together.                   *)
(***************************************************************************)

PortInv == TypeOK /\ AnswerFits

LEMMA InitEstablishesPortInv == Init => PortInv
<1> SUFFICES ASSUME Init PROVE PortInv
  OBVIOUS
<1>1. << >> \in Queue
  BY DEF Queue
<1> QED
  BY <1>1 DEF Init, PortInv, TypeOK, AnswerFits, Answering, States

\* The buffers of a read port after an edge, for each state it may be in.
LEMMA PortStep ==
    ASSUME PortInv, NEW request \in [ReadPorts -> Links], NEW taken \in SUBSET ReadPorts,
           NEW address \in Links, NEW datum \in Links,
           Clock(request, taken, address, datum), NEW p \in ReadPorts
    PROVE  LET rest == IF Answering(p) THEN Tail(readIndexIn[p]) ELSE readIndexIn[p]
               left == IF p \in taken /\ readDataOut[p] # << >>
                       THEN Tail(readDataOut[p]) ELSE readDataOut[p]
           IN  /\ readIndexIn'[p] \in Queue
               /\ readDataOut'[p] \in Queue
               /\ \/ readIndexIn'[p] = rest
                  \/ \E a \in Packet : readIndexIn'[p] = Append(rest, a)
               /\ readDataOut'[p] =
                     IF Answering(p) THEN Append(left, AnswerPacket(p)) ELSE left
               /\ ~Answering(p) => Len(readDataOut'[p]) <= Len(readDataOut[p])
               /\ state'[p] = NextState(p)
               /\ readData'[p] \in RamOutput(p)
<1>1. /\ readIndexIn[p] \in Queue /\ readDataOut[p] \in Queue
      /\ Answering(p) \in BOOLEAN /\ (p \in taken) \in BOOLEAN /\ request[p] \in Links
  BY DEF PortInv, TypeOK, Answering
<1>2. Answering(p) => readIndexIn[p] # << >> /\ ~Full(readDataOut[p])
  BY DEF PortInv, AnswerFits
<1>4. /\ readIndexIn'[p] \in Queue
      /\ LET rest == IF Answering(p) THEN Tail(readIndexIn[p]) ELSE readIndexIn[p]
         IN  \/ readIndexIn'[p] = rest
             \/ \E a \in Packet : readIndexIn'[p] = Append(rest, a)
  <2> DEFINE q == readIndexIn[p]
             a == request[p]
  <2>1. CASE Answering(p)
    <3>1. readIndexIn'[p] = Received(q, TRUE, a)
      BY <2>1 DEF Clock, Received
    <3>2. /\ Received(q, TRUE, a) \in Queue
          /\ \/ Received(q, TRUE, a) = Tail(q)
             \/ \E r \in Packet : Received(q, TRUE, a) = Append(Tail(q), r)
      BY <1>1, <1>2, <2>1, ReceivedType
    <3> QED
      BY <2>1, <3>1, <3>2
  <2>2. CASE ~Answering(p)
    <3>1. readIndexIn'[p] = Received(q, FALSE, a)
      BY <2>2 DEF Clock, Received
    <3>2. /\ Received(q, FALSE, a) \in Queue
          /\ \/ Received(q, FALSE, a) = q
             \/ \E r \in Packet : Received(q, FALSE, a) = Append(q, r)
      BY <1>1, ReceivedType
    <3> QED
      BY <2>2, <3>1, <3>2
  <2> QED
    BY <2>1, <2>2
<1>5. Answering(p) => AnswerPacket(p) \in Packet
  BY <1>2, AnswerType DEF PortInv
<1>6. /\ readDataOut'[p] \in Queue
      /\ LET left == IF p \in taken /\ readDataOut[p] # << >>
                     THEN Tail(readDataOut[p]) ELSE readDataOut[p]
         IN  readDataOut'[p] = IF Answering(p) THEN Append(left, AnswerPacket(p)) ELSE left
      /\ ~Answering(p) => Len(readDataOut'[p]) <= Len(readDataOut[p])
  <2> DEFINE left == IF p \in taken /\ readDataOut[p] # << >>
                     THEN Tail(readDataOut[p]) ELSE readDataOut[p]
  <2>1. left \in Queue /\ left \in Seq(Packet) /\ Len(left) <= Len(readDataOut[p])
    <3>1. Len(readDataOut[p]) \in Nat
      BY <1>1, QueueIsBounded, LenProperties
    <3> QED
      BY <1>1, <3>1, TailIsQueue, QueueIsBounded
  <2>2. CASE Answering(p)
    <3>1. readDataOut'[p] = Append(left, AnswerPacket(p))
      BY <1>2, <2>2 DEF Clock, Sent
    <3> QED
      BY <1>1, <1>2, <1>5, <2>1, <2>2, <3>1, AppendFits
  <2>3. CASE ~Answering(p)
    <3>1. readDataOut'[p] = left
      BY <2>3 DEF Clock, Sent
    <3> QED
      BY <2>1, <2>3, <3>1
  <2> QED
    BY <2>2, <2>3
<1>7. state'[p] = NextState(p) /\ readData'[p] \in RamOutput(p)
  BY DEF Clock
<1> QED
  BY <1>4, <1>6, <1>7

\* The write port and the RAM keep their types.
LEMMA WriteStep ==
    ASSUME PortInv, NEW request \in [ReadPorts -> Links], NEW taken \in SUBSET ReadPorts,
           NEW address \in Links, NEW datum \in Links,
           Clock(request, taken, address, datum)
    PROVE  LET rest(q) == IF WriteEnable THEN Tail(q) ELSE q
           IN  /\ writeIndexIn' \in Queue /\ writeDataIn' \in Queue
               /\ \/ writeIndexIn' = rest(writeIndexIn)
                  \/ \E a \in Packet : writeIndexIn' = Append(rest(writeIndexIn), a)
               /\ \/ writeDataIn' = rest(writeDataIn)
                  \/ \E a \in Packet : writeDataIn' = Append(rest(writeDataIn), a)
               /\ ram' \in [0 .. Size - 1 -> Words]
<1>1. writeIndexIn \in Queue /\ writeDataIn \in Queue
  BY DEF PortInv, TypeOK
<1>2. WriteEnable => writeIndexIn # << >> /\ writeDataIn # << >>
  BY DEF WriteEnable
<1>4. ram' \in [0 .. Size - 1 -> Words]
  <2>1. CASE WriteEnable
    <3>1. Head(writeIndexIn) \in Packet /\ Head(writeDataIn) \in Packet
      BY <1>1, <1>2, <2>1, QueueIsBounded, HeadTailProperties
    <3>2. Head(writeDataIn).data \in Words
      BY <3>1 DEF Words
    <3> QED
      BY <2>1, <3>2 DEF Clock, PortInv, TypeOK
  <2>2. CASE ~WriteEnable
    BY <2>2 DEF Clock, PortInv, TypeOK
  <2> QED
    BY <2>1, <2>2
<1>5. CASE WriteEnable
  <2>1. /\ writeIndexIn' = Received(writeIndexIn, TRUE, address)
        /\ writeDataIn' = Received(writeDataIn, TRUE, datum)
    BY <1>5 DEF Clock, Received
  <2> QED
    BY <1>1, <1>2, <1>4, <1>5, <2>1, ReceivedType
<1>6. CASE ~WriteEnable
  <2>1. /\ writeIndexIn' = Received(writeIndexIn, FALSE, address)
        /\ writeDataIn' = Received(writeDataIn, FALSE, datum)
    BY <1>6 DEF Clock, Received
  <2> QED
    BY <1>1, <1>4, <1>6, <2>1, ReceivedType
<1> QED
  BY <1>5, <1>6

LEMMA NextPreservesPortInv == PortInv /\ [Next]_vars => PortInv'
<1> SUFFICES ASSUME PortInv, [Next]_vars PROVE PortInv'
  OBVIOUS
<1>1. CASE Next
  <2> PICK request \in [ReadPorts -> Links], taken \in SUBSET ReadPorts,
           address \in Links, datum \in Links : Clock(request, taken, address, datum)
    BY <1>1 DEF Next
  <2>1. TypeOK'
    <3>1. readIndexIn' \in [ReadPorts -> Queue] /\ readDataOut' \in [ReadPorts -> Queue]
      <4>1. \A p \in ReadPorts : readIndexIn'[p] \in Queue /\ readDataOut'[p] \in Queue
        BY PortStep
      <4>2. /\ readIndexIn' = [p \in ReadPorts |-> readIndexIn'[p]]
            /\ readDataOut' = [p \in ReadPorts |-> readDataOut'[p]]
        BY DEF Clock
      <4> QED
        BY <4>1, <4>2
    <3>2. state' \in [ReadPorts -> States]
      BY DEF Clock, NextState, States
    <3>3. readData' \in [ReadPorts -> Words]
      BY DEF Clock
    <3> QED
      BY <3>1, <3>2, <3>3, WriteStep DEF TypeOK, Queue
  <2>2. AnswerFits'
    <3> SUFFICES ASSUME NEW p \in ReadPorts, Answering(p)'
                 PROVE  readIndexIn'[p] # << >> /\ ~Full(readDataOut'[p])
      BY DEF AnswerFits, Full
    <3>1. ~Answering(p) /\ readIndexIn[p] # << >> /\ ~Full(readDataOut[p])
      <4>1. NextState(p) = "STATE_1"
        BY PortStep DEF Answering
      <4> QED
        BY <4>1 DEF NextState, Answering
    <3>2. readIndexIn[p] \in Seq(Packet) /\ readDataOut[p] \in Seq(Packet)
          /\ readDataOut'[p] \in Seq(Packet) /\ Len(readDataOut[p]) <= Depth
      BY PortStep, QueueIsBounded DEF PortInv, TypeOK
    <3>3. readIndexIn'[p] # << >>
      BY <3>1, <3>2, PortStep, TailAppend
    <3>4. Len(readDataOut'[p]) <= Len(readDataOut[p])
      BY <3>1, PortStep
    <3>5. Len(readDataOut'[p]) \in Nat /\ Len(readDataOut[p]) \in Nat /\ Depth \in Nat
      BY <3>2, LenProperties, MemoryAssumption
    <3> QED
      BY <3>1, <3>2, <3>3, <3>4, <3>5 DEF Full
  <2> QED
    BY <2>1, <2>2 DEF PortInv
<1>2. CASE UNCHANGED vars
  BY <1>2 DEF vars, PortInv, TypeOK, AnswerFits, Answering, Full, Words, Queue
<1> QED
  BY <1>1, <1>2

\* read_port: the request and the room a port has seen in STATE_0 are there in
\* STATE_1, where it uses both without looking; no buffer overflows.
THEOREM PortSafety == Spec => [](TypeOK /\ AnswerFits)
<1>1. Init => PortInv
  BY InitEstablishesPortInv
<1>2. PortInv /\ [Next]_vars => PortInv'
  BY NextPreservesPortInv
<1>3. PortInv => TypeOK /\ AnswerFits
  BY DEF PortInv
<1> QED
  BY <1>1, <1>2, <1>3, PTL DEF Spec

(***************************************************************************)
(* Refinement.  A request is served when the RAM registers its word, at    *)
(* the edge from STATE_0 to STATE_1.                                       *)
(***************************************************************************)

\* The ports that serve a request at an edge, and the write port if it writes.
Serving == {p \in ReadPorts : NextState(p) = "STATE_1"}
Writing == IF WriteEnable THEN {"wp"} ELSE {}

\* The queues the abstract memory sees.
Requests(p) == IF Answering(p) THEN Tail(readIndexIn[p]) ELSE readIndexIn[p]
Answers(p)  == IF Answering(p) THEN Append(readDataOut[p], AnswerPacket(p))
                               ELSE readDataOut[p]

\* A port that serves, one that answers and one that does neither take a step of the
\* abstract port.
LEMMA ReadStep ==
    ASSUME PortInv, NEW request \in [ReadPorts -> Links], NEW taken \in SUBSET ReadPorts,
           NEW address \in Links, NEW datum \in Links,
           Clock(request, taken, address, datum), NEW p \in ReadPorts,
           NEW serving, serving = Serving
    PROVE  Service!Read(p, serving)
<1> DEFINE left == IF p \in taken /\ readDataOut[p] # << >>
                   THEN Tail(readDataOut[p]) ELSE readDataOut[p]
<1>1. readIndexIn[p] \in Seq(Packet) /\ readDataOut[p] \in Seq(Packet)
  BY QueueIsBounded DEF PortInv, TypeOK
<1>2. CASE Answering(p)
  <2>1. p \notin serving /\ ~Answering(p)'
    BY <1>2, PortStep DEF Serving, NextState, Answering
  <2>2. AnswerPacket(p) \in Packet
    BY <1>2, AnswerType DEF PortInv, AnswerFits
  <2>3. Service!Grows(readIndexIn'[p], Tail(readIndexIn[p]))
    BY <1>2, PortStep DEF Service!Grows
  <2>4. readDataOut'[p] = Append(left, AnswerPacket(p))
    BY <1>2, PortStep
  <2>5. \/ readDataOut'[p] = Answers(p)
        \/ Answers(p) # << >> /\ readDataOut'[p] = Tail(Answers(p))
    BY <1>1, <1>2, <2>2, <2>4, TailAppend DEF Answers
  <2>6. Requests(p) = Tail(readIndexIn[p]) /\ Requests(p)' = readIndexIn'[p]
        /\ Answers(p)' = readDataOut'[p]
    BY <1>2, <2>1 DEF Requests, Answers
  <2>7. Answers(p) \o << >> = Answers(p) /\ Tail(Answers(p)) \o << >> = Tail(Answers(p))
    BY <1>1, <1>2, <2>2, ConcatEmptySeq, AppendProperties, HeadTailProperties DEF Answers
  <2> QED
    BY <2>1, <2>3, <2>5, <2>6, <2>7 DEF Service!Read, Requests, Answers
<1>3. CASE ~Answering(p)
  <2>1. Requests(p) = readIndexIn[p] /\ Answers(p) = readDataOut[p]
    BY <1>3 DEF Requests, Answers
  <2>2. readDataOut'[p] = left
    BY <1>3, PortStep
  <2>3. CASE p \in serving
    <3>1. readIndexIn[p] # << >> /\ Answering(p)'
      BY <2>3, PortStep DEF Serving, NextState, Answering
    <3>2. \/ readIndexIn'[p] = readIndexIn[p]
          \/ \E a \in Packet : readIndexIn'[p] = Append(readIndexIn[p], a)
      BY <1>3, PortStep
    <3>3. Service!Grows(Tail(readIndexIn'[p]), Tail(readIndexIn[p]))
          /\ Head(readIndexIn'[p]) = Head(readIndexIn[p])
      BY <1>1, <3>1, <3>2, TailAppend DEF Service!Grows
    <3>4. AnswerPacket(p)' \in Service!Answers(Head(readIndexIn[p]))
      <4>1. readData'[p] \in IF Location(Head(readIndexIn[p])) < Size
                             THEN {ram[Location(Head(readIndexIn[p]))]} ELSE Words
        BY <3>1, PortStep DEF RamOutput
      <4> QED
        BY <3>3, <4>1 DEF AnswerPacket, Service!Answers, Service!Index, Service!Words,
                          Location, Words
    <3>5. Requests(p)' = Tail(readIndexIn'[p])
          /\ Answers(p)' = Append(left, AnswerPacket(p)')
      BY <2>2, <3>1 DEF Requests, Answers
    <3>6. AnswerPacket(p)' \in Packet
      <4>1. Head(readIndexIn[p]) \in Packet /\ readData'[p] \in Words
        BY <1>1, <3>1, PortStep, RamOutputType, HeadTailProperties DEF PortInv
      <4> QED
        BY <3>3, <4>1, MemoryAssumption DEF AnswerPacket, Words
    <3>7. \/ Answers(p)' = readDataOut[p] \o << AnswerPacket(p)' >>
          \/ /\ readDataOut[p] # << >>
             /\ Answers(p)' = Tail(readDataOut[p]) \o << AnswerPacket(p)' >>
      BY <1>1, <3>5, <3>6, Giving, HeadTailProperties
    <3> QED
      BY <2>1, <2>3, <3>1, <3>3, <3>4, <3>5, <3>7 DEF Service!Read, Requests, Answers
  <2>4. CASE p \notin serving
    <3>1. ~Answering(p)'
      BY <2>4, PortStep DEF Serving, NextState, Answering
    <3>2. Service!Grows(readIndexIn'[p], readIndexIn[p])
      BY <1>3, PortStep DEF Service!Grows
    <3>3. Requests(p)' = readIndexIn'[p] /\ Answers(p)' = left
      BY <2>2, <3>1 DEF Requests, Answers
    <3>4. left \o << >> = left /\ (left = readDataOut[p] \/ readDataOut[p] # << >>)
      BY <1>1, ConcatEmptySeq, HeadTailProperties
    <3> QED
      BY <2>1, <2>4, <3>2, <3>3, <3>4 DEF Service!Read, Requests, Answers
  <2> QED
    BY <2>3, <2>4
<1> QED
  BY <1>2, <1>3

\* The write port writes the word at the head of one queue to the address at the head
\* of the other, and takes both.
LEMMA WritePortStep ==
    ASSUME PortInv, NEW request \in [ReadPorts -> Links], NEW taken \in SUBSET ReadPorts,
           NEW address \in Links, NEW datum \in Links,
           Clock(request, taken, address, datum), NEW writing, writing = Writing
    PROVE  Service!Write("wp", writing) /\ Service!Stored(writing)
<1>1. CASE WriteEnable
  <2>1. writing = {"wp"} /\ writeIndexIn # << >> /\ writeDataIn # << >>
    BY <1>1 DEF Writing, WriteEnable
  <2>2. /\ Service!Grows(writeIndexIn', Tail(writeIndexIn))
        /\ Service!Grows(writeDataIn', Tail(writeDataIn))
    BY <1>1, WriteStep DEF Service!Grows
  <2>3. Service!Stored(writing)
    <3>1. ram' = [a \in DOMAIN ram |-> IF a = Location(Head(writeIndexIn))
                                       THEN Head(writeDataIn).data ELSE ram[a]]
      BY <1>1 DEF Clock
    <3>2. DOMAIN ram = 0 .. Size - 1
      BY DEF PortInv, TypeOK
    <3> QED
      BY <2>1, <3>1, <3>2 DEF Service!Stored, Service!Index, Location
  <2> QED
    BY <2>1, <2>2, <2>3 DEF Service!Write
<1>2. CASE ~WriteEnable
  <2>1. writing = {} /\ ram' = ram
    BY <1>2 DEF Writing, Clock
  <2>2. Service!Grows(writeIndexIn', writeIndexIn) /\ Service!Grows(writeDataIn', writeDataIn)
    BY <1>2, WriteStep DEF Service!Grows
  <2> QED
    BY <2>1, <2>2 DEF Service!Write, Service!Stored
<1> QED
  BY <1>1, <1>2

\* The ports and the RAM are a memory that serves one request at a time per port, in
\* order, with the word of the cycle in which the RAM is read.
THEOREM PortsImplementMemory == Spec => ImplementsMemory
<1>1. Init => Service!Init
  BY DEF Init, Service!Init, Service!Words, Words, Answering
<1>2. PortInv /\ [Next]_vars => [Service!Next]_(Service!vars)
  <2> SUFFICES ASSUME PortInv, [Next]_vars PROVE [Service!Next]_(Service!vars)
    OBVIOUS
  <2>1. CASE Next
    <3> PICK request \in [ReadPorts -> Links], taken \in SUBSET ReadPorts,
             address \in Links, datum \in Links : Clock(request, taken, address, datum)
      BY <2>1 DEF Next
    <3>1. PICK serving \in SUBSET ReadPorts : serving = Serving
      BY DEF Serving
    <3>2. PICK writing \in SUBSET {"wp"} : writing = Writing
      BY DEF Writing
    <3>3. \A p \in ReadPorts : Service!Read(p, serving)
      BY <3>1, ReadStep
    <3>4. (\A w \in {"wp"} : Service!Write(w, writing)) /\ Service!Stored(writing)
      BY <3>2, WritePortStep
    <3> QED
      BY <3>3, <3>4 DEF Service!Next
  <2>2. CASE UNCHANGED vars
    BY <2>2 DEF vars, Service!vars, Answering, AnswerPacket
  <2> QED
    BY <2>1, <2>2
<1> QED
  BY <1>1, <1>2, InitEstablishesPortInv, NextPreservesPortInv, PTL
  DEF Spec, ImplementsMemory, Service!Spec
=============================================================================
