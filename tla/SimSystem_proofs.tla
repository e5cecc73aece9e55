-------------------------- MODULE SimSystem_proofs --------------------------
(***************************************************************************)
(* Proofs about SimSystem, for every built system, every program, every     *)
(* set of packets and every depth: no buffer is enqueued into when it is    *)
(* full or dequeued when it is empty, no read is outside the memory, and    *)
(* the event loop stops with all buffers empty.  If the system is wired as  *)
(* the hardware is, its links are queues and its memory keeps its promise.  *)
(***************************************************************************)
EXTENDS SimSystem, SequenceTheorems, TLAPS

\* What is in the buffers of the system that has been built.
Contained ==
    /\ scenario \in DOMAIN Scenarios
    /\ Buffers = BuffersOf(system)
    /\ \A b \in Buffers : /\ contents[b] \in Seq(Carried(system, b))
                          /\ Len(contents[b]) <= Depth(b)

\* What is staged can be committed.
Committable ==
    /\ stagedPacket \in [Buffers -> Packet \cup {NoPacket}]
    /\ stagedDequeue \in [Buffers -> BOOLEAN]
    /\ \A b \in Buffers : stagedPacket[b] # NoPacket =>
           stagedPacket[b] \in Carried(system, b) /\ Len(contents[b]) < Depth(b)
    /\ \A b \in Buffers : stagedDequeue[b] => contents[b] # << >>

WordsOf(packets) == {p.data : p \in packets}

Registered ==
    /\ haltRegister \in [Elements -> BOOLEAN]
    /\ ram \in [0 .. Size - 1 -> WordsOf(Packet)]
    /\ pendingRead \in [system.readPorts -> Packet \cup {NoPacket}]
    /\ turn \in Elements \cup {MemoryTurn, CommitTurn} /\ stopped \in BOOLEAN

SimInv == Contained /\ Committable /\ Registered /\ StopsAtRest

(***************************************************************************)
(* Queues.                                                                 *)
(***************************************************************************)

LEMMA DepthType == \A b : Depth(b) \in Nat \ {0}
  BY DepthAssumption DEF Depth

LEMMA CarriedArePackets == \A s, b : Carried(s, b) \subseteq Packet
  BY DEF Carried

\* A queue is a sequence of packets no longer than its buffer.
LEMMA BoundedIsQueue ==
    ASSUME NEW b, NEW q \in Seq(Packet), Len(q) <= Depth(b)
    PROVE  q \in Queue(b)
<1>1. q \in [1 .. Len(q) -> Packet] /\ Len(q) \in Nat
  BY LenProperties
<1>2. CASE Len(q) = 0
  BY <1>2, EmptySeq DEF Queue
<1>3. CASE Len(q) # 0
  <2>1. Len(q) \in 1 .. Depth(b)
    BY <1>1, <1>3, DepthType
  <2> QED
    BY <1>1, <2>1 DEF Queue
<1> QED
  BY <1>2, <1>3

\* The invariant gives the type invariant.
LEMMA SimInvType == SimInv => TypeOK
<1> SUFFICES ASSUME SimInv PROVE TypeOK
  OBVIOUS
<1>1. ASSUME NEW b \in Buffers PROVE contents[b] \in Queue(b)
  <2>1. contents[b] \in Seq(Carried(system, b)) /\ Len(contents[b]) <= Depth(b)
    BY <1>1 DEF SimInv, Contained
  <2>2. contents[b] \in Seq(Packet)
    BY <2>1, CarriedArePackets, SeqMonotonic
  <2> QED
    BY <2>1, <2>2, BoundedIsQueue
<1> QED
  BY <1>1 DEF SimInv, Committable, Registered, TypeOK, WordsOf

\* A buffer that is not full has room, and one that is not empty a head.
LEMMA Room ==
    ASSUME SimInv, NEW b \in Buffers
    PROVE  /\ ~Full(b) => Len(contents[b]) < Depth(b)
           /\ ~Empty(b) => /\ Head(contents[b]) \in Carried(system, b)
                           /\ Tail(contents[b]) \in Seq(Carried(system, b))
                           /\ Len(Tail(contents[b])) = Len(contents[b]) - 1
<1>1. contents[b] \in Seq(Carried(system, b)) /\ Len(contents[b]) <= Depth(b)
  BY DEF SimInv, Contained
<1>2. Len(contents[b]) \in Nat /\ Depth(b) \in Nat
  BY <1>1, DepthType, LenProperties
<1>3. ~Full(b) => Len(contents[b]) < Depth(b)
  BY <1>1, <1>2 DEF Full
<1> QED
  BY <1>1, <1>3, HeadTailProperties DEF Empty

\* What the conditions of the agents let them stage can be committed.
LEMMA StageKeepsCommittable ==
    ASSUME SimInv, NEW dequeues, NEW enqueues, Stage(dequeues, enqueues),
           \A b \in dequeues : b \in Buffers => ~Empty(b),
           \A b \in DOMAIN enqueues :
               b \in Buffers => ~Full(b) /\ enqueues[b] \in Carried(system, b),
           scenario' = scenario, contents' = contents
    PROVE  Committable'
<1>1. system' = system /\ Buffers' = Buffers
  BY DEF system, Buffers
<1>2. /\ stagedPacket \in [Buffers -> Packet \cup {NoPacket}]
      /\ stagedDequeue \in [Buffers -> BOOLEAN]
  BY DEF SimInv, Committable
<1>3. ASSUME NEW b \in Buffers
      PROVE  /\ stagedPacket'[b] = IF b \in DOMAIN enqueues THEN enqueues[b] ELSE stagedPacket[b]
             /\ stagedDequeue'[b] = (stagedDequeue[b] \/ b \in dequeues)
  BY <1>3 DEF Stage
<1>4. ASSUME NEW b \in Buffers, stagedPacket'[b] # NoPacket
      PROVE  stagedPacket'[b] \in Carried(system, b) /\ Len(contents[b]) < Depth(b)
  <2>1. CASE b \in DOMAIN enqueues
    BY <1>3, <1>4, <2>1, Room
  <2>2. CASE b \notin DOMAIN enqueues
    BY <1>3, <1>4, <2>2 DEF SimInv, Committable
  <2> QED
    BY <2>1, <2>2
<1>5. ASSUME NEW b \in Buffers, stagedDequeue'[b] PROVE contents[b] # << >>
  BY <1>3, <1>5 DEF SimInv, Committable, Empty
<1>6. \A b \in Buffers : stagedPacket'[b] \in Packet \cup {NoPacket}
  BY <1>4, CarriedArePackets
<1>7. stagedPacket' \in [Buffers -> Packet \cup {NoPacket}]
  BY <1>6 DEF Stage
<1>8. stagedDequeue' \in [Buffers -> BOOLEAN]
  BY <1>2 DEF Stage
<1>9. \A b : Carried(system, b)' = Carried(system, b) /\ Depth(b)' = Depth(b)
  BY <1>1 DEF Carried, ForAddresses, Depth
<1> QED
  BY <1>1, <1>4, <1>5, <1>7, <1>8, <1>9 DEF Committable

\* An element stages a transfer only when there is a packet and room for it.
LEMMA ElementStep ==
    ASSUME SimInv, NEW e \in Elements, IterateElement(e)
    PROVE  SimInv'
<1>1. PICK f \in Firings(e) : Iterate(e, f)
  BY DEF IterateElement
<1> DEFINE moved == Transfers(e)
           into  == {l.to : l \in moved}
           dequeues == f.dequeues \cup {l.from : l \in moved}
           enqueues == [b \in into \cup DOMAIN f.sends |->
                           IF b \in into
                           THEN Head(contents[(CHOOSE l \in moved : l.to = b).from])
                           ELSE f.sends[b]]
<1>2. /\ scenario' = scenario /\ contents' = contents /\ ram' = ram
      /\ pendingRead' = pendingRead /\ stopped' = stopped /\ ~stopped
      /\ turn' = FollowingTurn(e)
  BY DEF IterateElement
<1>3. /\ scenario \in DOMAIN Scenarios /\ Buffers = BuffersOf(system)
      /\ e \in Scenarios[scenario].system.elements /\ system = Scenarios[scenario].system
      /\ programs[e] = Scenarios[scenario].programs[e]
  BY DEF SimInv, Contained, Elements, system, programs
<1>4. /\ Nothing.dequeues = {} /\ DOMAIN Nothing.sends = {} /\ Nothing.halts = FALSE
  BY DEF Nothing
<1>5. /\ \A b \in f.dequeues : b \in Buffers /\ ~Empty(b)
      /\ \A b \in DOMAIN f.sends :
             b \in Buffers /\ ~Full(b) /\ f.sends[b] \in Carried(system, b)
      /\ f.halts \in BOOLEAN
  <2>1. CASE haltRegister[e]
    BY <1>4, <2>1 DEF Firings
  <2>2. CASE ~haltRegister[e]
    <3>1. /\ f \in programs[e] /\ \A b \in f.dequeues : ~Empty(b)
          /\ \A b \in DOMAIN f.sends : ~Full(b)
      BY <2>2 DEF Firings
    <3> QED
      BY <1>3, <3>1, ScenarioAssumption
  <2> QED
    BY <2>1, <2>2
<1>6. ASSUME NEW l \in moved
      PROVE  /\ l.from \in Buffers /\ l.to \in Buffers /\ ~Empty(l.from) /\ ~Full(l.to)
             /\ Head(contents[l.from]) \in Carried(system, l.to)
  <2>1. l \in system.links /\ ~Empty(l.from) /\ ~Full(l.to)
    BY <1>6 DEF Transfers
  <2>2. /\ l.from \in Buffers /\ l.to \in Buffers
        /\ Carried(system, l.from) \subseteq Carried(system, l.to)
    BY <1>3, <2>1, ScenarioAssumption
  <2> QED
    BY <2>1, <2>2, Room
<1>7. \A b \in dequeues : b \in Buffers => ~Empty(b)
  BY <1>5, <1>6
<1>8. ASSUME NEW b \in DOMAIN enqueues
      PROVE  ~Full(b) /\ enqueues[b] \in Carried(system, b)
  <2>1. CASE b \in into
    <3>1. PICK l \in moved : l.to = b
      BY <2>1
    <3> DEFINE k == CHOOSE k \in moved : k.to = b
    <3>2. k \in moved /\ k.to = b
      BY <3>1
    <3>3. enqueues[b] = Head(contents[k.from])
      BY <2>1
    <3> HIDE DEF k
    <3> QED
      BY <1>6, <3>2, <3>3
  <2>2. CASE b \notin into
    BY <1>5, <1>8, <2>2
  <2> QED
    BY <2>1, <2>2
<1>9. Stage(dequeues, enqueues)
  BY <1>1 DEF Iterate
<1>10. Committable'
  <2> HIDE DEF dequeues, enqueues, into, moved
  <2> QED
    BY <1>2, <1>7, <1>8, <1>9, StageKeepsCommittable
<1>11. Contained'
  BY <1>2 DEF SimInv, Contained, system, Buffers, BuffersOf, Carried, ForAddresses, Depth
<1>12. Registered'
  <2>1. haltRegister' = [haltRegister EXCEPT ![e] = haltRegister[e] \/ f.halts]
    BY <1>1 DEF Iterate
  <2>2. haltRegister' \in [Elements -> BOOLEAN]
    BY <1>5, <2>1 DEF SimInv, Registered
  <2>3. turn' \in Elements \cup {MemoryTurn, CommitTurn}
    BY <1>2 DEF FollowingTurn
  <2> QED
    BY <1>2, <2>2, <2>3 DEF SimInv, Registered, Elements, system, MemoryTurn, CommitTurn
<1>13. StopsAtRest'
  BY <1>2 DEF StopsAtRest
<1> QED
  BY <1>10, <1>11, <1>12, <1>13 DEF SimInv

\* A request that is served names a word of the memory, and its answer is a packet.
LEMMA RequestServed ==
    ASSUME SimInv, NEW p \in system.readPorts, Serves(p)
    PROVE  /\ contents[Addr("read", p)] # << >>
           /\ Head(contents[Addr("read", p)]).data \in 0 .. Size - 1
           /\ Answer(Head(contents[Addr("read", p)])) \in Packet
<1> DEFINE b == Addr("read", p)
           request == Head(contents[b])
<1>1. b \in Buffers /\ ~Empty(b) /\ b.channel = "addr"
  BY DEF Serves, Addr, SimInv, Contained, BuffersOf
<1>2. request \in Carried(system, b)
  BY <1>1, Room
<1>3. request \in Packet /\ request.data \in 0 .. Size - 1
  BY <1>1, <1>2 DEF Carried, ForAddresses
<1>4. ram[request.data] \in WordsOf(Packet)
  BY <1>3 DEF SimInv, Registered
<1>5. PICK q \in Packet : ram[request.data] = q.data
  BY <1>4 DEF WordsOf
<1> HIDE DEF request
<1>6. [tag |-> request.tag, data |-> q.data] \in Packet
  BY <1>3, PacketAssumption
<1> QED
  BY <1>1, <1>3, <1>5, <1>6 DEF Answer, request, Empty

\* The memory reads and writes within its bounds and answers when there is room.
LEMMA MemoryStep ==
    ASSUME SimInv, IterateMemory
    PROVE  SimInv'
<1> DEFINE delivering == {p \in system.readPorts : Delivers(p)}
           writing    == {w \in WritePorts : Writes(w)}
           dequeues   == {Addr("read", p) : p \in {q \in system.readPorts : Serves(q)}}
                           \cup {Addr("write", w) : w \in writing}
                           \cup {Data("write", w) : w \in writing}
           enqueues   == [b \in {Data("read", p) : p \in delivering} |-> pendingRead[b.port]]
<1>1. /\ scenario' = scenario /\ contents' = contents /\ haltRegister' = haltRegister
      /\ stopped' = stopped /\ ~stopped /\ turn' = CommitTurn
  BY DEF IterateMemory
<1>2. /\ scenario \in DOMAIN Scenarios /\ Buffers = BuffersOf(system)
      /\ system = Scenarios[scenario].system
  BY DEF SimInv, Contained, system
<1>3. /\ \A p \in system.readPorts : Addr("read", p) \in Buffers /\ Data("read", p) \in Buffers
      /\ \A w \in WritePorts : Addr("write", w) \in Buffers /\ Data("write", w) \in Buffers
  BY <1>2 DEF BuffersOf
<1>4. \A p \in system.readPorts : /\ Carried(system, Data("read", p)) = Packet
                                  /\ Data("read", p).port = p
  BY <1>2, ScenarioAssumption DEF Data
<1>5. ASSUME NEW b \in dequeues PROVE ~Empty(b)
  BY <1>5 DEF Serves, Writes
<1>6. ASSUME NEW b \in DOMAIN enqueues
      PROVE  ~Full(b) /\ enqueues[b] \in Carried(system, b)
  <2>1. PICK p \in delivering : b = Data("read", p)
    BY <1>6
  <2>2. pendingRead[p] # NoPacket /\ ~Full(b)
    BY <2>1 DEF Delivers
  <2>3. pendingRead[p] \in Packet
    BY <2>1, <2>2 DEF SimInv, Registered
  <2>4. enqueues[b] = pendingRead[p]
    BY <1>4, <1>6, <2>1
  <2> QED
    BY <1>4, <2>1, <2>2, <2>3, <2>4
<1>7. Stage(dequeues, enqueues)
  BY DEF IterateMemory
<1>8. Committable'
  <2> HIDE DEF dequeues, enqueues
  <2> QED
    BY <1>1, <1>5, <1>6, <1>7, StageKeepsCommittable
<1>9. \A p \in system.readPorts : Serves(p) => Answer(Head(contents[Addr("read", p)])) \in Packet
  BY RequestServed
<1>10. pendingRead' \in [system.readPorts -> Packet \cup {NoPacket}]
  <2>1. pendingRead' = [p \in system.readPorts |->
          IF Serves(p) THEN Answer(Head(contents[Addr("read", p)]))
          ELSE IF Delivers(p) THEN NoPacket ELSE pendingRead[p]]
    BY DEF IterateMemory
  <2>2. \A p \in system.readPorts : pendingRead[p] \in Packet \cup {NoPacket}
    BY DEF SimInv, Registered
  <2> QED
    BY <1>9, <2>1, <2>2
<1>11. ASSUME NEW a \in 0 .. Size - 1 PROVE Written(a) \in WordsOf(Packet)
  <2> DEFINE writers == {w \in WritePorts :
                            Writes(w) /\ Head(contents[Addr("write", w)]).data = a}
             last == CHOOSE w \in writers : \A v \in writers : v <= w
  <2>1. CASE writers = {}
    BY <1>11, <2>1 DEF Written, SimInv, Registered
  <2>2. CASE writers # {}
    <3>1. \A w \in writers : w = 0
      BY DEF WritePorts
    <3>2. 0 \in writers /\ \A v \in writers : v <= 0
      BY <2>2, <3>1
    <3>3. last \in writers
      BY <3>2
    <3>4. Data("write", last) \in Buffers /\ ~Empty(Data("write", last))
      BY <1>3, <3>3 DEF Writes
    <3>5. Head(contents[Data("write", last)]) \in Packet
      BY <3>4, Room, CarriedArePackets
    <3>6. Written(a) = Head(contents[Data("write", last)]).data
      BY <2>2 DEF Written
    <3> QED
      BY <3>5, <3>6 DEF WordsOf
  <2> QED
    BY <2>1, <2>2
<1>12. ram' \in [0 .. Size - 1 -> WordsOf(Packet)]
  <2>1. DOMAIN ram = 0 .. Size - 1
    BY DEF SimInv, Registered
  <2>2. ram' = [a \in DOMAIN ram |-> Written(a)]
    BY DEF IterateMemory
  <2> QED
    BY <1>11, <2>1, <2>2
<1>13. Registered'
  BY <1>1, <1>10, <1>12 DEF SimInv, Registered, Elements, system, MemoryTurn, CommitTurn
<1>14. Contained'
  BY <1>1 DEF SimInv, Contained, system, Buffers, BuffersOf, Carried, ForAddresses, Depth
<1>15. StopsAtRest'
  BY <1>1 DEF StopsAtRest
<1> QED
  BY <1>8, <1>13, <1>14, <1>15 DEF SimInv

\* No packet is dropped: what is committed to a buffer fits.
LEMMA CommittedFits ==
    ASSUME SimInv, NEW b \in Buffers
    PROVE  /\ Committed(b) \in Seq(Carried(system, b))
           /\ Len(Committed(b)) <= Depth(b)
<1> DEFINE rest == IF stagedDequeue[b] THEN Tail(contents[b]) ELSE contents[b]
<1>1. /\ contents[b] \in Seq(Carried(system, b)) /\ Len(contents[b]) \in Nat
      /\ Len(contents[b]) <= Depth(b) /\ Depth(b) \in Nat
  BY DepthType, LenProperties DEF SimInv, Contained
<1>2. rest \in Seq(Carried(system, b)) /\ Len(rest) \in Nat /\ Len(rest) <= Len(contents[b])
  <2>1. CASE stagedDequeue[b]
    BY <1>1, <2>1, HeadTailProperties, LenProperties DEF SimInv, Committable
  <2>2. CASE ~stagedDequeue[b]
    BY <1>1, <2>2
  <2> QED
    BY <2>1, <2>2
<1> HIDE DEF rest
<1>3. CASE stagedPacket[b] = NoPacket
  BY <1>1, <1>2, <1>3 DEF Committed, rest
<1>4. CASE stagedPacket[b] # NoPacket
  <2>1. stagedPacket[b] \in Carried(system, b) /\ Len(contents[b]) < Depth(b)
    BY <1>4 DEF SimInv, Committable
  <2>2. Committed(b) = Append(rest, stagedPacket[b])
    <3>1. Committed(b) = Appended(rest, b, stagedPacket[b])
      BY <1>4 DEF Committed, rest
    <3>2. Len(rest) # Depth(b)
      BY <1>1, <1>2, <2>1
    <3> QED
      BY <3>1, <3>2 DEF Appended
  <2>3. /\ Append(rest, stagedPacket[b]) \in Seq(Carried(system, b))
        /\ Len(Append(rest, stagedPacket[b])) = Len(rest) + 1
    BY <1>2, <2>1, AppendProperties
  <2> QED
    BY <1>1, <1>2, <2>1, <2>2, <2>3
<1> QED
  BY <1>3, <1>4

LEMMA CommitStep ==
    ASSUME SimInv, Commit
    PROVE  SimInv'
<1>1. /\ scenario' = scenario /\ haltRegister' = haltRegister /\ ram' = ram
      /\ pendingRead' = pendingRead /\ stopped' = Halts /\ turn' = 0
      /\ contents' = [b \in Buffers |-> Committed(b)]
      /\ stagedPacket' = [b \in Buffers |-> NoPacket]
      /\ stagedDequeue' = [b \in Buffers |-> FALSE]
  BY DEF Commit
<1>2. Buffers' = Buffers /\ system' = system
  BY <1>1 DEF Buffers, system
<1>3. \A b : Carried(system, b)' = Carried(system, b) /\ Depth(b)' = Depth(b)
  BY <1>2 DEF Carried, ForAddresses, Depth
<1>4. Contained'
  BY <1>1, <1>2, <1>3, CommittedFits DEF SimInv, Contained, BuffersOf
<1>5. Committable'
  BY <1>1, <1>2 DEF Committable
<1>6. Registered'
  <2>1. 0 \in Elements
    BY ScenarioAssumption DEF SimInv, Contained, Elements, system
  <2>2. Elements' = Elements
    BY <1>2 DEF Elements
  <2> QED
    BY <1>1, <1>2, <2>1, <2>2 DEF SimInv, Registered, Halts, MemoryTurn, CommitTurn
<1>7. StopsAtRest'
  <2> SUFFICES ASSUME Halts
               PROVE  /\ \A e \in Elements' : haltRegister'[e]
                      /\ \A b \in Buffers' : Empty(b)' /\ Pending(b)' = << >>
    BY <1>1 DEF StopsAtRest
  <2>1. \A e \in Elements' : haltRegister'[e]
    BY <1>1, <1>2 DEF Halts, Elements
  <2>2. ASSUME NEW b \in Buffers PROVE Empty(b)' /\ Pending(b)' = << >>
    <3>1. contents'[b] = << >> /\ stagedPacket'[b] = NoPacket /\ ~stagedDequeue'[b]
      BY <1>1, <2>2 DEF Halts
    <3> QED
      BY <3>1 DEF Empty, Pending, Committed
  <2> QED
    BY <1>2, <2>1, <2>2
<1> QED
  BY <1>4, <1>5, <1>6, <1>7 DEF SimInv

LEMMA SimInvInit == Init => SimInv
<1> SUFFICES ASSUME Init PROVE SimInv
  OBVIOUS
<1>1. Buffers = BuffersOf(system)
  BY DEF Init, Buffers
<1>2. Contained
  <2>1. ASSUME NEW b \in Buffers
        PROVE  contents[b] \in Seq(Carried(system, b)) /\ Len(contents[b]) <= Depth(b)
    <3>1. contents[b] = << >>
      BY <1>1, <2>1 DEF Init
    <3> QED
      BY <3>1, DepthType
  <2> QED
    BY <1>1, <2>1 DEF Init, Contained
<1>3. Committable
  BY DEF Init, Committable
<1>4. Registered
  <2>1. 0 \in Elements
    BY ScenarioAssumption DEF Init, Elements, system
  <2> QED
    BY <2>1 DEF Init, Registered, WordsOf
<1>5. StopsAtRest
  BY DEF Init, StopsAtRest
<1> QED
  BY <1>2, <1>3, <1>4, <1>5 DEF SimInv

LEMMA StepKeepsSimInv == SimInv /\ [Next]_vars => SimInv'
<1> SUFFICES ASSUME SimInv, [Next]_vars PROVE SimInv'
  OBVIOUS
<1>1. CASE \E e \in Elements : IterateElement(e)
  BY <1>1, ElementStep
<1>2. CASE IterateMemory
  BY <1>2, MemoryStep
<1>3. CASE Commit
  BY <1>3, CommitStep
<1>4. CASE UNCHANGED vars
  BY <1>4 DEF vars, staging, SimInv, Contained, Committable, Registered, StopsAtRest, Pending,
     Committed, Appended, Empty, Elements, system, Buffers, BuffersOf, Carried, ForAddresses,
     Depth, MemoryTurn, CommitTurn
<1> QED
  BY <1>1, <1>2, <1>3, <1>4 DEF Next

\* System.iterate, in whatever order the elements and the memory come, and whatever
\* their programs do, keeps every buffer within its bounds: nothing is enqueued into
\* a full one, nothing dequeued from an empty one, nothing dropped by a commit.  And
\* System.halt is reported with all cores halted and all buffers empty.
THEOREM SimulationSafety == Spec => [](TypeOK /\ StopsAtRest)
<1>1. SimInv => TypeOK /\ StopsAtRest
  BY SimInvType DEF SimInv
<1> QED
  BY <1>1, SimInvInit, StepKeepsSimInv, PTL DEF Spec

(***************************************************************************)
(* Staging.  Each link moves at most one packet in a cycle, however often   *)
(* the routers at its ends stage the move; what a core sends goes to buffers *)
(* into which nothing has been staged before; the memory takes what no one  *)
(* has taken.                                                              *)
(***************************************************************************)

Staged ==
    /\ \A l \in system.wires :
           /\ stagedDequeue[l.from] <=> stagedPacket[l.to] # NoPacket
           /\ stagedDequeue[l.from] => stagedPacket[l.to] = Head(contents[l.from])
    /\ \A e \in Elements, d \in Directions :
           turn \in Elements /\ turn <= e => stagedPacket[Out(e, d)] = NoPacket
    /\ turn # CommitTurn =>
           /\ \A p \in system.readPorts : /\ stagedPacket[Data("read", p)] = NoPacket
                                          /\ ~stagedDequeue[Addr("read", p)]
           /\ \A w \in WritePorts : ~stagedDequeue[Addr("write", w)] /\ ~stagedDequeue[Data("write", w)]

LEMMA Names ==
    \A e, d, kind, p : /\ In(e, d).channel = "in" /\ Out(e, d).channel = "out"
                       /\ Out(e, d).element = e
                       /\ Addr(kind, p).channel = "addr" /\ Data(kind, p).channel = "data"
                       /\ Data(kind, p).kind = kind /\ Data(kind, p).port = p
                       /\ Addr(kind, p).kind = kind /\ Addr(kind, p).port = p
  BY DEF In, Out, Addr, Data

\* A buffer that links lead from is none that they lead to.
LEMMA SendersDoNotReceive ==
    ASSUME NEW s, NEW b \in Senders(s)
    PROVE  /\ b \notin Receivers(s)
           /\ \A e, d : b # In(e, d)
           /\ \A kind, p : b # Addr(kind, p)
           /\ \A w : b # Data("write", w)
<1>1. \/ b.channel = "out"
      \/ b.channel = "data" /\ b.kind = "read"
  <2>1. CASE \E e \in s.elements, d \in Directions : b = Out(e, d)
    BY <2>1, Names
  <2>2. CASE \E p \in s.readPorts : b = Data("read", p)
    BY <2>2, Names
  <2> QED
    BY <2>1, <2>2 DEF Senders
<1>2. \A e, d, kind, p : b # In(e, d) /\ b # Addr(kind, p) /\ b # Data("write", p)
  BY <1>1, Names
<1> QED
  BY <1>2 DEF Receivers

LEMMA ReceiversDoNotSend ==
    ASSUME NEW s, NEW b \in Receivers(s)
    PROVE  /\ \A e, d : b # Out(e, d)
           /\ \A p : b # Data("read", p)
<1>1. \/ b.channel \in {"in", "addr"}
      \/ b.channel = "data" /\ b.kind = "write"
  <2>1. CASE \E e \in s.elements, d \in Directions : b = In(e, d)
    BY <2>1, Names
  <2>2. CASE \E p \in s.readPorts : b = Addr("read", p)
    BY <2>2, Names
  <2>3. CASE \E w \in WritePorts : b = Addr("write", w) \/ b = Data("write", w)
    BY <2>3, Names
  <2> QED
    BY <2>1, <2>2, <2>3 DEF Receivers
<1> QED
  BY <1>1, Names

\* The wires of the system that has been built.
LEMMA Wires ==
    ASSUME SimInv
    PROVE  /\ Elements \subseteq Nat /\ Elements = system.elements
           /\ system.readPorts \subseteq ReadPorts /\ Size \in Nat
           /\ \A l \in system.links : [from |-> l.from, to |-> l.to] \in system.wires
           /\ \A l \in system.wires : \E m \in system.links : m.from = l.from /\ m.to = l.to
           /\ \A l \in system.links \cup system.wires :
                  /\ l.from \in Senders(system) /\ l.to \in Receivers(system)
                  /\ l.from \in Buffers /\ l.to \in Buffers
<1>1. scenario \in DOMAIN Scenarios /\ system = Scenarios[scenario].system
      /\ Buffers = BuffersOf(system)
  BY DEF SimInv, Contained, system
<1>2. /\ system.elements \subseteq Nat /\ system.readPorts \subseteq ReadPorts /\ Size \in Nat
      /\ \A l \in system.links : l.from \in Senders(system) /\ l.to \in Receivers(system)
      /\ system.wires = {[from |-> l.from, to |-> l.to] : l \in system.links}
  BY <1>1, WiringAssumption
<1>3. \A l \in system.links : l.from \in Buffers /\ l.to \in Buffers
  BY <1>1, ScenarioAssumption
<1>4. \A l \in system.wires : \E m \in system.links : m.from = l.from /\ m.to = l.to
  BY <1>2
<1> QED
  BY <1>2, <1>3, <1>4 DEF Elements

\* What an iteration of an element stages: its router's moves, and what its core
\* takes from its own inputs and sends to its own outputs.
LEMMA ElementStages ==
    ASSUME SimInv, NEW e \in Elements, NEW f \in Firings(e), Iterate(e, f)
    PROVE  /\ \A b \in Buffers :
                  stagedDequeue'[b] = (stagedDequeue[b] \/ b \in f.dequeues
                                         \/ \E l \in Transfers(e) : l.from = b)
           /\ \A b \in Buffers :
                  \/ \E l \in Transfers(e) : l.to = b /\ stagedPacket'[b] = Head(contents[l.from])
                  \/ /\ \A l \in Transfers(e) : l.to # b
                     /\ stagedPacket'[b] = IF b \in DOMAIN f.sends THEN f.sends[b] ELSE stagedPacket[b]
           /\ \A b \in f.dequeues : b \in {In(e, d) : d \in Directions} /\ ~Empty(b)
           /\ \A b \in DOMAIN f.sends : /\ b \in {Out(e, d) : d \in Directions}
                                        /\ ~Full(b) /\ f.sends[b] \in Packet
<1> DEFINE moved == Transfers(e)
           into  == {l.to : l \in moved}
           dequeues == f.dequeues \cup {l.from : l \in moved}
           enqueues == [b \in into \cup DOMAIN f.sends |->
                           IF b \in into
                           THEN Head(contents[(CHOOSE l \in moved : l.to = b).from])
                           ELSE f.sends[b]]
<1>1. Stage(dequeues, enqueues)
  BY DEF Iterate
<1>2. ASSUME NEW b \in Buffers
      PROVE  stagedDequeue'[b] = (stagedDequeue[b] \/ b \in f.dequeues \/ \E l \in moved : l.from = b)
  <2>1. stagedDequeue'[b] = (stagedDequeue[b] \/ b \in dequeues)
    BY <1>1 DEF Stage
  <2> QED
    BY <2>1
<1>3. ASSUME NEW b \in Buffers
      PROVE  \/ \E l \in moved : l.to = b /\ stagedPacket'[b] = Head(contents[l.from])
             \/ /\ \A l \in moved : l.to # b
                /\ stagedPacket'[b] = IF b \in DOMAIN f.sends THEN f.sends[b] ELSE stagedPacket[b]
  <2>1. stagedPacket'[b] = IF b \in DOMAIN enqueues THEN enqueues[b] ELSE stagedPacket[b]
    <3> HIDE DEF enqueues, dequeues
    <3> QED
      BY <1>1 DEF Stage
  <2>2. CASE b \in into
    <3> DEFINE k == CHOOSE k \in moved : k.to = b
    <3>1. k \in moved /\ k.to = b
      BY <2>2
    <3>2. stagedPacket'[b] = Head(contents[k.from])
      BY <2>1, <2>2
    <3> HIDE DEF k
    <3> QED
      BY <3>1, <3>2
  <2>3. CASE b \notin into
    <3>1. \A l \in moved : l.to # b
      BY <2>3
    <3>2. stagedPacket'[b] = IF b \in DOMAIN f.sends THEN f.sends[b] ELSE stagedPacket[b]
      BY <2>1, <2>3
    <3> QED
      BY <3>1, <3>2
  <2> QED
    BY <2>2, <2>3
<1>4. /\ scenario \in DOMAIN Scenarios /\ e \in Scenarios[scenario].system.elements
      /\ programs[e] = Scenarios[scenario].programs[e] /\ system = Scenarios[scenario].system
  BY DEF SimInv, Contained, Elements, system, programs
<1>5. /\ \A b \in f.dequeues : b \in {In(e, d) : d \in Directions} /\ ~Empty(b)
      /\ \A b \in DOMAIN f.sends : /\ b \in {Out(e, d) : d \in Directions}
                                   /\ ~Full(b) /\ f.sends[b] \in Packet
  <2>1. CASE haltRegister[e]
    BY <2>1 DEF Firings, Nothing
  <2>2. CASE ~haltRegister[e]
    <3>1. /\ f \in Scenarios[scenario].programs[e] /\ \A b \in f.dequeues : ~Empty(b)
          /\ \A b \in DOMAIN f.sends : ~Full(b)
      BY <1>4, <2>2 DEF Firings
    <3>2. /\ f.dequeues \subseteq {In(e, d) : d \in Directions}
          /\ DOMAIN f.sends \subseteq {Out(e, d) : d \in Directions}
      BY <1>4, <3>1, WiringAssumption
    <3>3. \A b \in DOMAIN f.sends : f.sends[b] \in Carried(Scenarios[scenario].system, b)
      BY <1>4, <3>1, ScenarioAssumption
    <3> QED
      BY <3>1, <3>2, <3>3, CarriedArePackets
  <2> QED
    BY <2>1, <2>2
<1> QED
  BY <1>2, <1>3, <1>5

LEMMA LinkEndsAreBuffers ==
    ASSUME SimInv
    PROVE  Senders(system) \subseteq Buffers /\ Receivers(system) \subseteq Buffers
<1>1. Buffers = BuffersOf(system)
  BY DEF SimInv, Contained
<1> QED
  BY <1>1 DEF BuffersOf, ChannelsOf, Senders, Receivers

\* No buffer is the end of two wires.
Exclusive == \A k, l \in system.wires : k.from = l.from \/ k.to = l.to => k = l

LEMMA WiredIsExclusive == WiredLikeHardware => Exclusive
  BY DEF WiredLikeHardware, AlikeScenarios, WiredAlike, Exclusive, system

LEMMA SameWire ==
    ASSUME SimInv, Exclusive, NEW l \in system.wires, NEW m \in system.links
    PROVE  m.from = l.from <=> m.to = l.to
<1> DEFINE k == [from |-> m.from, to |-> m.to]
<1>1. k \in system.wires /\ k.from = m.from /\ k.to = m.to
  BY Wires
<1> HIDE DEF k
<1> QED
  BY <1>1 DEF Exclusive

\* Only the memory and the cores take from the buffers links lead to, and only they put
\* anything into those links lead from.
LEMMA ElementAtEnds ==
    ASSUME SimInv, NEW e \in Elements, NEW f \in Firings(e), Iterate(e, f)
    PROVE  /\ \A b \in Receivers(system) :
                  stagedDequeue'[b] = (stagedDequeue[b] \/ b \in f.dequeues)
           /\ \A b \in Senders(system) :
                  stagedPacket'[b] = IF b \in DOMAIN f.sends THEN f.sends[b] ELSE stagedPacket[b]
<1>1. \A l \in Transfers(e) : l.from \in Senders(system) /\ l.to \in Receivers(system)
  BY Wires DEF Transfers
<1>2. ASSUME NEW b \in Receivers(system)
      PROVE  stagedDequeue'[b] = (stagedDequeue[b] \/ b \in f.dequeues)
  <2>1. b \in Buffers /\ \A l \in Transfers(e) : l.from # b
    BY <1>1, LinkEndsAreBuffers, SendersDoNotReceive
  <2> QED
    BY <2>1, ElementStages
<1>3. ASSUME NEW b \in Senders(system)
      PROVE  stagedPacket'[b] = IF b \in DOMAIN f.sends THEN f.sends[b] ELSE stagedPacket[b]
  <2>1. b \in Buffers /\ \A l \in Transfers(e) : l.to # b
    BY <1>1, LinkEndsAreBuffers, SendersDoNotReceive
  <2> QED
    BY <2>1, ElementStages
<1> QED
  BY <1>2, <1>3

\* A wire moves the packet at its head or nothing.
LEMMA ElementOnWire ==
    ASSUME SimInv, Exclusive, NEW e \in Elements, NEW f \in Firings(e), Iterate(e, f),
           NEW l \in system.wires
    PROVE  \/ /\ stagedDequeue'[l.from] = TRUE /\ ~Empty(l.from)
              /\ stagedPacket'[l.to] = Head(contents[l.from])
           \/ /\ stagedDequeue'[l.from] = stagedDequeue[l.from]
              /\ stagedPacket'[l.to] = stagedPacket[l.to]
<1>1. /\ l.from \in Senders(system) /\ l.to \in Receivers(system)
      /\ l.from \in Buffers /\ l.to \in Buffers
  BY Wires
<1>2. \A m \in Transfers(e) : (m.from = l.from <=> m.to = l.to) /\ ~Empty(m.from)
  BY SameWire DEF Transfers
<1>3. l.from \notin f.dequeues
  BY <1>1, ElementStages, SendersDoNotReceive
<1>4. l.to \notin DOMAIN f.sends
  BY <1>1, ElementStages, ReceiversDoNotSend
<1>5. CASE \E m \in Transfers(e) : m.from = l.from
  <2>1. stagedDequeue'[l.from] = TRUE
    BY <1>1, <1>5, ElementStages
  <2>2. PICK k \in Transfers(e) : k.to = l.to /\ stagedPacket'[l.to] = Head(contents[k.from])
    BY <1>1, <1>2, <1>5, ElementStages
  <2> QED
    BY <1>2, <2>1, <2>2
<1>6. CASE ~ \E m \in Transfers(e) : m.from = l.from
  <2>1. stagedDequeue'[l.from] = (stagedDequeue[l.from] \/ FALSE)
    BY <1>1, <1>3, <1>6, ElementStages
  <2>2. stagedDequeue[l.from] \in BOOLEAN
    BY <1>1 DEF SimInv, Committable
  <2>3. stagedPacket'[l.to] = stagedPacket[l.to]
    BY <1>1, <1>2, <1>4, <1>6, ElementStages
  <2> QED
    BY <2>1, <2>2, <2>3
<1> QED
  BY <1>5, <1>6

LEMMA StagedByElement ==
    ASSUME SimInv, Exclusive, Staged, NEW e \in Elements, IterateElement(e)
    PROVE  Staged'
<1>1. PICK f \in Firings(e) : Iterate(e, f)
  BY DEF IterateElement
<1>2. /\ contents' = contents /\ turn = e /\ turn' = FollowingTurn(e)
      /\ system' = system /\ Elements' = Elements
  BY DEF IterateElement, system, Elements
<1>3. Elements \subseteq Nat /\ e \in Nat
  BY Wires
<1>4. turn # CommitTurn /\ turn \in Elements
  BY <1>2, <1>3 DEF CommitTurn
<1>5. ASSUME NEW l \in system.wires
      PROVE  /\ stagedDequeue'[l.from] <=> stagedPacket'[l.to] # NoPacket
             /\ stagedDequeue'[l.from] => stagedPacket'[l.to] = Head(contents[l.from])
  <2>1. l.from \in Buffers
    BY Wires
  <2>2. ~Empty(l.from) => Head(contents[l.from]) # NoPacket
    BY <2>1, Room, CarriedArePackets, PacketAssumption
  <2>3. /\ stagedDequeue[l.from] <=> stagedPacket[l.to] # NoPacket
        /\ stagedDequeue[l.from] => stagedPacket[l.to] = Head(contents[l.from])
    BY DEF Staged
  <2> QED
    BY <1>1, <2>2, <2>3, ElementOnWire
<1>6. ASSUME NEW g \in Elements, NEW d \in Directions, turn' \in Elements, turn' <= g
      PROVE  stagedPacket'[Out(g, d)] = NoPacket
  <2>1. turn' = e + 1
    BY <1>2, <1>3, <1>6 DEF FollowingTurn, MemoryTurn
  <2>2. g \in Nat /\ turn <= g /\ g # e
    BY <1>2, <1>3, <1>6, <2>1
  <2>3. Out(g, d) \in Senders(system)
    BY DEF Senders, Elements
  <2>4. stagedPacket[Out(g, d)] = NoPacket
    BY <1>4, <2>2 DEF Staged
  <2>5. Out(g, d) \notin DOMAIN f.sends
    BY <1>1, <2>2, Names, ElementStages
  <2> QED
    BY <1>1, <2>3, <2>4, <2>5, ElementAtEnds
<1>7. ASSUME NEW p \in system.readPorts
      PROVE  stagedPacket'[Data("read", p)] = NoPacket /\ ~stagedDequeue'[Addr("read", p)]
  <2>1. Data("read", p) \in Senders(system) /\ Addr("read", p) \in Receivers(system)
    BY DEF Senders, Receivers
  <2>2. stagedPacket[Data("read", p)] = NoPacket /\ ~stagedDequeue[Addr("read", p)]
    BY <1>4 DEF Staged
  <2>3. Data("read", p) \notin DOMAIN f.sends /\ Addr("read", p) \notin f.dequeues
    BY <1>1, Names, ElementStages
  <2> QED
    BY <1>1, <2>1, <2>2, <2>3, ElementAtEnds
<1>8. ASSUME NEW w \in WritePorts
      PROVE  ~stagedDequeue'[Addr("write", w)] /\ ~stagedDequeue'[Data("write", w)]
  <2>1. Addr("write", w) \in Receivers(system) /\ Data("write", w) \in Receivers(system)
    BY DEF Receivers
  <2>2. ~stagedDequeue[Addr("write", w)] /\ ~stagedDequeue[Data("write", w)]
    BY <1>4 DEF Staged
  <2>3. Addr("write", w) \notin f.dequeues /\ Data("write", w) \notin f.dequeues
    BY <1>1, Names, ElementStages
  <2> QED
    BY <1>1, <2>1, <2>2, <2>3, ElementAtEnds
<1> QED
  BY <1>2, <1>5, <1>6, <1>7, <1>8 DEF Staged

(***************************************************************************)
(* Each wire is a queue.  What is staged on it by the routers cannot be     *)
(* seen: what a wire holds depends on what its buffers held when the cycle  *)
(* began, what has been taken at one end and what put in at the other.      *)
(***************************************************************************)

\* What a buffer keeps of its contents, and what is added to them.
Left(b)   == IF stagedDequeue[b] THEN Tail(contents[b]) ELSE contents[b]
Coming(b) == IF stagedPacket[b] = NoPacket THEN << >> ELSE << stagedPacket[b] >>

LEMMA BufferType ==
    SimInv => \A b \in Buffers :
        /\ contents[b] \in Seq(Packet) /\ Left(b) \in Seq(Packet) /\ Coming(b) \in Seq(Packet)
        /\ Len(Left(b)) <= Len(contents[b]) /\ Len(contents[b]) <= Depth(b)
        /\ Committed(b) = Left(b) \o Coming(b)
<1> SUFFICES ASSUME SimInv, NEW b \in Buffers
    PROVE  /\ contents[b] \in Seq(Packet) /\ Left(b) \in Seq(Packet) /\ Coming(b) \in Seq(Packet)
           /\ Len(Left(b)) <= Len(contents[b]) /\ Len(contents[b]) <= Depth(b)
           /\ Committed(b) = Left(b) \o Coming(b)
  OBVIOUS
<1>1. contents[b] \in Seq(Packet) /\ Len(contents[b]) <= Depth(b)
  <2>1. contents[b] \in Seq(Carried(system, b)) /\ Len(contents[b]) <= Depth(b)
    BY DEF SimInv, Contained
  <2> QED
    BY <2>1, CarriedArePackets, SeqMonotonic
<1>2. Len(contents[b]) \in Nat /\ Depth(b) \in Nat
  BY <1>1, LenProperties, DepthType
<1>3. Left(b) \in Seq(Packet) /\ Len(Left(b)) \in Nat /\ Len(Left(b)) <= Len(contents[b])
  <2>1. CASE stagedDequeue[b]
    <3>1. contents[b] # << >>
      BY <2>1 DEF SimInv, Committable
    <3>2. Tail(contents[b]) \in Seq(Packet) /\ Len(Tail(contents[b])) = Len(contents[b]) - 1
      BY <1>1, <3>1, HeadTailProperties
    <3>3. Len(Tail(contents[b])) \in Nat
      BY <3>2, LenProperties
    <3> QED
      BY <1>2, <2>1, <3>2, <3>3 DEF Left
  <2>2. CASE ~stagedDequeue[b]
    BY <1>1, <1>2, <2>2 DEF Left
  <2> QED
    BY <2>1, <2>2
<1>4. stagedPacket[b] # NoPacket => stagedPacket[b] \in Packet /\ Len(contents[b]) < Depth(b)
  BY DEF SimInv, Committable
<1>5. Coming(b) \in Seq(Packet)
  BY <1>4 DEF Coming
<1>6. Committed(b) = Left(b) \o Coming(b)
  <2>1. CASE stagedPacket[b] = NoPacket
    BY <1>3, <2>1, ConcatEmptySeq DEF Committed, Left, Coming
  <2>2. CASE stagedPacket[b] # NoPacket
    <3>1. Committed(b) = Appended(Left(b), b, stagedPacket[b])
      BY <2>2 DEF Committed, Left
    <3>2. Len(Left(b)) # Depth(b)
      BY <1>2, <1>3, <1>4, <2>2
    <3>3. Append(Left(b), stagedPacket[b]) = Left(b) \o << stagedPacket[b] >>
      BY <1>3, <1>4, <2>2, AppendIsConcat
    <3> QED
      BY <2>2, <3>1, <3>2, <3>3 DEF Appended, Coming
  <2> QED
    BY <2>1, <2>2
<1> QED
  BY <1>1, <1>3, <1>5, <1>6

\* What a concatenation is, with three names for three sequences.
LEMMA Concatenated ==
    ASSUME NEW a \in Seq(Packet), NEW b \in Seq(Packet), NEW u, u = a \o b
    PROVE  /\ u \in Seq(Packet) /\ Len(u) = Len(a) + Len(b)
           /\ \A i \in 1 .. Len(a) + Len(b) : u[i] = IF i <= Len(a) THEN a[i] ELSE b[i - Len(a)]
  BY ConcatProperties

\* Concatenation as an operator of its own, so that equations about it are no more
\* than that.
Cat(a, b) == a \o b

LEMMA CatAssociative ==
    ASSUME NEW a \in Seq(Packet), NEW b \in Seq(Packet), NEW c \in Seq(Packet)
    PROVE  Cat(Cat(a, b), c) = Cat(a, Cat(b, c)) /\ Cat(a, b) \in Seq(Packet)
<1>1. (a \o b) \o c = a \o (b \o c)
  BY ConcatAssociative, SMTT(60)
<1>2. a \o b \in Seq(Packet)
  BY Concatenated
<1> QED
  BY <1>1, <1>2 DEF Cat

LEMMA Regrouped ==
    ASSUME NEW a \in Seq(Packet), NEW b \in Seq(Packet),
           NEW c \in Seq(Packet), NEW d \in Seq(Packet)
    PROVE  Cat(Cat(a, b), Cat(c, d)) = Cat(Cat(a, Cat(b, c)), d)
<1>1. Cat(c, d) \in Seq(Packet) /\ Cat(b, c) \in Seq(Packet)
  BY CatAssociative
<1>2. Cat(Cat(a, b), Cat(c, d)) = Cat(a, Cat(b, Cat(c, d)))
  BY <1>1, CatAssociative
<1>3. Cat(b, Cat(c, d)) = Cat(Cat(b, c), d)
  BY CatAssociative
<1>4. Cat(a, Cat(Cat(b, c), d)) = Cat(Cat(a, Cat(b, c)), d)
  BY <1>1, CatAssociative
<1> QED
  BY <1>2, <1>3, <1>4

\* A sequence is its head and its tail; the tail of a concatenation.
LEMMA HeadAndTail ==
    ASSUME NEW s \in Seq(Packet), s # << >>
    PROVE  << Head(s) >> \in Seq(Packet) /\ << Head(s) >> \o Tail(s) = s
<1>1. /\ Head(s) \in Packet /\ Tail(s) \in Seq(Packet) /\ Len(Tail(s)) = Len(s) - 1
      /\ \A i \in 1 .. Len(Tail(s)) : Tail(s)[i] = s[i + 1]
  BY HeadTailProperties
<1>2. Len(s) \in Nat \ {0}
  BY EmptySeq, LenProperties
<1>3. << Head(s) >> \in Seq(Packet) /\ Len(<< Head(s) >>) = 1 /\ << Head(s) >>[1] = s[1]
  BY <1>1, <1>2
<1>4. PICK h \in Seq(Packet), t \in Seq(Packet) :
          /\ h = << Head(s) >> /\ Len(h) = 1 /\ h[1] = s[1]
          /\ t = Tail(s) /\ Len(t) = Len(s) - 1 /\ \A i \in 1 .. Len(t) : t[i] = s[i + 1]
  BY <1>1, <1>3
<1> PICK u : u = h \o t
  OBVIOUS
<1>5. /\ u = h \o t /\ u \in Seq(Packet) /\ Len(u) = Len(h) + Len(t)
      /\ \A i \in 1 .. Len(h) + Len(t) : u[i] = IF i <= Len(h) THEN h[i] ELSE t[i - Len(h)]
  BY Concatenated
<1>6. Len(u) = Len(s)
  BY <1>2, <1>4, <1>5
<1>7. ASSUME NEW i \in 1 .. Len(s) PROVE u[i] = s[i]
  <2>1. i \in Nat /\ i \in 1 .. Len(h) + Len(t)
    BY <1>2, <1>4
  <2>2. CASE i = 1
    BY <1>4, <1>5, <2>1, <2>2
  <2>3. CASE i # 1
    <3>1. i - 1 \in 1 .. Len(t) /\ ~(i <= Len(h)) /\ (i - 1) + 1 = i
      BY <1>2, <1>4, <2>1, <2>3
    <3>2. u[i] = t[i - 1]
      BY <1>4, <1>5, <2>1, <3>1
    <3> QED
      BY <1>4, <3>1, <3>2
  <2> QED
    BY <2>2, <2>3
<1>8. u = s
  BY <1>5, <1>6, <1>7, SeqEqual
<1> QED
  BY <1>3, <1>4, <1>5, <1>8

LEMMA TailConcat ==
    ASSUME NEW s \in Seq(Packet), NEW t \in Seq(Packet), s # << >>
    PROVE  /\ s \o t # << >> /\ Head(s \o t) = Head(s) /\ Tail(s \o t) = Tail(s) \o t
<1>1. /\ Tail(s) \in Seq(Packet) /\ Len(Tail(s)) = Len(s) - 1
      /\ \A i \in 1 .. Len(Tail(s)) : Tail(s)[i] = s[i + 1]
  BY HeadTailProperties
<1>2. Len(s) \in Nat \ {0} /\ Len(t) \in Nat
  BY EmptySeq, LenProperties
<1> DEFINE u == s \o t
           v == Tail(s) \o t
<1>3. /\ u \in Seq(Packet) /\ Len(u) = Len(s) + Len(t)
      /\ \A i \in 1 .. Len(s) + Len(t) : u[i] = IF i <= Len(s) THEN s[i] ELSE t[i - Len(s)]
  BY ConcatProperties
<1>4. /\ v \in Seq(Packet) /\ Len(v) = Len(Tail(s)) + Len(t)
      /\ \A i \in 1 .. Len(Tail(s)) + Len(t) :
             v[i] = IF i <= Len(Tail(s)) THEN Tail(s)[i] ELSE t[i - Len(Tail(s))]
  BY <1>1, ConcatProperties
<1> HIDE DEF u, v
<1>5. u # << >>
  BY <1>2, <1>3
<1>6. /\ Tail(u) \in Seq(Packet) /\ Len(Tail(u)) = Len(u) - 1
      /\ \A i \in 1 .. Len(Tail(u)) : Tail(u)[i] = u[i + 1]
  BY <1>3, <1>5, HeadTailProperties
<1>7. Len(Tail(u)) = Len(v)
  BY <1>1, <1>2, <1>3, <1>4, <1>6
<1>8. ASSUME NEW i \in 1 .. Len(Tail(u)) PROVE Tail(u)[i] = v[i]
  <2>1. i \in Nat /\ i + 1 \in 1 .. Len(s) + Len(t) /\ i \in 1 .. Len(Tail(s)) + Len(t)
    BY <1>1, <1>2, <1>3, <1>6, <1>8
  <2>2. CASE i <= Len(Tail(s))
    BY <1>1, <1>2, <1>3, <1>4, <1>6, <2>1, <2>2
  <2>3. CASE ~(i <= Len(Tail(s)))
    <3>1. i + 1 - Len(s) = i - Len(Tail(s)) /\ ~(i + 1 <= Len(s))
      BY <1>1, <1>2, <2>1, <2>3
    <3>2. u[i + 1] = t[i + 1 - Len(s)]
      BY <1>3, <2>1, <3>1
    <3>3. v[i] = t[i - Len(Tail(s))]
      BY <1>4, <2>1, <2>3
    <3>4. Tail(u)[i] = u[i + 1]
      BY <1>6, <1>8
    <3> QED
      BY <3>1, <3>2, <3>3, <3>4
  <2> QED
    BY <2>2, <2>3
<1>9. Tail(u) = v
  BY <1>4, <1>6, <1>7, <1>8, SeqEqual
<1>10. Head(u) = Head(s)
  <2>1. u[1] = s[1]
    BY <1>2, <1>3
  <2> QED
    BY <1>2, <1>3, <1>5, <2>1
<1> QED
  BY <1>5, <1>9, <1>10 DEF u, v

\* The front and the back of three sequences in a row.
LEMMA Front ==
    ASSUME NEW a \in Seq(Packet), NEW c \in Seq(Packet), NEW m \in Seq(Packet), a # << >>
    PROVE  (a \o c) \o m # << >> /\ Tail((a \o c) \o m) = (Tail(a) \o c) \o m
<1>1. PICK s \in Seq(Packet) : s = a \o c
  BY Concatenated
<1>2. s # << >> /\ Tail(s) = Tail(a) \o c
  BY <1>1, TailConcat
<1>3. s \o m # << >> /\ Tail(s \o m) = Tail(s) \o m
  BY <1>2, TailConcat
<1> QED
  BY <1>1, <1>2, <1>3

LEMMA Back ==
    ASSUME NEW a \in Seq(Packet), NEW c \in Seq(Packet), NEW p \in Packet
    PROVE  /\ Len((a \o c) \o << >>) = Len(a) + Len(c)
           /\ (a \o c) \o << p >> = Append((a \o c) \o << >>, p)
<1>1. PICK s \in Seq(Packet) : s = a \o c
  BY Concatenated
<1>2. Len(s) = Len(a) + Len(c)
  BY <1>1, Concatenated
<1>3. s \o << >> = s
  BY ConcatEmptySeq
<1>4. Append(s, p) = s \o << p >>
  BY AppendIsConcat
<1> QED
  BY <1>1, <1>2, <1>3, <1>4

LEMMA TrafficIs ==
    SimInv /\ Staged =>
        \A l \in system.wires :
            Traffic(l) = (Left(l.to) \o contents[l.from]) \o Coming(l.from)
<1> SUFFICES ASSUME SimInv, Staged, NEW l \in system.wires
             PROVE  Traffic(l) = (Left(l.to) \o contents[l.from]) \o Coming(l.from)
  OBVIOUS
<1>1. l.from \in Buffers /\ l.to \in Buffers
  BY Wires
<1>2. /\ contents[l.from] \in Seq(Packet) /\ Left(l.to) \in Seq(Packet)
      /\ Left(l.from) \in Seq(Packet) /\ Coming(l.from) \in Seq(Packet)
      /\ Traffic(l) = (Left(l.to) \o Coming(l.to)) \o (Left(l.from) \o Coming(l.from))
  BY <1>1, BufferType DEF Traffic, Pending
<1>3. Coming(l.to) \in Seq(Packet) /\ Coming(l.to) \o Left(l.from) = contents[l.from]
  <2>1. CASE stagedDequeue[l.from]
    <3>1. stagedPacket[l.to] = Head(contents[l.from]) /\ stagedPacket[l.to] # NoPacket
      BY <2>1 DEF Staged
    <3>2. contents[l.from] # << >>
      BY <1>1, <2>1 DEF SimInv, Committable
    <3> QED
      BY <1>2, <2>1, <3>1, <3>2, HeadAndTail DEF Coming, Left
  <2>2. CASE ~stagedDequeue[l.from]
    <3>1. Coming(l.to) = << >> /\ Left(l.from) = contents[l.from]
      BY <2>2 DEF Staged, Coming, Left
    <3>2. PICK s \in Seq(Packet) : s = contents[l.from]
      BY <1>2
    <3>3. << >> \o s = s /\ << >> \in Seq(Packet)
      BY ConcatEmptySeq
    <3> QED
      BY <3>1, <3>2, <3>3
  <2> QED
    BY <2>1, <2>2
<1>4. PICK a \in Seq(Packet), b \in Seq(Packet), c \in Seq(Packet), d \in Seq(Packet) :
          /\ a = Left(l.to) /\ b = Coming(l.to)
          /\ c = Left(l.from) /\ d = Coming(l.from)
  BY <1>2, <1>3
<1>5. Cat(Cat(a, b), Cat(c, d)) = Cat(Cat(a, Cat(b, c)), d)
  BY Regrouped
<1> QED
  BY <1>2, <1>3, <1>4, <1>5 DEF Cat

LEMMA TrafficIsNext ==
    (SimInv /\ Staged =>
        \A l \in system.wires :
            Traffic(l) = (Left(l.to) \o contents[l.from]) \o Coming(l.from))'
  BY TrafficIs, PTL

\* What is taken at one end and put in at the other.
LEMMA WireStep ==
    ASSUME SimInv, Staged, SimInv', Staged', contents' = contents, scenario' = scenario,
           NEW l \in system.wires,
           stagedDequeue[l.to] => stagedDequeue'[l.to],
           \/ stagedPacket'[l.from] = stagedPacket[l.from]
           \/ stagedPacket[l.from] = NoPacket
    PROVE  Channel(l)!Next
<1> DEFINE given == IF stagedPacket'[l.from] = stagedPacket[l.from] THEN NoPacket
                    ELSE stagedPacket'[l.from]
           taken == stagedDequeue'[l.to] /\ ~stagedDequeue[l.to]
           back  == contents[l.from] \o Coming(l.from)
<1>1. l.from \in Buffers /\ l.to \in Buffers
  BY Wires
<1>2. system' = system /\ Buffers' = Buffers /\ Depth(l.from) \in Nat /\ Depth(l.to) \in Nat
  BY DepthType DEF system, Buffers
<1>3. /\ Left(l.to) \in Seq(Packet) /\ contents[l.from] \in Seq(Packet)
      /\ Coming(l.from) \in Seq(Packet) /\ contents[l.to] \in Seq(Packet)
      /\ Len(Left(l.to)) <= Len(contents[l.to]) /\ Len(contents[l.to]) <= Depth(l.to)
      /\ Len(contents[l.from]) <= Depth(l.from)
  BY <1>1, BufferType
<1>4. Traffic(l) = (Left(l.to) \o contents[l.from]) \o Coming(l.from)
  BY TrafficIs
<1>5. Traffic(l)' = (Left(l.to)' \o contents[l.from]) \o Coming(l.from)'
  BY <1>2, TrafficIsNext
<1>6. taken => /\ Left(l.to) # << >>
               /\ Left(l.to)' = Tail(Left(l.to))
  <2>1. stagedDequeue'[l.to] => contents[l.to] # << >>
    BY <1>1, <1>2 DEF SimInv, Committable
  <2> QED
    BY <2>1 DEF Left
<1>7. ~taken => Left(l.to)' = Left(l.to)
  BY <1>1, <1>2 DEF Left, SimInv, Committable
<1>8. given # NoPacket => /\ given \in Packet /\ Len(contents[l.from]) < Depth(l.from)
                          /\ Coming(l.from) = << >> /\ Coming(l.from)' = << given >>
  <2>1. stagedPacket'[l.from] # NoPacket =>
            stagedPacket'[l.from] \in Packet /\ Len(contents[l.from]) < Depth(l.from)
    <3>1. /\ stagedPacket' \in [Buffers -> Packet \cup {NoPacket}]
          /\ stagedPacket'[l.from] # NoPacket => Len(contents[l.from]) < Depth(l.from)
      BY <1>1, <1>2 DEF SimInv, Committable, Depth
    <3> QED
      BY <1>1, <3>1
  <2> QED
    BY <2>1 DEF Coming
<1>9. given = NoPacket => Coming(l.from)' = Coming(l.from)
  BY DEF Coming
\* What the queue is when it has been taken from.
<1>10. /\ taken => Traffic(l) # << >>
       /\ Left(l.to)' \in Seq(Packet)
       /\ (IF taken THEN Tail(Traffic(l)) ELSE Traffic(l))
              = (Left(l.to)' \o contents[l.from]) \o Coming(l.from)
  <2>1. CASE taken
    <3>2. /\ Traffic(l) # << >>
          /\ Tail(Traffic(l)) = (Tail(Left(l.to)) \o contents[l.from]) \o Coming(l.from)
      <4>1. PICK a \in Seq(Packet), c \in Seq(Packet), m \in Seq(Packet) :
                a = Left(l.to) /\ c = contents[l.from] /\ m = Coming(l.from)
        BY <1>3
      <4>2. a # << >> /\ Traffic(l) = (a \o c) \o m
        BY <1>4, <1>6, <2>1, <4>1
      <4>3. (a \o c) \o m # << >> /\ Tail((a \o c) \o m) = (Tail(a) \o c) \o m
        BY <4>2, Front
      <4> QED
        BY <4>1, <4>2, <4>3
    <3>3. Tail(Left(l.to)) \in Seq(Packet)
      BY <1>3, <1>6, <2>1, HeadTailProperties
    <3> QED
      BY <1>6, <2>1, <3>2, <3>3
  <2>2. CASE ~taken
    BY <1>3, <1>4, <1>7, <2>2
  <2> QED
    BY <2>1, <2>2
<1>11. given # NoPacket =>
           /\ Len(Traffic(l)) < Depth(l.from) + Depth(l.to)
           /\ Traffic(l)' = Append((Left(l.to)' \o contents[l.from]) \o Coming(l.from), given)
  <2> SUFFICES ASSUME given # NoPacket
               PROVE  /\ Len(Traffic(l)) < Depth(l.from) + Depth(l.to)
                      /\ Traffic(l)' = Append((Left(l.to)' \o contents[l.from]) \o Coming(l.from), given)
    OBVIOUS
  <2>1. /\ given \in Packet /\ Len(contents[l.from]) < Depth(l.from)
        /\ Coming(l.from) = << >> /\ Coming(l.from)' = << given >>
    BY <1>8
  <2> HIDE DEF given
  <2>2. Len(Traffic(l)) = Len(Left(l.to)) + Len(contents[l.from])
    BY <1>3, <1>4, <2>1, Back
  <2>3. PICK k \in Nat, m \in Nat, n \in Nat :
            k = Len(Left(l.to)) /\ m = Len(contents[l.from]) /\ n = Len(contents[l.to])
    BY <1>3, LenProperties
  <2>4. PICK d \in Nat, e \in Nat : d = Depth(l.from) /\ e = Depth(l.to)
    BY <1>2
  <2>5. k <= n /\ n <= e /\ m < d
    BY <1>3, <2>1, <2>3, <2>4
  <2>6. k + m < d + e
    BY <2>5
  <2>7. Traffic(l)' = Append((Left(l.to)' \o contents[l.from]) \o Coming(l.from), given)
    <3>1. PICK a \in Seq(Packet), c \in Seq(Packet) : a = Left(l.to)' /\ c = contents[l.from]
      BY <1>3, <1>10
    <3>2. (a \o c) \o << given >> = Append((a \o c) \o << >>, given)
      BY <2>1, Back
    <3> QED
      BY <1>5, <2>1, <3>1, <3>2
  <2> QED
    BY <2>2, <2>3, <2>4, <2>6, <2>7
<1>12. given = NoPacket =>
           Traffic(l)' = (Left(l.to)' \o contents[l.from]) \o Coming(l.from)
  BY <1>5, <1>9
<1>13. Channel(l)!Edge(taken, given)
  <2> HIDE DEF taken, given
  <2> QED
    BY <1>10, <1>11, <1>12 DEF Channel!Edge, Channel!Removing, Channel!Adding
<1>14. given \in Packet \cup {NoPacket}
  BY <1>8
<1>15. taken \in BOOLEAN
  BY <1>1, <1>2 DEF SimInv, Committable
<1> HIDE DEF taken, given
<1> QED
  BY <1>13, <1>14, <1>15 DEF Channel!Next

LEMMA StagedInit == Init /\ SimInv => Staged /\ \A l \in system.wires : Channel(l)!Init
<1> SUFFICES ASSUME Init, SimInv
             PROVE  Staged /\ \A l \in system.wires : Channel(l)!Init
  OBVIOUS
<1>1. ASSUME NEW b \in Buffers
      PROVE  /\ contents[b] = << >> /\ stagedPacket[b] = NoPacket /\ ~stagedDequeue[b]
             /\ Pending(b) = << >>
  <2>1. Buffers = BuffersOf(system)
    BY DEF SimInv, Contained
  <2>2. contents[b] = << >> /\ stagedPacket[b] = NoPacket /\ ~stagedDequeue[b]
    BY <2>1 DEF Init
  <2> QED
    BY <2>2 DEF Pending, Committed
<1>2. ASSUME NEW l \in system.wires PROVE Channel(l)!Init
  <2>1. Pending(l.to) = << >> /\ Pending(l.from) = << >>
    BY <1>1, Wires
  <2> QED
    BY <2>1 DEF Channel!Init, Traffic
<1>3. \A b \in Senders(system) \cup Receivers(system) :
          stagedPacket[b] = NoPacket /\ ~stagedDequeue[b]
  BY <1>1, LinkEndsAreBuffers
<1>4. \A l \in system.wires : l.from \in Senders(system) /\ l.to \in Receivers(system)
  BY Wires
<1> QED
  BY <1>2, <1>3, <1>4 DEF Staged, Senders, Receivers, Elements

\* The memory takes from its address buffers and its write ports, and puts only into
\* the data buffers of its read ports.
LEMMA MemoryStages ==
    ASSUME SimInv, IterateMemory
    PROVE  /\ \A b \in Senders(system) : stagedDequeue'[b] = stagedDequeue[b]
           /\ \A b \in Receivers(system) : /\ stagedPacket'[b] = stagedPacket[b]
                                           /\ stagedDequeue[b] => stagedDequeue'[b]
           /\ \A b \in Senders(system) :
                  \/ stagedPacket'[b] = stagedPacket[b]
                  \/ \E p \in system.readPorts : b = Data("read", p)
<1> DEFINE serving  == {p \in system.readPorts : Serves(p)}
           writing  == {w \in WritePorts : Writes(w)}
           dequeues == {Addr("read", p) : p \in serving}
                         \cup {Addr("write", w) : w \in writing} \cup {Data("write", w) : w \in writing}
           enqueues == [b \in {Data("read", p) : p \in {q \in system.readPorts : Delivers(q)}}
                           |-> pendingRead[b.port]]
<1>1. Stage(dequeues, enqueues)
  BY DEF IterateMemory
<1>2. \A b \in Senders(system) : b \notin dequeues
  BY SendersDoNotReceive
<1>3. \A b \in DOMAIN enqueues : \E p \in system.readPorts : b = Data("read", p)
  OBVIOUS
<1>4. \A b \in Receivers(system) : b \notin DOMAIN enqueues
  BY <1>3, ReceiversDoNotSend
<1> HIDE DEF dequeues, enqueues
<1>5. \A b \in Buffers : /\ stagedDequeue'[b] = (stagedDequeue[b] \/ b \in dequeues)
                         /\ stagedPacket'[b] = IF b \in DOMAIN enqueues THEN enqueues[b]
                                              ELSE stagedPacket[b]
  BY <1>1 DEF Stage
<1>6. \A b \in Buffers : stagedDequeue[b] \in BOOLEAN
  BY DEF SimInv, Committable
<1> QED
  BY <1>2, <1>3, <1>4, <1>5, <1>6, LinkEndsAreBuffers

LEMMA StagedByMemory ==
    ASSUME SimInv, Staged, IterateMemory
    PROVE  Staged'
<1>1. /\ contents' = contents /\ turn' = CommitTurn /\ system' = system /\ Elements' = Elements
  BY DEF IterateMemory, system, Elements
<1>2. CommitTurn \notin Elements
  BY Wires DEF CommitTurn
<1>3. \A l \in system.wires : /\ stagedDequeue'[l.from] = stagedDequeue[l.from]
                              /\ stagedPacket'[l.to] = stagedPacket[l.to]
  BY Wires, MemoryStages
<1> QED
  BY <1>1, <1>2, <1>3 DEF Staged

LEMMA StagedByCommit ==
    ASSUME SimInv, Commit
    PROVE  Staged'
<1>1. /\ system' = system /\ Elements' = Elements
      /\ \A b \in Buffers : stagedPacket'[b] = NoPacket /\ ~stagedDequeue'[b]
  BY DEF Commit, system, Elements
<1>2. \A b \in Senders(system) \cup Receivers(system) :
          stagedPacket'[b] = NoPacket /\ ~stagedDequeue'[b]
  BY <1>1, LinkEndsAreBuffers
<1>3. \A l \in system.wires : l.from \in Senders(system) /\ l.to \in Receivers(system)
  BY Wires
<1> QED
  BY <1>1, <1>2, <1>3 DEF Staged, Senders, Receivers, Elements

\* What a buffer will hold when the cycle ends it holds when the cycle has ended.
LEMMA CommitKeepsPending ==
    ASSUME Commit, NEW b \in Buffers
    PROVE  Pending(b)' = Pending(b)
<1>1. contents'[b] = Committed(b) /\ stagedPacket'[b] = NoPacket /\ ~stagedDequeue'[b]
  BY DEF Commit
<1>2. Committed(b)' = contents'[b]
  BY <1>1 DEF Committed
<1> QED
  BY <1>1, <1>2 DEF Pending

LEMMA StagedNext == SimInv /\ Staged /\ WiredLikeHardware /\ [Next]_vars => Staged'
<1> SUFFICES ASSUME SimInv, Staged, WiredLikeHardware, [Next]_vars PROVE Staged'
  OBVIOUS
<1>1. Exclusive
  BY WiredIsExclusive
<1>2. CASE \E e \in Elements : IterateElement(e)
  BY <1>1, <1>2, StagedByElement
<1>3. CASE IterateMemory
  BY <1>3, StagedByMemory
<1>4. CASE Commit
  BY <1>4, StagedByCommit
<1>5. CASE UNCHANGED vars
  BY <1>5 DEF vars, staging, Staged, system, Elements
<1> QED
  BY <1>2, <1>3, <1>4, <1>5 DEF Next

\* What any step does to a wire.
LEMMA WireNext ==
    ASSUME SimInv, Staged, Exclusive, SimInv', Staged', Next, NEW l \in system.wires
    PROVE  Traffic(l)' = Traffic(l) \/ Channel(l)!Next
<1>1. l.from \in Senders(system) /\ l.to \in Receivers(system)
      /\ l.from \in Buffers /\ l.to \in Buffers
  BY Wires
<1>2. CASE \E e \in Elements : IterateElement(e)
  <2>1. PICK e \in Elements : IterateElement(e)
    BY <1>2
  <2>2. PICK f \in Firings(e) : Iterate(e, f)
    BY <2>1 DEF IterateElement
  <2>3. contents' = contents /\ scenario' = scenario /\ turn = e /\ e \in Nat
    BY <2>1, Wires DEF IterateElement
  <2>4. stagedDequeue[l.to] => stagedDequeue'[l.to]
    BY <1>1, <2>2, ElementStages
  <2>5. stagedPacket'[l.from] = stagedPacket[l.from] \/ stagedPacket[l.from] = NoPacket
    <3>1. CASE l.from \in DOMAIN f.sends
      <4>1. PICK d \in Directions : l.from = Out(e, d)
        BY <2>2, <3>1, ElementStages
      <4> QED
        BY <2>3, <4>1 DEF Staged
    <3>2. CASE l.from \notin DOMAIN f.sends
      BY <1>1, <2>2, <3>2, ElementAtEnds
    <3> QED
      BY <3>1, <3>2
  <2> QED
    BY <2>3, <2>4, <2>5, WireStep
<1>3. CASE IterateMemory
  <2>1. contents' = contents /\ scenario' = scenario /\ turn = MemoryTurn
    BY <1>3 DEF IterateMemory
  <2>2. turn # CommitTurn
    BY <2>1 DEF MemoryTurn, CommitTurn
  <2>3. \A p \in system.readPorts : stagedPacket[Data("read", p)] = NoPacket
    BY <2>2 DEF Staged
  <2>4. stagedDequeue[l.to] => stagedDequeue'[l.to]
    BY <1>1, <1>3, MemoryStages
  <2>5. stagedPacket'[l.from] = stagedPacket[l.from] \/ stagedPacket[l.from] = NoPacket
    BY <1>1, <1>3, <2>3, MemoryStages
  <2> QED
    BY <2>1, <2>4, <2>5, WireStep
<1>4. CASE Commit
  <2>1. \A b \in Buffers : Pending(b)' = Pending(b)
    BY <1>4, CommitKeepsPending
  <2> QED
    BY <1>1, <2>1 DEF Traffic
<1> QED
  BY <1>2, <1>3, <1>4 DEF Next

\* In a system that is wired as the hardware is, the order in which the elements and
\* the memory iterate within a cycle, the double staging by the routers at both ends of
\* a link and a core that sends while its neighbour takes cannot be seen: every link
\* with the buffers at its ends is one bounded queue.
THEOREM StagingIsFifo == Spec /\ []WiredLikeHardware => ImplementsChannels
<1>1. SimInv /\ Staged /\ WiredLikeHardware /\ SimInv' /\ Staged' /\ [Next]_vars
        => [\A l \in system.wires : Traffic(l)' = Traffic(l) \/ Channel(l)!Next]_vars
  BY WireNext, WiredIsExclusive
<1>2. Init /\ SimInv => Staged /\ \A l \in system.wires : Channel(l)!Init
  BY StagedInit
<1> QED
  BY <1>1, <1>2, SimInvInit, StepKeepsSimInv, StagedNext, PTL DEF Spec, ImplementsChannels

(***************************************************************************)
(* The memory.  What its ports hold, when the cycle ends, of requests and   *)
(* answers, addresses and words.                                            *)
(***************************************************************************)

LEMMA BufferTypeNext ==
    (SimInv => \A b \in Buffers :
        /\ contents[b] \in Seq(Packet) /\ Left(b) \in Seq(Packet) /\ Coming(b) \in Seq(Packet)
        /\ Len(Left(b)) <= Len(contents[b]) /\ Len(contents[b]) <= Depth(b)
        /\ Committed(b) = Left(b) \o Coming(b))'
  BY BufferType, PTL

\* A buffer from which nothing is taken keeps what it holds or grows by a packet.
LEMMA BufferGrows ==
    ASSUME SimInv, SimInv', contents' = contents, scenario' = scenario, NEW b \in Buffers,
           stagedDequeue'[b] = stagedDequeue[b],
           stagedPacket'[b] = stagedPacket[b] \/ stagedPacket[b] = NoPacket
    PROVE  IF stagedPacket'[b] = stagedPacket[b] THEN Pending(b)' = Pending(b)
           ELSE /\ stagedPacket'[b] \in Packet
                /\ Pending(b)' = Append(Pending(b), stagedPacket'[b])
<1>1. Buffers' = Buffers
  BY DEF Buffers
<1>2. Pending(b) = Left(b) \o Coming(b) /\ Left(b) \in Seq(Packet)
  BY BufferType DEF Pending
<1>3. Pending(b)' = Left(b)' \o Coming(b)'
  BY <1>1, BufferTypeNext DEF Pending
<1>4. Left(b)' = Left(b)
  BY DEF Left
<1>5. CASE stagedPacket'[b] = stagedPacket[b]
  <2>1. Coming(b)' = Coming(b)
    BY <1>5 DEF Coming
  <2> QED
    BY <1>2, <1>3, <1>4, <1>5, <2>1
<1>6. CASE stagedPacket'[b] # stagedPacket[b]
  <2>1. Coming(b) = << >> /\ Coming(b)' = << stagedPacket'[b] >>
    BY <1>6 DEF Coming
  <2>2. stagedPacket'[b] \in Packet
    <3>1. stagedPacket' \in [Buffers -> Packet \cup {NoPacket}]
      BY <1>1 DEF SimInv, Committable
    <3> QED
      BY <1>6, <3>1
  <2>3. PICK s \in Seq(Packet), q \in Packet : s = Left(b) /\ q = stagedPacket'[b]
    BY <1>2, <2>2
  <2>4. s \o << >> = s /\ Append(s, q) = s \o << q >>
    BY ConcatEmptySeq, AppendIsConcat
  <2> QED
    BY <1>2, <1>3, <1>4, <1>6, <2>1, <2>3, <2>4
<1> QED
  BY <1>5, <1>6

\* A buffer from which the packet at its head is taken.
LEMMA BufferShrinks ==
    ASSUME SimInv, SimInv', contents' = contents, scenario' = scenario, NEW b \in Buffers,
           stagedDequeue'[b], ~stagedDequeue[b], stagedPacket'[b] = stagedPacket[b]
    PROVE  /\ Pending(b) # << >> /\ Head(Pending(b)) = Head(contents[b])
           /\ Pending(b)' = Tail(Pending(b))
<1>1. Buffers' = Buffers
  BY DEF Buffers
<1>2. /\ Pending(b) = Left(b) \o Coming(b) /\ contents[b] \in Seq(Packet)
      /\ Coming(b) \in Seq(Packet)
  BY BufferType DEF Pending
<1>3. Pending(b)' = Left(b)' \o Coming(b)'
  BY <1>1, BufferTypeNext DEF Pending
<1>4. contents[b] # << >>
  BY <1>1 DEF SimInv, Committable
<1>5. Left(b) = contents[b] /\ Left(b)' = Tail(contents[b]) /\ Coming(b)' = Coming(b)
  BY DEF Left, Coming
<1>6. PICK s \in Seq(Packet), t \in Seq(Packet) : s = contents[b] /\ t = Coming(b)
  BY <1>2
<1>7. s \o t # << >> /\ Head(s \o t) = Head(s) /\ Tail(s \o t) = Tail(s) \o t
  BY <1>4, <1>6, TailConcat
<1> QED
  BY <1>2, <1>3, <1>5, <1>6, <1>7

\* The buffers of the memory's ports.
LEMMA PortBuffers ==
    ASSUME SimInv
    PROVE  /\ \A p \in system.readPorts :
                  /\ p \in ReadPorts
                  /\ Addr("read", p) \in Buffers /\ Addr("read", p) \in Receivers(system)
                  /\ Data("read", p) \in Buffers /\ Data("read", p) \in Senders(system)
           /\ \A w \in WritePorts :
                  /\ Addr("write", w) \in Buffers /\ Addr("write", w) \in Receivers(system)
                  /\ Data("write", w) \in Buffers /\ Data("write", w) \in Receivers(system)
<1>1. /\ \A p \in system.readPorts : /\ Addr("read", p) \in Receivers(system)
                                     /\ Data("read", p) \in Senders(system)
      /\ \A w \in WritePorts : /\ Addr("write", w) \in Receivers(system)
                               /\ Data("write", w) \in Receivers(system)
  BY DEF Senders, Receivers
<1> QED
  BY <1>1, Wires, LinkEndsAreBuffers

\* Elements do not take from the memory's address buffers and write ports, and add to
\* them one packet in a cycle.
LEMMA ElementAddsToPort ==
    ASSUME SimInv, SimInv', Staged, NEW e \in Elements, IterateElement(e),
           NEW b \in Receivers(system), b.channel # "in"
    PROVE  Service!Grows(Pending(b)', Pending(b))
<1>1. PICK f \in Firings(e) : Iterate(e, f)
  BY DEF IterateElement
<1>2. contents' = contents /\ scenario' = scenario
  BY DEF IterateElement
<1>3. b \in Buffers
  BY LinkEndsAreBuffers
<1>4. b \notin f.dequeues
  BY <1>1, Names, ElementStages
<1>5. stagedDequeue'[b] = stagedDequeue[b]
  <2>1. stagedDequeue'[b] = (stagedDequeue[b] \/ FALSE)
    BY <1>1, <1>4, ElementAtEnds
  <2>2. stagedDequeue[b] \in BOOLEAN
    BY <1>3 DEF SimInv, Committable
  <2> QED
    BY <2>1, <2>2
<1>6. b \notin DOMAIN f.sends
  BY <1>1, ElementStages, ReceiversDoNotSend
<1>7. stagedPacket'[b] = stagedPacket[b] \/ stagedPacket[b] = NoPacket
  <2>1. CASE \E l \in Transfers(e) : l.to = b /\ stagedPacket'[b] = Head(contents[l.from])
    <3>1. PICK l \in Transfers(e) : l.to = b /\ stagedPacket'[b] = Head(contents[l.from])
      BY <2>1
    <3> DEFINE k == [from |-> l.from, to |-> l.to]
    <3>2. k \in system.wires /\ k.from = l.from /\ k.to = b
      BY <3>1, Wires DEF Transfers
    <3> HIDE DEF k
    <3>3. stagedPacket[b] # NoPacket => stagedPacket[b] = Head(contents[l.from])
      BY <3>2 DEF Staged
    <3> QED
      BY <3>1, <3>3
  <2>2. CASE ~ \E l \in Transfers(e) : l.to = b /\ stagedPacket'[b] = Head(contents[l.from])
    BY <1>1, <1>3, <1>6, <2>2, ElementStages
  <2> QED
    BY <2>1, <2>2
<1> QED
  BY <1>2, <1>3, <1>5, <1>7, BufferGrows DEF Service!Grows

\* Elements take answers one by one.
LEMMA ElementTakesAnswer ==
    ASSUME SimInv, SimInv', NEW e \in Elements, IterateElement(e), NEW p \in system.readPorts
    PROVE  LET b == Data("read", p)
           IN  \/ Pending(b)' = Pending(b)
               \/ Pending(b) # << >> /\ Pending(b)' = Tail(Pending(b))
<1> DEFINE b == Data("read", p)
<1>1. PICK f \in Firings(e) : Iterate(e, f)
  BY DEF IterateElement
<1>2. contents' = contents /\ scenario' = scenario /\ Buffers' = Buffers
  BY DEF IterateElement, Buffers
<1>3. b \in Buffers /\ b \in Senders(system) /\ b \notin DOMAIN f.sends
  BY <1>1, Names, ElementStages, PortBuffers
<1> HIDE DEF b
<1>4. stagedPacket'[b] = stagedPacket[b]
  BY <1>1, <1>3, ElementAtEnds
<1>5. stagedDequeue[b] \in BOOLEAN /\ stagedDequeue'[b] \in BOOLEAN
  BY <1>2, <1>3 DEF SimInv, Committable
<1>6. stagedDequeue[b] => stagedDequeue'[b]
  BY <1>1, <1>3, ElementStages
<1>7. CASE stagedDequeue'[b] = stagedDequeue[b]
  BY <1>2, <1>3, <1>4, <1>7, BufferGrows DEF b
<1>8. CASE stagedDequeue'[b] # stagedDequeue[b]
  <2>1. stagedDequeue'[b] /\ ~stagedDequeue[b]
    BY <1>5, <1>6, <1>8
  <2> QED
    BY <1>2, <1>3, <1>4, <2>1, BufferShrinks DEF b
<1> QED
  BY <1>7, <1>8

\* What the memory stages on the buffers of its ports: it takes what it serves and
\* writes, and puts what it delivers.
LEMMA MemoryOnPorts ==
    ASSUME SimInv, SimInv', Staged, IterateMemory
    PROVE  /\ \A p \in system.readPorts : LET b == Addr("read", p) IN
                  IF Serves(p) THEN /\ Pending(b) # << >> /\ Head(Pending(b)) = Head(contents[b])
                                    /\ Pending(b)' = Tail(Pending(b))
                  ELSE Pending(b)' = Pending(b)
           /\ \A p \in system.readPorts : LET b == Data("read", p) IN
                  IF Delivers(p) THEN Pending(b)' = Append(Pending(b), pendingRead[p])
                  ELSE Pending(b)' = Pending(b)
           /\ \A w \in WritePorts : \A b \in {Addr("write", w), Data("write", w)} :
                  IF Writes(w) THEN /\ Pending(b) # << >> /\ Head(Pending(b)) = Head(contents[b])
                                    /\ Pending(b)' = Tail(Pending(b))
                  ELSE Pending(b)' = Pending(b)
<1> DEFINE serving  == {p \in system.readPorts : Serves(p)}
           writing  == {w \in WritePorts : Writes(w)}
           delivering == {p \in system.readPorts : Delivers(p)}
           dequeues == {Addr("read", p) : p \in serving}
                         \cup {Addr("write", w) : w \in writing} \cup {Data("write", w) : w \in writing}
           enqueues == [b \in {Data("read", p) : p \in delivering} |-> pendingRead[b.port]]
<1>1. Stage(dequeues, enqueues)
  BY DEF IterateMemory
<1>2. contents' = contents /\ scenario' = scenario /\ turn # CommitTurn
  BY DEF IterateMemory, MemoryTurn, CommitTurn
<1>3. /\ \A p \in system.readPorts : Addr("read", p) \in dequeues <=> Serves(p)
      /\ \A p \in system.readPorts : Data("read", p) \notin dequeues
      /\ \A w \in WritePorts : /\ Addr("write", w) \in dequeues <=> Writes(w)
                               /\ Data("write", w) \in dequeues <=> Writes(w)
  <2>1. \A p, q : /\ Addr("read", p) = Addr("read", q) => p = q
                  /\ Addr("write", p) = Addr("write", q) => p = q
                  /\ Data("write", p) = Data("write", q) => p = q
                  /\ Addr("read", p) # Addr("write", q) /\ Addr("read", p) # Data("write", q)
                  /\ Addr("write", p) # Data("write", q)
                  /\ Data("read", p) # Addr("read", q) /\ Data("read", p) # Addr("write", q)
                  /\ Data("read", p) # Data("write", q)
    BY Names
  <2> QED
    BY <2>1
<1>4. /\ \A p \in system.readPorts : Addr("read", p) \notin DOMAIN enqueues
      /\ \A p \in system.readPorts : Data("read", p) \in DOMAIN enqueues <=> Delivers(p)
      /\ \A p \in system.readPorts : Delivers(p) => enqueues[Data("read", p)] = pendingRead[p]
      /\ \A w \in WritePorts : /\ Addr("write", w) \notin DOMAIN enqueues
                               /\ Data("write", w) \notin DOMAIN enqueues
  <2>1. \A p, q : /\ Data("read", p) = Data("read", q) => p = q
                  /\ Data("read", p).port = p
                  /\ Data("read", p) # Addr("read", q) /\ Data("read", p) # Addr("write", q)
                  /\ Data("read", p) # Data("write", q)
    BY Names
  <2>2. DOMAIN enqueues = {Data("read", p) : p \in delivering}
    OBVIOUS
  <2>3. \A p \in delivering : enqueues[Data("read", p)] = pendingRead[p]
    BY <2>1
  <2> HIDE DEF enqueues
  <2> QED
    BY <2>1, <2>2, <2>3
<1> HIDE DEF dequeues, enqueues
<1>5. \A b \in Buffers : /\ stagedDequeue'[b] = (stagedDequeue[b] \/ b \in dequeues)
                         /\ stagedPacket'[b] = IF b \in DOMAIN enqueues THEN enqueues[b]
                                              ELSE stagedPacket[b]
                         /\ stagedDequeue[b] \in BOOLEAN
  BY <1>1 DEF Stage, SimInv, Committable
<1>6. ASSUME NEW b \in Buffers, NEW takes \in BOOLEAN, takes <=> b \in dequeues,
             ~stagedDequeue[b], b \notin DOMAIN enqueues
      PROVE  IF takes THEN /\ Pending(b) # << >> /\ Head(Pending(b)) = Head(contents[b])
                           /\ Pending(b)' = Tail(Pending(b))
             ELSE Pending(b)' = Pending(b)
  <2>1. stagedPacket'[b] = stagedPacket[b] /\ stagedDequeue'[b] = takes
    BY <1>5, <1>6
  <2>2. CASE takes
    BY <1>2, <2>1, <2>2, <1>6, BufferShrinks
  <2>3. CASE ~takes
    <3>1. stagedDequeue'[b] = stagedDequeue[b]
      BY <1>5, <1>6, <2>1, <2>3
    <3> QED
      BY <1>2, <2>1, <2>3, <3>1, BufferGrows
  <2> QED
    BY <2>2, <2>3
<1>7. ASSUME NEW p \in system.readPorts
      PROVE  LET b == Addr("read", p) IN
             IF Serves(p) THEN /\ Pending(b) # << >> /\ Head(Pending(b)) = Head(contents[b])
                               /\ Pending(b)' = Tail(Pending(b))
             ELSE Pending(b)' = Pending(b)
  <2>1. Addr("read", p) \in Buffers /\ ~stagedDequeue[Addr("read", p)]
    BY <1>2, PortBuffers DEF Staged
  <2>2. Serves(p) \in BOOLEAN
    BY DEF Serves, Delivers, Empty, Full
  <2> QED
    BY <1>3, <1>4, <1>6, <2>1, <2>2
<1>8. ASSUME NEW p \in system.readPorts
      PROVE  LET b == Data("read", p) IN
             IF Delivers(p) THEN Pending(b)' = Append(Pending(b), pendingRead[p])
             ELSE Pending(b)' = Pending(b)
  <2> DEFINE b == Data("read", p)
  <2>1. b \in Buffers /\ stagedPacket[b] = NoPacket
    BY <1>2, PortBuffers DEF Staged
  <2>2. stagedDequeue'[b] = stagedDequeue[b]
    BY <1>3, <1>5, <2>1
  <2>3. stagedPacket'[b] = IF Delivers(p) THEN pendingRead[p] ELSE stagedPacket[b]
    BY <1>4, <1>5, <2>1
  <2>4. Delivers(p) => pendingRead[p] # NoPacket
    BY DEF Delivers
  <2> HIDE DEF b
  <2>5. IF stagedPacket'[b] = stagedPacket[b] THEN Pending(b)' = Pending(b)
        ELSE Pending(b)' = Append(Pending(b), stagedPacket'[b])
    BY <1>2, <2>1, <2>2, BufferGrows
  <2>6. CASE Delivers(p)
    BY <2>1, <2>3, <2>4, <2>5, <2>6 DEF b
  <2>7. CASE ~Delivers(p)
    BY <2>3, <2>5, <2>7 DEF b
  <2> QED
    BY <2>6, <2>7
<1>9. ASSUME NEW w \in WritePorts, NEW b \in {Addr("write", w), Data("write", w)}
      PROVE  IF Writes(w) THEN /\ Pending(b) # << >> /\ Head(Pending(b)) = Head(contents[b])
                               /\ Pending(b)' = Tail(Pending(b))
             ELSE Pending(b)' = Pending(b)
  <2>1. b \in Buffers /\ ~stagedDequeue[b]
    BY <1>2, PortBuffers DEF Staged
  <2>2. Writes(w) \in BOOLEAN
    BY DEF Writes, Empty
  <2>3. (Writes(w) <=> b \in dequeues) /\ b \notin DOMAIN enqueues
    BY <1>3, <1>4
  <2> QED
    BY <1>6, <2>1, <2>2, <2>3
<1> QED
  BY <1>7, <1>8, <1>9

\* The ports as the service sees them.
Requests(p) == IF p \in system.readPorts THEN Pending(Addr("read", p)) ELSE << >>
Answers(p)  == IF p \notin system.readPorts THEN << >>
               ELSE IF pendingRead[p] = NoPacket THEN Pending(Data("read", p))
               ELSE Append(Pending(Data("read", p)), pendingRead[p])
Pushed(new, old, given) ==
    \/ new = old \o given
    \/ old # << >> /\ new = Tail(old) \o given

\* A step of the service, port by port.
ReadsServed(serving) ==
    \A p \in ReadPorts :
        /\ p \in serving => Requests(p) # << >>
        /\ Service!Grows(Requests(p)', IF p \in serving THEN Tail(Requests(p)) ELSE Requests(p))
        /\ \E given \in IF p \in serving
                       THEN {<< a >> : a \in Service!Answers(Head(Requests(p)))} ELSE {<< >>} :
              Pushed(Answers(p)', Answers(p), given)
WritesServed(writing) ==
    \A w \in WritePorts :
        LET a == Pending(Addr("write", w))
            d == Pending(Data("write", w))
        IN  /\ w \in writing => a # << >> /\ d # << >>
            /\ Service!Grows(a', IF w \in writing THEN Tail(a) ELSE a)
            /\ Service!Grows(d', IF w \in writing THEN Tail(d) ELSE d)
WordsStored(writing) ==
    \A a \in 0 .. Size - 1 :
        LET writers == {w \in writing : Head(Pending(Addr("write", w))).data % Size = a}
        IN  IF writers = {} THEN ram'[a] = ram[a]
            ELSE \E w \in writers : ram'[a] = Head(Pending(Data("write", w))).data

LEMMA ServiceStep ==
    ASSUME NEW serving \in SUBSET ReadPorts, NEW writing \in SUBSET WritePorts,
           ReadsServed(serving), WritesServed(writing), WordsStored(writing)
    PROVE  Service!Next
<1>1. ASSUME NEW p \in ReadPorts PROVE Service!Read(p, serving)
  BY <1>1 DEF ReadsServed, Service!Read, Requests, Answers, Pushed
<1>2. ASSUME NEW w \in WritePorts PROVE Service!Write(w, writing)
  BY <1>2 DEF WritesServed, Service!Write
<1>3. Service!Stored(writing)
  BY DEF WordsStored, Service!Stored, Service!Index
<1> QED
  BY <1>1, <1>2, <1>3 DEF Service!Next

LEMMA AppendTail ==
    ASSUME NEW s \in Seq(Packet), NEW r \in Packet
    PROVE  /\ Append(s, r) = s \o << r >> /\ Append(s, r) \in Seq(Packet) /\ Append(s, r) # << >>
           /\ s # << >> => Tail(Append(s, r)) = Append(Tail(s), r)
<1>1. << r >> \in Seq(Packet) /\ Append(s, r) = s \o << r >>
  BY AppendIsConcat
<1>2. Append(s, r) \in Seq(Packet) /\ Append(s, r) # << >>
  BY AppendProperties, EmptySeq
<1>3. ASSUME s # << >> PROVE Tail(Append(s, r)) = Append(Tail(s), r)
  <2>1. Tail(s \o << r >>) = Tail(s) \o << r >>
    BY <1>1, <1>3, TailConcat
  <2>2. Tail(s) \in Seq(Packet)
    BY <1>3, HeadTailProperties
  <2>3. Append(Tail(s), r) = Tail(s) \o << r >>
    BY <2>2, AppendIsConcat
  <2> QED
    BY <1>1, <2>1, <2>3
<1> QED
  BY <1>1, <1>2, <1>3

\* What a buffer will hold is a sequence of packets.
LEMMA PendingType ==
    ASSUME SimInv, NEW b \in Buffers
    PROVE  Pending(b) \in Seq(Packet)
<1>1. PICK s \in Seq(Packet), t \in Seq(Packet) : Pending(b) = s \o t
  BY BufferType DEF Pending
<1> QED
  BY <1>1, Concatenated

LEMMA IndexFits ==
    ASSUME NEW n \in Nat, NEW a \in 0 .. n - 1
    PROVE  a % n = a
  OBVIOUS

LEMMA ElementServes ==
    ASSUME SimInv, SimInv', Staged, NEW e \in Elements, IterateElement(e)
    PROVE  Service!Next
<1>1. system' = system /\ pendingRead' = pendingRead /\ ram' = ram
  BY DEF IterateElement, system
<1>2. ASSUME NEW p \in ReadPorts
      PROVE  /\ Service!Grows(Requests(p)', Requests(p))
             /\ Pushed(Answers(p)', Answers(p), << >>)
  <2>1. CASE p \notin system.readPorts
    BY <1>1, <2>1 DEF Requests, Answers, Pushed, Service!Grows
  <2>2. CASE p \in system.readPorts
    <3>1. Service!Grows(Pending(Addr("read", p))', Pending(Addr("read", p)))
      BY <2>2, Names, PortBuffers, ElementAddsToPort
    <3>2. PICK s \in Seq(Packet) : s = Pending(Data("read", p))
      BY <2>2, PendingType, PortBuffers
    <3>3. \/ Pending(Data("read", p))' = s
          \/ s # << >> /\ Pending(Data("read", p))' = Tail(s)
      BY <2>2, <3>2, ElementTakesAnswer
    <3>4. s # << >> => Tail(s) \in Seq(Packet)
      BY HeadTailProperties
    <3>5. Pushed(Answers(p)', Answers(p), << >>)
      <4>1. CASE pendingRead[p] = NoPacket
        <5>1. Answers(p) = s /\ Answers(p)' = Pending(Data("read", p))'
          BY <1>1, <2>2, <3>2, <4>1 DEF Answers
        <5>2. s \o << >> = s /\ (s # << >> => Tail(s) \o << >> = Tail(s))
          BY <3>4, ConcatEmptySeq
        <5> QED
          BY <3>3, <5>1, <5>2 DEF Pushed
      <4>2. CASE pendingRead[p] # NoPacket
        <5>1. PICK r \in Packet : r = pendingRead[p]
          BY <2>2, <4>2 DEF SimInv, Registered
        <5>2. Answers(p) = Append(s, r) /\ Answers(p)' = Append(Pending(Data("read", p))', r)
          BY <1>1, <2>2, <3>2, <4>2, <5>1 DEF Answers
        <5>3. PICK u \in Seq(Packet) : u = Append(s, r)
          BY AppendTail
        <5>4. u # << >> /\ (s # << >> => Tail(u) = Append(Tail(s), r))
          BY <5>3, AppendTail
        <5>5. u \o << >> = u /\ Tail(u) \o << >> = Tail(u)
          <6>1. Tail(u) \in Seq(Packet)
            BY <5>4, HeadTailProperties
          <6> QED
            BY <6>1, ConcatEmptySeq
        <5> QED
          BY <3>3, <5>2, <5>3, <5>4, <5>5 DEF Pushed
      <4> QED
        BY <4>1, <4>2
    <3> QED
      BY <1>1, <2>2, <3>1, <3>5 DEF Requests
  <2> QED
    BY <2>1, <2>2
<1>3. ASSUME NEW w \in WritePorts
      PROVE  /\ Service!Grows(Pending(Addr("write", w))', Pending(Addr("write", w)))
             /\ Service!Grows(Pending(Data("write", w))', Pending(Data("write", w)))
  BY Names, PortBuffers, ElementAddsToPort
<1>4. ReadsServed({})
  BY <1>2 DEF ReadsServed
<1>5. WritesServed({})
  BY <1>3 DEF WritesServed
<1>6. WordsStored({})
  BY <1>1 DEF WordsStored
<1> QED
  BY <1>4, <1>5, <1>6, ServiceStep

\* What becomes of the answers of a port in a turn of the memory.
LEMMA MemoryAnswers ==
    ASSUME SimInv, SimInv', Staged, IterateMemory, NEW p \in system.readPorts
    PROVE  Pushed(Answers(p)', Answers(p),
                  IF Serves(p) THEN << Answer(Head(contents[Addr("read", p)])) >> ELSE << >>)
<1> DEFINE b == Data("read", p)
           given == Answer(Head(contents[Addr("read", p)]))
<1>1. PICK s \in Seq(Packet) : s = Pending(b)
  BY PendingType, PortBuffers
<1>2. Pending(b)' = IF Delivers(p) THEN Append(s, pendingRead[p]) ELSE s
  BY <1>1, MemoryOnPorts
<1>3. system' = system
  BY DEF IterateMemory, system
<1>4. pendingRead'[p] = IF Serves(p) THEN given ELSE IF Delivers(p) THEN NoPacket ELSE pendingRead[p]
  BY DEF IterateMemory
<1>5. Serves(p) => given \in Packet /\ given # NoPacket /\ (pendingRead[p] = NoPacket \/ Delivers(p))
  BY RequestServed, PacketAssumption DEF Serves
<1>6. pendingRead[p] \in Packet \cup {NoPacket} /\ (Delivers(p) => pendingRead[p] # NoPacket)
  BY DEF SimInv, Registered, Delivers
<1>7. Answers(p) = IF pendingRead[p] = NoPacket THEN s ELSE Append(s, pendingRead[p])
  BY <1>1 DEF Answers
<1>8. Answers(p)' = IF pendingRead'[p] = NoPacket THEN Pending(b)'
                    ELSE Append(Pending(b)', pendingRead'[p])
  BY <1>3 DEF Answers
<1> HIDE DEF b, given
<1>9. PICK t \in Seq(Packet) : /\ t = Answers(p)
                               /\ Delivers(p) => Pending(b)' = t
                               /\ pendingRead[p] = NoPacket => Pending(b)' = t
  <2>1. pendingRead[p] # NoPacket => Append(s, pendingRead[p]) \in Seq(Packet)
    BY <1>6, AppendTail
  <2> QED
    BY <1>2, <1>6, <1>7, <2>1
<1>10. CASE Serves(p)
  <2>1. PICK r \in Packet : r = given
    BY <1>5, <1>10
  <2>2. Append(t, r) = t \o << r >>
    BY AppendTail
  <2>3. Answers(p)' = Append(t, r)
    BY <1>4, <1>5, <1>8, <1>9, <1>10, <2>1
  <2> QED
    BY <1>9, <1>10, <2>1, <2>2, <2>3 DEF Pushed, given
<1>11. CASE ~Serves(p)
  <2>1. Answers(p)' = t
    BY <1>2, <1>4, <1>6, <1>7, <1>8, <1>9, <1>11
  <2>2. t \o << >> = t
    BY ConcatEmptySeq
  <2> QED
    BY <1>9, <1>11, <2>1, <2>2 DEF Pushed
<1> QED
  BY <1>10, <1>11 DEF given

LEMMA MemoryServes ==
    ASSUME SimInv, SimInv', Staged, IterateMemory
    PROVE  Service!Next
<1> DEFINE serving == {p \in system.readPorts : Serves(p)}
           writing == {w \in WritePorts : Writes(w)}
<1>1. system' = system /\ system.readPorts \subseteq ReadPorts /\ Size \in Nat
  BY Wires DEF IterateMemory, system
<1>2. ASSUME NEW p \in ReadPorts
      PROVE  /\ p \in serving => Requests(p) # << >>
             /\ Requests(p)' = IF p \in serving THEN Tail(Requests(p)) ELSE Requests(p)
             /\ \E given \in IF p \in serving
                            THEN {<< a >> : a \in Service!Answers(Head(Requests(p)))} ELSE {<< >>} :
                    Pushed(Answers(p)', Answers(p), given)
  <2>1. CASE p \notin system.readPorts
    <3>1. Answers(p)' = << >> /\ Answers(p) = << >> /\ << >> \o << >> = << >>
      BY <1>1, <2>1 DEF Answers
    <3> QED
      BY <1>1, <2>1, <3>1 DEF Requests, Pushed
  <2>2. CASE p \in system.readPorts
    <3>1. /\ p \in serving => Requests(p) # << >>
          /\ Requests(p)' = IF p \in serving THEN Tail(Requests(p)) ELSE Requests(p)
      BY <1>1, <2>2, MemoryOnPorts DEF Requests
    <3>2. p \in serving =>
              Answer(Head(contents[Addr("read", p)])) \in Service!Answers(Head(Requests(p)))
      <4> SUFFICES ASSUME p \in serving
                   PROVE  Answer(Head(contents[Addr("read", p)])) \in Service!Answers(Head(Requests(p)))
        OBVIOUS
      <4>1. Head(Requests(p)) = Head(contents[Addr("read", p)])
        BY <2>2, MemoryOnPorts DEF Requests
      <4>2. Head(contents[Addr("read", p)]).data \in 0 .. Size - 1
        BY <2>2, RequestServed
      <4>3. Head(contents[Addr("read", p)]).data % Size = Head(contents[Addr("read", p)]).data
        BY <1>1, <4>2, IndexFits
      <4>4. Service!Index(Head(Requests(p))) = Head(contents[Addr("read", p)]).data
        BY <4>1, <4>3 DEF Service!Index
      <4>5. Service!Index(Head(Requests(p))) < Size
        BY <1>1, <4>2, <4>4
      <4> QED
        BY <4>1, <4>4, <4>5 DEF Service!Answers, Answer
    <3>3. p \in serving <=> Serves(p)
      BY <2>2
    <3> HIDE DEF serving
    <3>4. \E given \in IF p \in serving
                      THEN {<< a >> : a \in Service!Answers(Head(Requests(p)))} ELSE {<< >>} :
              Pushed(Answers(p)', Answers(p), given)
      <4>1. Pushed(Answers(p)', Answers(p),
                   IF Serves(p) THEN << Answer(Head(contents[Addr("read", p)])) >> ELSE << >>)
        BY <2>2, MemoryAnswers
      <4>2. CASE Serves(p)
        BY <3>2, <3>3, <4>1, <4>2
      <4>3. CASE ~Serves(p)
        BY <3>3, <4>1, <4>3
      <4> QED
        BY <4>2, <4>3
    <3> QED
      BY <3>1, <3>4
  <2> QED
    BY <2>1, <2>2
<1>3. ReadsServed(serving)
  <2> HIDE DEF serving
  <2> QED
    BY <1>2 DEF ReadsServed, Service!Grows
<1>4. WritesServed(writing)
  BY MemoryOnPorts DEF WritesServed, Service!Grows
<1>5. WordsStored(writing)
  <2>1. ASSUME NEW w \in writing
        PROVE  /\ Head(Pending(Addr("write", w))) = Head(contents[Addr("write", w)])
               /\ Head(Pending(Data("write", w))) = Head(contents[Data("write", w)])
               /\ Head(contents[Addr("write", w)]).data % Size = Head(contents[Addr("write", w)]).data
    <3>1. /\ Head(Pending(Addr("write", w))) = Head(contents[Addr("write", w)])
          /\ Head(Pending(Data("write", w))) = Head(contents[Data("write", w)])
      BY <2>1, MemoryOnPorts
    <3>2. Addr("write", w) \in Buffers /\ ~Empty(Addr("write", w)) /\ Addr("write", w).channel = "addr"
      BY <2>1, Names, PortBuffers DEF Writes
    <3>3. Head(contents[Addr("write", w)]) \in Carried(system, Addr("write", w))
      BY <3>2, Room
    <3>4. Head(contents[Addr("write", w)]).data \in 0 .. Size - 1
      BY <3>2, <3>3 DEF Carried, ForAddresses
    <3> QED
      BY <1>1, <3>1, <3>4, IndexFits
  <2>2. ASSUME NEW a \in 0 .. Size - 1
        PROVE  LET writers == {w \in writing : Head(Pending(Addr("write", w))).data % Size = a}
               IN  IF writers = {} THEN ram'[a] = ram[a]
                   ELSE \E w \in writers : ram'[a] = Head(Pending(Data("write", w))).data
    <3> DEFINE writers == {w \in writing : Head(Pending(Addr("write", w))).data % Size = a}
               heads   == {w \in WritePorts : Writes(w) /\ Head(contents[Addr("write", w)]).data = a}
               last    == CHOOSE w \in heads : \A v \in heads : v <= w
    <3>1. ram'[a] = Written(a)
      BY DEF IterateMemory, SimInv, Registered
    <3>2. writers = heads
      BY <2>1
    <3>3. CASE heads = {}
      BY <3>1, <3>2, <3>3 DEF Written
    <3>4. CASE heads # {}
      <4>1. \A w \in heads : w = 0
        BY DEF WritePorts
      <4>2. 0 \in heads /\ \A v \in heads : v <= 0
        BY <3>4, <4>1
      <4>3. last \in heads
        BY <4>2
      <4>4. ram'[a] = Head(contents[Data("write", last)]).data
        BY <3>1, <3>4 DEF Written
      <4> HIDE DEF last
      <4>5. last \in writing /\ last \in writers
        BY <3>2, <4>3
      <4>6. ram'[a] = Head(Pending(Data("write", last))).data
        BY <2>1, <4>4, <4>5
      <4> QED
        BY <3>2, <3>4, <4>5, <4>6
    <3> QED
      BY <3>3, <3>4
  <2> HIDE DEF writing
  <2> QED
    BY <2>2 DEF WordsStored
<1>6. serving \in SUBSET ReadPorts /\ writing \in SUBSET WritePorts
  BY <1>1
<1> HIDE DEF serving, writing
<1> QED
  BY <1>3, <1>4, <1>5, <1>6, ServiceStep

LEMMA ServiceInit == Init /\ SimInv => Service!Init
<1> SUFFICES ASSUME Init, SimInv PROVE Service!Init
  OBVIOUS
<1>1. ASSUME NEW b \in Buffers PROVE Pending(b) = << >>
  <2>1. Buffers = BuffersOf(system)
    BY DEF SimInv, Contained
  <2>2. contents[b] = << >> /\ stagedPacket[b] = NoPacket /\ ~stagedDequeue[b]
    BY <2>1 DEF Init
  <2> QED
    BY <2>2 DEF Pending, Committed
<1>2. \A p \in system.readPorts : /\ Pending(Addr("read", p)) = << >>
                                  /\ Pending(Data("read", p)) = << >>
                                  /\ pendingRead[p] = NoPacket
  BY <1>1, PortBuffers DEF Init
<1>3. \A w \in WritePorts : /\ Pending(Addr("write", w)) = << >>
                            /\ Pending(Data("write", w)) = << >>
  BY <1>1, PortBuffers
<1> QED
  BY <1>2, <1>3 DEF Init, Service!Init, Service!Words

\* In a system that is wired as the hardware is, each read port of Memory.iterate
\* answers every request once, in order, with the word the memory holds in the cycle
\* in which the request is taken, whatever waits in the port or in its buffers; and
\* the n-th address of the write port meets the n-th word.
THEOREM StagingIsMemory == Spec /\ []WiredLikeHardware => ImplementsMemory
<1>1. SimInv /\ Staged /\ SimInv' /\ [Next]_vars => [Service!Next]_Service!vars
  <2> SUFFICES ASSUME SimInv, Staged, SimInv', [Next]_vars PROVE [Service!Next]_Service!vars
    OBVIOUS
  <2>1. CASE \E e \in Elements : IterateElement(e)
    BY <2>1, ElementServes
  <2>2. CASE IterateMemory
    BY <2>2, MemoryServes
  <2>3. CASE Commit
    <3>1. system' = system /\ pendingRead' = pendingRead /\ ram' = ram
      BY <2>3 DEF Commit, system
    <3>2. \A p \in system.readPorts : /\ Pending(Addr("read", p))' = Pending(Addr("read", p))
                                      /\ Pending(Data("read", p))' = Pending(Data("read", p))
      BY <2>3, PortBuffers, CommitKeepsPending
    <3>3. \A w \in WritePorts : /\ Pending(Addr("write", w))' = Pending(Addr("write", w))
                                /\ Pending(Data("write", w))' = Pending(Data("write", w))
      BY <2>3, PortBuffers, CommitKeepsPending
    <3> QED
      BY <3>1, <3>2, <3>3 DEF Service!vars
  <2>4. CASE UNCHANGED vars
    BY <2>4 DEF vars, staging, Service!vars, system, Pending, Committed, Appended
  <2> QED
    BY <2>1, <2>2, <2>3, <2>4 DEF Next
<1>2. Init /\ SimInv => Staged /\ Service!Init
  BY StagedInit, ServiceInit
<1> QED
  BY <1>1, <1>2, SimInvInit, StepKeepsSimInv, StagedNext, PTL
     DEF Spec, ImplementsMemory, Service!Spec
=============================================================================
