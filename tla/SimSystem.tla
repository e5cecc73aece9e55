----------------------------- MODULE SimSystem -----------------------------
(***************************************************************************)
(* The event loop of the functional simulator.  In each cycle every        *)
(* processing element (core, then router) and the memory iterate in turn.  *)
(* They look at the buffers as they were at the start of the cycle and     *)
(* only stage what they enqueue and dequeue; at the end all buffers        *)
(* commit.  The loop ends with the first cycle after which all cores have  *)
(* halted and all buffers are empty.                                       *)
(*                                                                         *)
(* What a core computes is TiaMachine's matter: here its program is the set *)
(* of what it may do in a cycle.                                            *)
(***************************************************************************)
EXTENDS Topology, Sequences

CONSTANTS
    Scenarios,     \* name -> [system, programs]: a built system and what the core of
                   \* each element may do in a cycle, a set of [dequeues, sends, halts]
    ChannelDepth,  \* depth of the buffers of an element
    PortDepth,     \* depth of the buffers of the memory's ports
    ReadPorts,     \* at least the read ports of the systems
    Packet,        \* [tag, data] records
    NoPacket,      \* None
    Size           \* words of memory

WritePorts == {0}

\* The buffers that are registered with a system.
ChannelsOf(e) == {In(e, d) : d \in Directions} \cup {Out(e, d) : d \in Directions}
BuffersOf(s) ==
    (UNION {ChannelsOf(e) : e \in s.elements})
        \cup (UNION {{Addr("read", p), Data("read", p)} : p \in s.readPorts})
        \cup (UNION {{Addr("write", w), Data("write", w)} : w \in WritePorts})

Depth(b) == IF "element" \in DOMAIN b THEN ChannelDepth ELSE PortDepth

ASSUME DepthAssumption == {ChannelDepth, PortDepth} \subseteq Nat \ {0}

\* The answer to a request has the request's tag and any word of the memory.
ASSUME PacketAssumption ==
    /\ NoPacket \notin Packet
    /\ \A p, q \in Packet : [tag |-> p.tag, data |-> q.data] \in Packet

\* What may be in a buffer: on the way to the address buffer of a port, packets with
\* an index of the memory.  Any other index is an exception of the simulator.
ForAddresses(s, b) ==
    b.channel = "addr" \/ \E l \in s.links : l.from = b /\ l.to.channel = "addr"
Carried(s, b) ==
    IF ForAddresses(s, b) THEN {p \in Packet : p.data \in 0 .. Size - 1} ELSE Packet

\* A built system moves packets between its own buffers, and so do its programs.
ASSUME ScenarioAssumption ==
    \A name \in DOMAIN Scenarios :
        LET s == Scenarios[name].system
        IN  /\ 0 \in s.elements
            /\ \A p \in s.readPorts : Carried(s, Data("read", p)) = Packet
            /\ \A l \in s.links : /\ {l.from, l.to} \subseteq BuffersOf(s)
                                  /\ Carried(s, l.from) \subseteq Carried(s, l.to)
            /\ \A e \in s.elements : \A f \in Scenarios[name].programs[e] :
                   /\ f.dequeues \cup DOMAIN f.sends \subseteq BuffersOf(s)
                   /\ \A b \in DOMAIN f.sends : f.sends[b] \in Carried(s, b)
                   /\ f.halts \in BOOLEAN

\* Of the buffers, those from which links lead and those to which they lead.
Senders(s)   == {Out(e, d) : e \in s.elements, d \in Directions}
                    \cup {Data("read", p) : p \in s.readPorts}
Receivers(s) == {In(e, d) : e \in s.elements, d \in Directions}
                    \cup {Addr("read", p) : p \in s.readPorts}
                    \cup {Addr("write", w) : w \in WritePorts}
                    \cup {Data("write", w) : w \in WritePorts}

\* Elements are counted from 0.  Routers move packets from sender to receiver buffers;
\* a core dequeues its own input channel buffers and sends to its own outputs.
ASSUME WiringAssumption ==
    /\ Size \in Nat
    /\ \A name \in DOMAIN Scenarios :
        LET s == Scenarios[name].system
        IN  /\ s.elements \subseteq Nat /\ s.readPorts \subseteq ReadPorts
            /\ \A l \in s.links : l.from \in Senders(s) /\ l.to \in Receivers(s)
            /\ s.wires = {[from |-> l.from, to |-> l.to] : l \in s.links}
            /\ \A e \in s.elements : \A f \in Scenarios[name].programs[e] :
                   /\ f.dequeues \subseteq {In(e, d) : d \in Directions}
                   /\ DOMAIN f.sends \subseteq {Out(e, d) : d \in Directions}

VARIABLES
    scenario,       \* what has been built and loaded
    contents,       \* Buffer.deque
    stagedPacket,   \* Buffer.staged_packet; NoPacket unless staged_enqueue
    stagedDequeue,  \* Buffer.staged_dequeue
    haltRegister,   \* Core.halt_register
    ram,            \* Memory.contents
    pendingRead,    \* ReadPort.pending_read_packet
    turn,           \* the element that iterates next, then the memory, then commit
    stopped         \* System.iterate has returned halt

staging == << stagedPacket, stagedDequeue >>
vars == << scenario, contents, staging, haltRegister, ram, pendingRead, turn, stopped >>

system   == Scenarios[scenario].system
programs == Scenarios[scenario].programs
Elements == system.elements
Buffers  == DOMAIN contents
MemoryTurn == -1
CommitTurn == -2
FollowingTurn(e) == IF e + 1 \in Elements THEN e + 1 ELSE MemoryTurn

Init ==
    /\ scenario \in DOMAIN Scenarios
    /\ contents = [b \in BuffersOf(system) |-> << >>]
    /\ stagedPacket = [b \in Buffers |-> NoPacket]
    /\ stagedDequeue = [b \in Buffers |-> FALSE]
    /\ haltRegister = [e \in Elements |-> FALSE]
    /\ ram \in [0 .. Size - 1 -> {p.data : p \in Packet}]
    /\ pendingRead = [p \in system.readPorts |-> NoPacket]
    /\ turn = 0 /\ stopped = FALSE

-----------------------------------------------------------------------------
Empty(b) == contents[b] = << >>

\* Mutant of Full: a buffer takes one packet too many.
FullTooLate(b) == Len(contents[b]) > Depth(b)

Full(b) == Len(contents[b]) = Depth(b)

\* Dequeues are staged for a set of buffers, enqueues for the domain of a function.
Stage(dequeues, enqueues) ==
    /\ stagedDequeue' = [b \in Buffers |-> stagedDequeue[b] \/ b \in dequeues]
    /\ stagedPacket' = [b \in Buffers |->
          IF b \in DOMAIN enqueues THEN enqueues[b] ELSE stagedPacket[b]]

\* Mutant of Transfers: a packet is passed on to an empty buffer only.
TransfersToEmpty(e) == {l \in system.links : l.by = e /\ ~Empty(l.from) /\ Empty(l.to)}

\* The links on which the software router of e moves a packet: from its sources to
\* its inputs, from its outputs to its destinations.  The router of a neighbour
\* stages the same transfer once more.
Transfers(e) == {l \in system.links : l.by = e /\ ~Empty(l.from) /\ ~Full(l.to)}

Nothing == [dequeues |-> {}, sends |-> << >>, halts |-> FALSE]

\* What the core of e may do: nothing once it has halted, else what its program
\* may do on its channels as they are.
Firings(e) ==
    IF haltRegister[e] THEN {Nothing}
    ELSE {f \in programs[e] : /\ \A b \in f.dequeues : ~Empty(b)
                              /\ \A b \in DOMAIN f.sends : ~Full(b)}

\* Processing element e iterates: its core fires f, then its router moves packets.
Iterate(e, f) ==
    /\ haltRegister' = [haltRegister EXCEPT ![e] = @ \/ f.halts]
    /\ LET moved == Transfers(e)
           into  == {l.to : l \in moved}
           sent  == DOMAIN f.sends
       IN  Stage(f.dequeues \cup {l.from : l \in moved},
                 [b \in into \cup sent |->
                     IF b \in into THEN Head(contents[(CHOOSE l \in moved : l.to = b).from])
                     ELSE f.sends[b]])

IterateElement(e) ==
    /\ turn = e /\ ~stopped
    /\ \E f \in Firings(e) : Iterate(e, f)
    /\ turn' = FollowingTurn(e)
    /\ UNCHANGED << scenario, contents, ram, pendingRead, stopped >>

-----------------------------------------------------------------------------
\* A pending read leaves its port when there is room for it.
Delivers(p) == pendingRead[p] # NoPacket /\ ~Full(Data("read", p))

\* Mutant of Serves: a new request is served although the last answer waits.
ServesOverPending(p) == ~Empty(Addr("read", p))

\* A request is served in the cycle its predecessor leaves, not earlier.
Serves(p) == ~Empty(Addr("read", p)) /\ (pendingRead[p] = NoPacket \/ Delivers(p))

Answer(request) == [tag |-> request.tag, data |-> ram[request.data]]

Writes(w) == ~Empty(Addr("write", w)) /\ ~Empty(Data("write", w))

\* The word at a after the writes, of which the last to an address counts.
Written(a) ==
    LET writers == {w \in WritePorts : Writes(w) /\ Head(contents[Addr("write", w)]).data = a}
    IN  IF writers = {} THEN ram[a]
        ELSE LET last == CHOOSE w \in writers : \A v \in writers : v <= w
             IN  Head(contents[Data("write", last)]).data

IterateMemory ==
    /\ turn = MemoryTurn /\ ~stopped
    /\ LET delivering == {p \in system.readPorts : Delivers(p)}
           writing    == {w \in WritePorts : Writes(w)}
       IN  Stage({Addr("read", p) : p \in {q \in system.readPorts : Serves(q)}}
                   \cup {Addr("write", w) : w \in writing} \cup {Data("write", w) : w \in writing},
                 [b \in {Data("read", p) : p \in delivering} |-> pendingRead[b.port]])
    /\ pendingRead' = [p \in system.readPorts |->
          IF Serves(p) THEN Answer(Head(contents[Addr("read", p)]))
          ELSE IF Delivers(p) THEN NoPacket ELSE pendingRead[p]]
    /\ ram' = [a \in DOMAIN ram |-> Written(a)]
    /\ turn' = CommitTurn
    /\ UNCHANGED << scenario, contents, haltRegister, stopped >>

-----------------------------------------------------------------------------
\* A deque with a maximal length drops its head when it is appended to.
Appended(q, b, packet) ==
    IF Len(q) = Depth(b) THEN Append(Tail(q), packet) ELSE Append(q, packet)

\* Mutant of Committed: a buffer that is dequeued and enqueued does the former only.
CommittedEither(b) ==
    IF stagedDequeue[b] THEN Tail(contents[b])
    ELSE IF stagedPacket[b] = NoPacket THEN contents[b]
    ELSE Appended(contents[b], b, stagedPacket[b])

Committed(b) ==
    LET rest == IF stagedDequeue[b] THEN Tail(contents[b]) ELSE contents[b]
    IN  IF stagedPacket[b] = NoPacket THEN rest ELSE Appended(rest, b, stagedPacket[b])

\* Mutant of Halts: the buffers are looked at before they commit.
HaltsTooEarly == (\A e \in Elements : haltRegister[e]) /\ (\A b \in Buffers : Empty(b))

\* Halt when all cores have halted and all buffers are empty.  The packet a read port
\* has yet to deliver is in no buffer.
Halts ==
    /\ \A e \in Elements : haltRegister[e]
    /\ \A b \in Buffers : Committed(b) = << >>

Commit ==
    /\ turn = CommitTurn /\ ~stopped
    /\ contents' = [b \in Buffers |-> Committed(b)]
    /\ stagedPacket' = [b \in Buffers |-> NoPacket]
    /\ stagedDequeue' = [b \in Buffers |-> FALSE]
    /\ stopped' = Halts
    /\ turn' = 0
    /\ UNCHANGED << scenario, haltRegister, ram, pendingRead >>

Next == (\E e \in Elements : IterateElement(e)) \/ IterateMemory \/ Commit

Spec == Init /\ [][Next]_vars

\* The event loop goes on until it stops.
FairSpec == Spec /\ WF_vars(Next)

-----------------------------------------------------------------------------
Queue(b) == {<< >>} \cup UNION {[1 .. n -> Packet] : n \in 1 .. Depth(b)}

\* Type invariant.  A full buffer is not enqueued into and an empty one not dequeued:
\* the simulator would raise an exception.
TypeOK ==
    /\ \A b \in Buffers : stagedPacket[b] # NoPacket => Len(contents[b]) < Depth(b)
    /\ \A b \in Buffers : stagedDequeue[b] => contents[b] # << >>
    /\ \A b \in Buffers : contents[b] \in Queue(b)
    /\ stagedPacket \in [Buffers -> Packet \cup {NoPacket}]
    /\ stagedDequeue \in [Buffers -> BOOLEAN]
    /\ haltRegister \in [Elements -> BOOLEAN]
    /\ ram \in [0 .. Size - 1 -> {p.data : p \in Packet}]
    /\ pendingRead \in [system.readPorts -> Packet \cup {NoPacket}]
    /\ turn \in Elements \cup {MemoryTurn, CommitTurn} /\ stopped \in BOOLEAN

\* What a buffer will hold when the cycle ends, as far as it has gone.
Pending(b) == Committed(b)

\* The simulator's routers are wired as the hardware's elements and memories are,
\* the program of an element being loaded where the host puts it: every channel goes
\* between the same two buffers, none is shared and none filled from two sides.
WiredAlike(built) ==
    /\ built.wires = Hardware(built)
    /\ \A k \in built.wires, l \in built.wires : k.from = l.from \/ k.to = l.to => k = l
AlikeScenarios    == {s \in DOMAIN Scenarios : WiredAlike(Scenarios[s].system)}
WiredLikeHardware == scenario \in AlikeScenarios

\* Staging and commit cannot be seen from outside: a link with the buffers at its
\* ends is one FIFO, although the cores at its ends use it in the same cycle and both
\* routers stage each transfer.
Traffic(l) == Pending(l.to) \o Pending(l.from)
Channel(l) == INSTANCE PacketFifo
                  WITH q <- Traffic(l), Capacity <- Depth(l.from) + Depth(l.to)
ImplementsChannels ==
    /\ \A l \in system.wires : Channel(l)!Init
    /\ [][\A l \in system.wires : Traffic(l)' = Traffic(l) \/ Channel(l)!Next]_vars

\* The memory answers each request once and in order with the word the memory holds
\* when the request is served, before the writes of that cycle.  No index is cut; a port
\* a system does not have stays unused.
Service == INSTANCE MemoryService WITH
    Reach     <- Size,
    requests  <- [p \in ReadPorts |->
                     IF p \in system.readPorts THEN Pending(Addr("read", p)) ELSE << >>],
    answers   <- [p \in ReadPorts |->
                     IF p \notin system.readPorts THEN << >>
                     ELSE IF pendingRead[p] = NoPacket THEN Pending(Data("read", p))
                     ELSE Append(Pending(Data("read", p)), pendingRead[p])],
    addresses <- [w \in WritePorts |-> Pending(Addr("write", w))],
    data      <- [w \in WritePorts |-> Pending(Data("write", w))]
ImplementsMemory == Service!Spec

\* The simulation does not end with a packet in a buffer or an unfinished write: the
\* memory it reports is final.
StopsAtRest ==
    stopped => /\ \A e \in Elements : haltRegister[e]
               /\ \A b \in Buffers : Empty(b) /\ Pending(b) = << >>

\* No packet can move any more.
AtRest ==
    /\ \A b \in Buffers : Pending(b) = contents[b]
    /\ \A l \in system.wires : Empty(l.from) \/ Full(l.to)
    /\ \A p \in system.readPorts : ~Delivers(p) /\ ~Serves(p)
    /\ \A w \in WritePorts : ~Writes(w)

\* Once all cores have halted, the packets on their way to the memory or from it get
\* as far as they can, and the event loop ends unless one cannot be consumed.
HaltedSystemSettles ==
    (\A e \in Elements : haltRegister[e]) ~> (stopped \/ AtRest)
=============================================================================
