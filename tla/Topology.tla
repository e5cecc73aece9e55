------------------------------ MODULE Topology ------------------------------
(***************************************************************************)
(* Who is connected to whom.  The simulator wires routers by method calls, *)
(* element by element; the hardware wires ports to nets, quartet by         *)
(* quartet.  Both describe the test systems of one processing element, of   *)
(* a quartet and of a block, whose elements are numbered row by row.        *)
(***************************************************************************)
EXTENDS Integers

North == 0
East  == 1
South == 2
West  == 3
Directions == {North, East, South, West}
Reverse(d) == (d + 2) % 4

\* Buffers: the input and output channel buffers of an element, one for each
\* direction, and those of the read and write ports of the memory.
In(e, d)     == [element |-> e, direction |-> d, channel |-> "in"]
Out(e, d)    == [element |-> e, direction |-> d, channel |-> "out"]
Addr(kind, p) == [port |-> p, kind |-> kind, channel |-> "addr"]
Data(kind, p) == [port |-> p, kind |-> kind, channel |-> "data"]

-----------------------------------------------------------------------------
(* The simulator: source_buffers and destination_buffers of the routers, as  *)
(* sets of [at, direction, buffer].                                          *)

Slot(e, d, b) == [at |-> e, direction |-> d, buffer |-> b]

Nowhere == [sources |-> {}, destinations |-> {}]
Joined(calls) == [sources      |-> UNION {c.sources : c \in calls},
                  destinations |-> UNION {c.destinations : c \in calls}]

connect_to_sender_channel_buffer(e, d, b)   == [Nowhere EXCEPT !.sources = {Slot(e, d, b)}]
connect_to_receiver_channel_buffer(e, d, b) == [Nowhere EXCEPT !.destinations = {Slot(e, d, b)}]

connect_to_processing_element(e, d, f) ==
    [sources      |-> {Slot(e, d, Out(f, Reverse(d)))},
     destinations |-> {Slot(e, d, In(f, Reverse(d)))}]

connect_processing_elements(a, b, d) ==
    Joined({connect_to_processing_element(a, d, b),
            connect_to_processing_element(b, Reverse(d), a)})

\* The pairs of a square of four that are neighbours in a direction.
Neighbours == {[a |-> 0, b |-> 1, d |-> East], [a |-> 2, b |-> 3, d |-> East],
               [a |-> 0, b |-> 2, d |-> South], [a |-> 1, b |-> 3, d |-> South]}

\* A quartet is its elements, a block its quartets.
Quartet(row, column, columns) ==
    [k \in 0 .. 3 |-> (row + k \div 2) * columns + column + (k % 2)]
Block(row, column, columns) ==
    [q \in 0 .. 3 |-> Quartet(2 * (row \div 2 + q \div 2), 2 * (column \div 2 + (q % 2)), columns)]

QuartetWiring(quartet) ==
    Joined({connect_processing_elements(quartet[n.a], quartet[n.b], n.d) : n \in Neighbours})

\* Mutant of connect_quartets: both elements are taken from the same side.
connect_quartets_same_side(a, b, d) ==
    Joined({connect_processing_elements(
                IF d \in {North, South} THEN a[i] ELSE a[i * 2],
                IF d \in {North, South} THEN b[i] ELSE b[i * 2], d) : i \in 0 .. 1})

connect_quartets(a, b, d) ==
    Joined({connect_processing_elements(
                CASE d = North -> a[0 * 2 + i] [] d = East -> a[i * 2 + 1]
                  [] d = South -> a[1 * 2 + i] [] d = West -> a[i * 2 + 0],
                CASE d = North -> b[1 * 2 + i] [] d = East -> b[i * 2 + 0]
                  [] d = South -> b[0 * 2 + i] [] d = West -> b[i * 2 + 1],
                d) : i \in 0 .. 1})

BlockWiring(block) ==
    Joined({QuartetWiring(block[q]) : q \in 0 .. 3}
           \cup {connect_quartets(block[n.a], block[n.b], n.d) : n \in Neighbours})

\* A read port at the side of an element, and the two halves of the write port.
ReadPortWiring(e, d, p) ==
    Joined({connect_to_receiver_channel_buffer(e, d, Addr("read", p)),
            connect_to_sender_channel_buffer(e, d, Data("read", p))})
WritePortWiring(a, da, b, db) ==
    Joined({connect_to_receiver_channel_buffer(a, da, Addr("write", 0)),
            connect_to_receiver_channel_buffer(b, db, Data("write", 0))})

\* A built system: links, [from, to, by], are what the routers move packets along,
\* wires the connections they make, most of them known to the routers at both ends.
Built(elements, readPorts, wiring) ==
    LET links == {[from |-> s.buffer, to |-> In(s.at, s.direction), by |-> s.at] :
                     s \in wiring.sources}
                 \cup {[from |-> Out(s.at, s.direction), to |-> s.buffer, by |-> s.at] :
                     s \in wiring.destinations}
    IN  [elements  |-> 0 .. elements - 1,
         readPorts |-> 0 .. readPorts - 1,
         links     |-> links,
         wires     |-> {[from |-> l.from, to |-> l.to] : l \in links}]

build_pets_system ==
    Built(1, 2, Joined({ReadPortWiring(0, North, 0), ReadPortWiring(0, East, 1),
                        WritePortWiring(0, South, 0, West)}))

build_qts_system ==
    LET quartet == Quartet(0, 0, 2)
    IN  Built(4, 2, Joined({QuartetWiring(quartet),
                            ReadPortWiring(quartet[0], North, 0),
                            ReadPortWiring(quartet[1], North, 1),
                            WritePortWiring(quartet[2], South, quartet[3], South)}))

build_bts_system ==
    LET block == Block(0, 0, 4)
    IN  Built(16, 4, Joined({BlockWiring(block),
                             ReadPortWiring(block[0][0], North, 0),
                             ReadPortWiring(block[0][1], North, 1),
                             ReadPortWiring(block[1][0], North, 2),
                             ReadPortWiring(block[1][1], North, 3),
                             WritePortWiring(block[2][2], South, block[2][3], South)}))

-----------------------------------------------------------------------------
(* The hardware: every port of a module is connected to a net.  Child k of a *)
(* square of four is in row k div 2 and column k mod 2; a net is one of the  *)
(* square's own, bound in a direction, or one of the links at its edge.      *)

Inside(bound, lane)  == [links |-> "bound", direction |-> bound, lane |-> lane]
Edge(d, way, lane)   == [links |-> way,     direction |-> d,     lane |-> lane]

\* The row or the column along which child k meets its neighbour in direction d.
Lane(k, d)    == IF d \in {North, South} THEN k % 2 ELSE k \div 2
AtEdge(k, d) ==
    CASE d = North -> k \div 2 = 0 [] d = South -> k \div 2 = 1
      [] d = West  -> k % 2 = 0    [] d = East  -> k % 2 = 1

\* The net of a child's port: what it sends in direction d is bound in that
\* direction, what it receives from there in the reverse one.
PortNet(k, d, way) ==
    IF AtEdge(k, d) THEN Edge(d, way, Lane(k, d))
    ELSE Inside(IF way = "out" THEN d ELSE Reverse(d), Lane(k, d))

\* Where program i goes: get_logical_processing_element in a block, element i
\* in a quartet.
Located(scale, i) ==
    LET row    == i \div 4
        column == i % 4
    IN  IF scale = "block"
        THEN [quartet |-> 2 * (row \div 2) + (column \div 2),
              element |-> 2 * (row % 2) + (column % 2)]
        ELSE [quartet |-> 0, element |-> i]

\* The net of a port of element i, with the module that declares it: one of the
\* quartets, or what is around them.  A quartet's edge has two lanes, a block's
\* four: lanes 2 * l and 2 * l + 1 are those of the quartet in row or column l.

Around == 4
Net(scale, i, d, way) ==
    LET at  == Located(scale, i)
        net == PortNet(at.element, d, way)
    IN  IF net.links = "bound" THEN [owner |-> at.quartet, net |-> net]
        ELSE [owner |-> Around,
              net   |-> IF scale = "quartet" THEN net
                        ELSE [PortNet(at.quartet, d, way) EXCEPT !.lane = 2 * @ + net.lane]]

\* The links of the system module: elements meet on a net; lane l of the north
\* belongs to read port l, lanes 0 and 1 of the south are the write port.
HardwareLinks(scale, elements) ==
    LET Lanes == 0 .. (IF scale = "block" THEN 3 ELSE 1)
        Ports(d, l, way) ==
            {i \in elements : Net(scale, i, d, way) = [owner |-> Around, net |-> Edge(d, way, l)]}
        Receivers(net) == {x \in elements \X Directions : Net(scale, x[1], x[2], "in") = net}
    IN  UNION {{[from |-> Out(i, d), to |-> In(x[1], x[2])] :
                    x \in Receivers(Net(scale, i, d, "out"))} : i \in elements, d \in Directions}
        \cup UNION {{[from |-> Out(i, North), to |-> Addr("read", l)] : i \in Ports(North, l, "out")}
                    : l \in Lanes}
        \cup UNION {{[from |-> Data("read", l), to |-> In(i, North)] : i \in Ports(North, l, "in")}
                    : l \in Lanes}
        \cup {[from |-> Out(i, South), to |-> Addr("write", 0)] : i \in Ports(South, 0, "out")}
        \cup {[from |-> Out(i, South), to |-> Data("write", 0)] : i \in Ports(South, 1, "out")}

\* A single element's links go straight to the memory.
SingleHardwareLinks ==
    {[from |-> Out(0, North), to |-> Addr("read", 0)], [from |-> Data("read", 0), to |-> In(0, North)],
     [from |-> Out(0, East), to |-> Addr("read", 1)],  [from |-> Data("read", 1), to |-> In(0, East)],
     [from |-> Out(0, South), to |-> Addr("write", 0)],
     [from |-> Out(0, West), to |-> Data("write", 0)]}

\* The hardware system a simulated one stands for.
Hardware(system) ==
    IF system.elements = {0} THEN SingleHardwareLinks
    ELSE HardwareLinks(IF 15 \in system.elements THEN "block" ELSE "quartet", system.elements)
=============================================================================
