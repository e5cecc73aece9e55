SPECIFICATION Spec
CONSTANTS
    Packet = {p1, p2}
    NoPacket = NoPacket
    Depth = 4
    GuardedDequeues = TRUE
INVARIANTS TypeOK RingConsistent
PROPERTIES ImplementsPacketFifo LookaheadIsNextHead
