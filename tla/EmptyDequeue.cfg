SPECIFICATION Spec
CONSTANTS
    Packet = {p1, p2}
    NoPacket = NoPacket
    Depth = 2
    GuardedDequeues = FALSE
PROPERTIES EmptyDequeueIgnored
