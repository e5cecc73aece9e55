SPECIFICATION FairSpec
CONSTANTS
    ReadPorts = {rp0}
    Packet <- SmallPackets
    Arriving <- SomePackets
    NoPacket = NoPacket
    Size = 2
    Reach = 2
    Depth = 2
INVARIANTS TypeOK AnswerFits
PROPERTIES ImplementsMemory RequestsServed
