SPECIFICATION Spec
CONSTANTS
    ReadPorts = {rp0}
    Packet <- OddPackets
    Arriving <- SomeOddPackets
    NoPacket = NoPacket
    Size = 3
    Reach = 4
    Depth = 2
PROPERTIES ImplementsMemory
