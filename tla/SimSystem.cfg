SPECIFICATION FairSpec
CONSTANTS
    Scenarios <- MCScenarios
    ChannelDepth = 1
    PortDepth = 2
    ReadPorts = {0, 1, 2, 3}
    Packet <- MCPackets
    NoPacket = NoPacket
    Size = 1
INVARIANTS TypeOK WiredLikeHardware StopsAtRest
PROPERTIES ImplementsChannels ImplementsMemory HaltedSystemSettles
CHECK_DEADLOCK FALSE
