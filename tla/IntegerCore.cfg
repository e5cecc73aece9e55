SPECIFICATION FairSpec
CONSTANTS
    WordWidth = 2
    Registers = {0, 1}
    Predicates = {0, 1}
    InputChannels = {0}
    OutputChannels = {0}
    Tags = {0, 1}
    ScratchpadDepth = 2
    ChannelDepth = 2
    NoPacket = NoPacket
    Arriving <- SmallPackets
    Programs <- SmallPrograms
    HasSpeculativePredicateUnit = TRUE
    HasFullInformation = TRUE
INVARIANTS TypeOK SpeculationTracksWriter SpeculationIsReversible SingleRetirement ChannelsRespected
PROPERTIES ImplementsMachine ReadyIsServed
