CONSTANTS
    v1 = v1
    v2 = v2
    p1 = p1
    p2 = p2
    Sink = sink
    Vehicles <- MCVehicles
    PacketIds <- MCPackets
    SourceOf <- MCSourceOf
    DefaultTtl = 5
    CarryTimeThreshold = 2
SPECIFICATION FairSpec
INVARIANTS
    TypeOK
    OneCopyOfEachPacket
    HeaderMatchesReceiver
    TtlDropsAreReported
    SendingQueueIsServed
    NoStaleCarryTime
PROPERTY
    PacketsComeToRest
    ImplementsPacketLife
