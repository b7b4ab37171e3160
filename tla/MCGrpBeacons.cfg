CONSTANTS
    n1 = n1
    n2 = n2
    Nodes <- MCNodes
    AntNodes <- MCAntNodes
    HelloStarts <- MCHelloStarts
    HelloInterval = 2
    VTime = 2
    MaxJitter = 1
    MaxSeq = 1
    MaxBatch = 2
    Exponents = 4
    Validities <- MCValidities
    NeighborCounts = {0, 5}
    JunctionCounts = {1, 2}
    MaxMessages = 2
    MaxDatagram = 200
SPECIFICATION MCSpec
INVARIANTS
    TypeOK
    EntryIsFresh
    SymmetricMeansHeard
    GapBounded
    FramingKept
    BodiesIntact
    ValidityKept
