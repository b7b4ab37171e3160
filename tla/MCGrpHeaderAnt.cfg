CONSTANTS
    Exponents = 4
    Validities <- MCValidities
    NeighborCounts = {0, 5}
    JunctionCounts = {1, 2}
    MaxMessages = 1
    MaxDatagram = 200
SPECIFICATION HeaderSpec
CHECK_DEADLOCK FALSE
INVARIANT
    AntCarriesHello
