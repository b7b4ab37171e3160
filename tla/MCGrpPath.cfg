CONSTANTS
    Junctions <- MCJunctions
    Roads <- MCRoads
    Rsu = 3
    OffMap = 65535
SPECIFICATION Spec
INVARIANTS
    OverrunOnlyAtRsu
    JunctionAimLeadsToRsu
