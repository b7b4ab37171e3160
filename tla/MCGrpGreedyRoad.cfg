CONSTANTS
    N = 3
    RoadLength = 18
    Places = {0, 2, 7, 8, 10, 16}
    RSSIDistanceThreshold = 11
    RoadWidth = 1
    JunAreaRadius = 7
    Drift = 2
    MaxHops = 3
SPECIFICATION GreedySpec
CHECK_DEADLOCK FALSE
INVARIANT
    KeepsToRoad
