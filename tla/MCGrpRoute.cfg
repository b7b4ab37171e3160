CONSTANTS
    JuncNum = 4
    rsujid = 0
    Weights = {1, 4}
    INF = 100
    N = 3
    RoadLength = 18
    Places = {0, 2, 7, 8, 10, 16}
    RSSIDistanceThreshold = 11
    RoadWidth = 1
    JunAreaRadius = 7
    Drift = 2
    MaxHops = 3
SPECIFICATION MCSpec
INVARIANTS
    PathIsShortest
    RoutesUseRoads
    BestNeighbour
    ReturnsOnlyWithNewGoal
    LoopsAreShort
PROPERTY
    SearchEnds
