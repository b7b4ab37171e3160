CONSTANTS
    RoadLength = 6
    JunAreaRadius = 2
    MaxSpeed = 1
    TrailLen = 3
    HelloStarts <- MCHelloStarts
    CheckStart = 2
    HelloInterval = 3
    AntInterval = 3
    PositionInterval = 2
    MaxJitter = 1
    MaxSeq = 1
    MaxMsgs = 2
    AntsPerTick = 1
SPECIFICATION Spec
INVARIANT
    AreaMeansTagged
