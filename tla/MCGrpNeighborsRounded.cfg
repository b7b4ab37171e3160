CONSTANTS
    n1 = n1
    n2 = n2
    Nodes <- MCNodes
    AntNodes <- MCAntNodes
    HelloStarts <- MCHelloStarts
    HelloInterval = 2
    VTime = 3
    MaxJitter = 1
    MaxSeq = 1
    MaxBatch = 2
SPECIFICATION Spec
INVARIANT
    ExpiredIsCleaned
