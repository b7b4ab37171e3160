CONSTANTS
    v1 = v1
    v2 = v2
    v3 = v3
    j1 = j1
    j2 = j2
    j3 = j3
    Vehicles <- MCVehicles
    Launchers <- MCLaunchers
    Junctions <- MCJunctions
    MaxPathLength = 4
    MaxAnts = 1
SPECIFICATION Spec
SYMMETRY MCSymmetry
CHECK_DEADLOCK FALSE
INVARIANTS
    CopiesAgree
    DepositedOnce
    OneLiveCopy
PROPERTY
    PassingOnIsProgress
