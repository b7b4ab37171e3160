CONSTANTS
    testnum = 3
    runtimes = 2
    steplen = 500
    firstK = 500
    MaxCrashes = 2
SPECIFICATION Spec
CHECK_DEADLOCK FALSE
INVARIANTS
    ParametersMatchNumber
    RepeatsAreCrashes
PROPERTY
    BatchEnds
