SPECIFICATION Spec
CONSTANTS
    v1 = v1
    v2 = v2
    v3 = v3
    Images <- ThreeImages
    BaseImage = v1
    Absent = Absent
    MaxStarts = 3
    MaxFaults = 2
    MaxSignals = 1
    MaxDeaths = 2
INVARIANTS
    IInv
    SelectionRuns
    
PROPERTIES
    SwitchIsAtomic
    Recovers
CHECK_DEADLOCK FALSE
