SPECIFICATION Spec
CONSTANTS
    w1 = w1
    w2 = w2
    w3 = w3
    Processes <- ThreeWorkers
    Deliverers <- ThreeWorkers
    Home <- OneEach
    Nobody = Nobody
    SideEffecting = FALSE
    MaxDeliveries = 4
    MaxRetries = 0
    MaxCrashes = 1
    MaxFaults = 1
    ResultsDecay = FALSE
SYMMETRY Symmetry
INVARIANT
    ResultsAgree
    ReadOnlyNeverStuck
PROPERTY
    ContractSpec
CHECK_DEADLOCK FALSE
