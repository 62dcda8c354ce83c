SPECIFICATION Spec
CONSTANTS
    w1 = w1
    w2 = w2
    w3 = w3
    Processes <- ThreeWorkers
    Deliverers <- ThreeWorkers
    Home <- OneEach
    Nobody = Nobody
    SideEffecting = TRUE
    MaxDeliveries = 4
    MaxRetries = 1
    MaxCrashes = 1
    MaxFaults = 1
    ResultsDecay = FALSE
SYMMETRY Symmetry
INVARIANTS
    IInv
    AtMostOnce
    
    ResultsAgree
PROPERTIES
    Settled
    ContractSpec
CHECK_DEADLOCK FALSE
