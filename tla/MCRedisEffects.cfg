SPECIFICATION Spec
CONSTANTS
    h1 = h1
    h2 = h2
    h3 = h3
    Processes <- ThreeHosts
    Nobody = Nobody
    SideEffecting = TRUE
    MaxDeliveries = 3
    MaxRetries = 2
    MaxLapses = 2
    MaxCrashes = 1
    MaxFaults = 1
SYMMETRY Symmetry
INVARIANTS
    IInv
    AtMostOnce
    ResultsAgree
PROPERTIES
    
    ReviewCoversStarts
    ContractSpec
CHECK_DEADLOCK FALSE
