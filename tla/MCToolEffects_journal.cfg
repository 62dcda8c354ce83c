SPECIFICATION Spec
CONSTANTS
    w1 = w1
    w2 = w2
    w3 = w3
    Processes <- ThreeWorkers
    Deliverers <- ThreeWorkers
    Home <- OneEach
    Nobody = Nobody
    SideEffecting = TRUE
    MaxDeliveries = 1
    MaxRetries = 0
    MaxCrashes = 0
    MaxFaults = 0
    ResultsDecay = FALSE
INVARIANT
    JournalLeads
CHECK_DEADLOCK FALSE
