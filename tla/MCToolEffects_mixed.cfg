SPECIFICATION FairSpec
CONSTANTS
    w1 = w1
    w2 = w2
    w3 = w3
    Processes <- ThreeWorkers
    Deliverers <- ThreeWorkers
    Home <- Paired
    Nobody = Nobody
    SideEffecting = TRUE
    MaxDeliveries = 3
    MaxRetries = 2
    MaxCrashes = 1
    MaxFaults = 1
    ResultsDecay = TRUE
PROPERTIES
    
    ReviewCoversStarts
    Answered
CHECK_DEADLOCK FALSE
