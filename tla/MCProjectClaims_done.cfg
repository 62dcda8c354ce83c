SPECIFICATION Spec
CONSTANTS
    w1 = w1
    w2 = w2
    o1 = o1
    o2 = o2
    t1 = t1
    t2 = t2
    Nobody = Nobody
    Workers <- TwoWorkers
    Operators <- TwoOperators
    Tasks <- TwoTasks
    Plan <- OneTask
    Needs <- Chain
    MaxAttempts = 2
    MaxOperations = 1
INVARIANT DoneMeansDone
SYMMETRY Symmetry
CHECK_DEADLOCK FALSE
