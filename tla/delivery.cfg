SPECIFICATION ServiceSpec
CONSTANTS
    v1 = v1
    Nil = Nil
    Caller = {}
    Value = {v1}
    Endpoints = 1
    PROPOSAL_CHANNEL_CAPACITY = 1
    DECISION_CHANNEL_CAPACITY = 1
    DECISION_BROADCAST_CAPACITY = 1
    MaxSlot = 2
    MaxBatch = 2
    Start = {0, 1}
    MaxFailures = 2
CHECK_DEADLOCK FALSE
INVARIANTS
    ServiceTypeOK
    WatchInOrder
    PagesReachWatch
PROPERTY
    WatchDelivers
