SPECIFICATION Spec
CONSTANTS
    c1 = c1
    c2 = c2
    v1 = v1
    v2 = v2
    Nil = Nil
    Caller = {c1, c2}
    Value = {v1, v2}
    Endpoints = 2
    PROPOSAL_CHANNEL_CAPACITY = 1
    DECISION_CHANNEL_CAPACITY = 1
    MaxSlot = 1
    MaxBatch = 2
CHECK_DEADLOCK FALSE
INVARIANTS
    TypeOK
    AnswersTrue
    SlotsNotShared
    NotStranded
    RefusedNotProposed
PROPERTY
    EndAnswers
