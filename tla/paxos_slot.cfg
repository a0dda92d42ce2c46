CONSTANTS
    Node = {1, 2, 3}
    Value = {v1, v2}
    Nil = Nil
    MaxSlot = 0
    MultiPaxos = FALSE
    MaxRound = 2
    MaxInFlight = 2
    MaxCrashes = 1
SPECIFICATION Spec
SYMMETRY Symmetry
CONSTRAINT RetriesBetweenTwo
CHECK_DEADLOCK FALSE
INVARIANTS TypeOK OwnValueAccepted DecidedOnce
