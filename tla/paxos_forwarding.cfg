CONSTANTS
    Node = {1, 2}
    Value = {v1, v2, v3}
    Nil = Nil
    MaxSlot = 2
    MultiPaxos = TRUE
    MaxRound = 2
    MaxInFlight = 1
    MaxCrashes = 1
SPECIFICATION LedSpec
SYMMETRY Symmetry
CONSTRAINT ReplaysOnly
CHECK_DEADLOCK FALSE
INVARIANT SlotsFresh
