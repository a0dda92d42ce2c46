CONSTANTS
    Node = {1, 2, 3}
    Value = {v1, v2}
    Nil = Nil
    MaxSlot = 0
    MultiPaxos = FALSE
    MaxRound = 1
    MaxInFlight = 3
    MaxCrashes = 0
SPECIFICATION Spec
SYMMETRY Symmetry
CHECK_DEADLOCK FALSE
INVARIANT Agreement
