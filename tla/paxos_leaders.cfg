CONSTANTS
    Node = {1, 2, 3}
    Value = {v1}
    Nil = Nil
    MaxSlot = 0
    MultiPaxos = TRUE
    MaxRound = 1
    MaxInFlight = 1
    MaxCrashes = 0
SPECIFICATION Spec
SYMMETRY Symmetry
CHECK_DEADLOCK FALSE
INVARIANT LeaderHoldsQuorum
