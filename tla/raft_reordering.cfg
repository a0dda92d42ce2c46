CONSTANTS
    Node = {n1, n2, n3}
    Value = {v1, v2, v3}
    Nil = Nil
    Ordered = FALSE
    MaxTerm = 2
    MaxInFlight = 2
    MaxCrashes = 0
    LeaderOnly = TRUE
SPECIFICATION LedSpec
SYMMETRY Symmetry
VIEW View
CHECK_DEADLOCK FALSE
INVARIANTS StateMachineSafety
