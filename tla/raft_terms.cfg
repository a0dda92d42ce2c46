CONSTANTS
    Node = {n1, n2, n3}
    Value = {v1, v2}
    Nil = Nil
    Ordered = TRUE
    MaxTerm = 4
    MaxInFlight = 1
    MaxCrashes = 0
    LeaderOnly = TRUE
SPECIFICATION AppendedSpec
SYMMETRY Symmetry
VIEW View
CHECK_DEADLOCK FALSE
INVARIANTS LeaderCompleteness StateMachineSafety
