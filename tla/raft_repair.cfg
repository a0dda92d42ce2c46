CONSTANTS
    Node = {n1, n2, n3}
    Value = {v1, v2, v3}
    Nil = Nil
    Ordered = TRUE
    MaxTerm = 2
    MaxInFlight = 1
    MaxCrashes = 0
    LeaderOnly = FALSE
SPECIFICATION Spec
SYMMETRY Symmetry
VIEW View
CHECK_DEADLOCK FALSE
INVARIANTS TypeOK LogMatching HintsRewind DecidedAtMostOnce
