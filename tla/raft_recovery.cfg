CONSTANTS
    Node = {n1, n2, n3}
    Value = {v1, v2}
    Nil = Nil
    Ordered = TRUE
    MaxTerm = 2
    MaxInFlight = 2
    MaxCrashes = 1
    LeaderOnly = FALSE
SPECIFICATION LedSpec
SYMMETRY Symmetry
VIEW View
CHECK_DEADLOCK FALSE
INVARIANTS ElectionSafety DecidedOnQuorum StorageMirrorsMemory DecidedUpToCommit DecidedAtMostOnce
PROPERTY NothingForgotten
