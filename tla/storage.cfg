CONSTANTS
    Value = {v1}
    Name = {a, b}
    Incarnation = {1}
    Term = {1, 2}
    Slot = {0}
    MaxLog = 2
    Nil = Nil
SPECIFICATION Spec
INVARIANTS LoadsSucceed LogContiguous
PROPERTY ImplementsTraits
