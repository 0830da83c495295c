SPECIFICATION GreeterSpec
CONSTANTS
    Greeters = {g1, g2, g3}
    WithVt = {g1, g2}
    NoGreeter = NoGreeter
SYMMETRY SameKind
INVARIANTS
    GreeterTypeOK
    NothingKept
PROPERTY
    OwnEnvironment
CHECK_DEADLOCK FALSE
