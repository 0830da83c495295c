SPECIFICATION Spec
CONSTANTS
    Screens = {s1, s2}
    NoScreen = NoScreen
    Users = {u1, u2}
    Empty = Empty
    Unnamed = Unnamed
    MaxRequests = 1
SYMMETRY Symmetry
INVARIANTS
    TypeOK
    BoxesAgree
    PasswordForListedUser
    TimerWaits
PROPERTIES
    CancelClears
CHECK_DEADLOCK FALSE
