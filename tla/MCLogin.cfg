SPECIFICATION Spec
CONSTANTS
    GreeterUser = plasmalogin
    NoUser = NoUser
    Users = {u1, u2}
    Windows = {w1, w2}
    MaxLogins = 2
    MaxRounds = 1
    PromptCounts = {1, 2}
    SessionExits = {0, 1}
    GreeterExits = {0, 2, 4, 5}
    Signals = {1}
    Faults = {"spawn", "chown", "session", "greeter", "hangs", "entry"}
    HasAutologin = TRUE
    Relogin = FALSE
SYMMETRY UsersAndWindows
INVARIANTS
    TypeOK
    SessionVtApart
    ResponsesMatchAttempt
    UnlocksOwnSession
PROPERTIES
    SessionSurvives
    ImplementsProtocol
CHECK_DEADLOCK FALSE
