SPECIFICATION Spec
CONSTANTS
    GreeterUser = plasmalogin
    NoUser = NoUser
    Users = {u1, u2}
    Windows = {w1}
    MaxLogins = 2
    MaxRounds = 1
    PromptCounts = {1}
    SessionExits = {0}
    GreeterExits = {0}
    Signals = {}
    Faults = {}
    HasAutologin = FALSE
    Relogin = FALSE
INVARIANT
    ReuseStartsNoSession
CHECK_DEADLOCK FALSE
