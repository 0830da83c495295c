SPECIFICATION FairSpec
CONSTANTS
    GreeterUser = plasmalogin
    NoUser = NoUser
    Users = {u1}
    Windows = {w1}
    MaxLogins = 2
    MaxRounds = 2
    PromptCounts = {1, 2, 3}
    SessionExits = {0}
    GreeterExits = {}
    Signals = {}
    Faults = {}
    HasAutologin = TRUE
    Relogin = FALSE
PROPERTIES
    BlockedHelperIsAnswered
    DisplayComesBack
    RejectionIsTold
CHECK_DEADLOCK FALSE
