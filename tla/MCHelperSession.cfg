SPECIFICATION FairSpec
CONSTANTS
    Kinds = {"x11", "wayland", "greeter", "check"}
INVARIANTS
    TypeOK
    NothingLeftBehind
    PamClosedLast
    PamReleased
PROPERTIES
    SessionEndsTogether
    PamClosedInTheEnd
CHECK_DEADLOCK FALSE
