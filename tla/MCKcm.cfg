SPECIFICATION Spec
CONSTANTS
    Pictures = {p1, p2}
    NoPicture = NoPicture
    Others = {v0, v1}
    Default = v0
    Files = {kdeglobals}
    Contents = {c1, c2}
    Absent = Absent
    Torn = Torn
    Faults = {"denied", "file", "large", "home", "link", "owner", "fork", "remove", "unreadable", "picture", "short", "copy"}
    MaxJobs = 2
    MaxEdits = 2
INVARIANTS
    TypeOK
    OwnedByGreeter
    ChosenPictureInstalled
    LastJobHolds
SYMMETRY Symmetry
CHECK_DEADLOCK FALSE
