SPECIFICATION Spec
CONSTANTS
    Pictures = {p1, p2}
    NoPicture = NoPicture
    Others = {v0, v1}
    Default = v0
    Files = {kdeglobals}
    Contents = {c1}
    Absent = Absent
    Torn = Torn
    Faults = {}
    MaxJobs = 3
    MaxEdits = 2
INVARIANT
    PictureKept
CHECK_DEADLOCK FALSE
