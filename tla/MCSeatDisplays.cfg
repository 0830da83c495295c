SPECIFICATION Spec
CONSTANTS
    Users = {u1, u2}
    Nobody = Nobody
    Ids = {d1, d2, d3}
    NoReuse = NoReuse
    LostSession = LostSession
    LastVt = 3
    MaxQuietEnds = 1
SYMMETRY Symmetry
INVARIANT TypeOK
PROPERTIES
    ReturnsToReused
    FollowsLast
CHECK_DEADLOCK FALSE
