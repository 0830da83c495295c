SPECIFICATION Spec
CONSTANTS
    Seats = {seat0, seat1}
    Seat0 = seat0
    MaxEvents = 5
    MaxDisplays = 2
INVARIANTS
    TypeOK
    OneSeatEach
    SettledAgreement
CHECK_DEADLOCK FALSE
