\* Two screens; the files change twice.
CONSTANTS
    Candidates <- MCCandidates
    AtFirst <- MCAtFirst
    Spelling <- MCSpelling
    PlasmaFiles <- MCPlasmaFiles
    Preselected = 0
    Windows = {w1, w2}
    NoEntry = NoEntry
    MaxChanges = 2
    MaxAsked = 1
SPECIFICATION Spec
SYMMETRY SameScreens
INVARIANTS
    TypeOK
    DistinctEntries
PROPERTIES
    StartsTheShown
    RemembersSession
