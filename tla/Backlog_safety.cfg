SPECIFICATION Spec
CONSTANTS
    Tickets = {1, 2, 3}
    Files <- MCFiles
    Syncers = {s1, s2}
    MaxConcurrent = 1
    MaxEdits = 2
    MaxSuggestions = 1
SYMMETRY Symmetry
INVARIANTS
    TypeOK
    SyncedIsApproved
    NothingStartsEarly
    SomebodyCanGo
CHECK_DEADLOCK FALSE
