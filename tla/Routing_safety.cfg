SPECIFICATION Spec
CONSTANTS
    Providers = {1}
    Family <- MCFamily
    Runs = {r1, r2}
    NoRun = NoRun
    Procs = {c1, c2}
    StaleAfter = 2
    MaxTime = 4
    MaxChanges = 1
    MaxUsage = 1
SYMMETRY Symmetry
INVARIANTS
    TypeOK
    ActiveRunsAreReservations
PROPERTIES
    RefreshRevokes
    FailuresAreKept
CHECK_DEADLOCK FALSE
