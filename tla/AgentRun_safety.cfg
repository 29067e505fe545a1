SPECIFICATION Spec
CONSTANTS
    Tickets = {t1}
    Implemented = {t1}
    Runs = {r1, r2}
    Providers = {p1, p2}
    Invokers = {i1, i2}
    Limit <- LimitOne
    Replays = TRUE
    NoRun = NoRun
    Free = Free
SYMMETRY Symmetry
INVARIANTS
    TypeOK
    SingleActiveRun
    CapacityLedger
    RefusedRunHoldsNoSlot
    OneLaunchPerCall
PROPERTIES
    RecoveredRunIsInert
CHECK_DEADLOCK FALSE
