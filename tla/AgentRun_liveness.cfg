SPECIFICATION FairSpec
CONSTANTS
    Tickets = {t1}
    Implemented = {}
    Runs = {r1, r2}
    Providers = {p1, p2}
    Invokers = {i1, i2}
    Limit <- LimitOne
    Replays = FALSE
    NoRun = NoRun
    Free = Free
INVARIANTS
    LiveProviderHoldsSlot
    OneImplementationLaunch
PROPERTIES
    EverySlotReturns
    ImplementsLease
CHECK_DEADLOCK FALSE
