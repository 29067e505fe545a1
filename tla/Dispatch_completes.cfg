SPECIFICATION FairSpec
CONSTANTS
    Tickets = {t1, t2}
    Claims = {c1, c2}
    Servers = {s1}
    MaxTickets = 1
    MaxRepairs = 0
    MaxFallbacks = 0
    MaxFaults = 1
    NoTicket = NoTicket
    NoClaim = NoClaim
INVARIANTS
    DispatchWithinCapacity
    RaisedMeansOpen
PROPERTY EveryClaimCompletes
