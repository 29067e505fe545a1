SPECIFICATION Spec
CONSTANTS
    Tickets = {t1}
    Claims = {c1, c2}
    Servers = {s1, s2}
    MaxTickets = 1
    MaxRepairs = 1
    MaxFallbacks = 1
    MaxFaults = 1
    NoTicket = NoTicket
    NoClaim = NoClaim
SYMMETRY Symmetry
INVARIANTS
    TypeOK
    OneImplementer
    OnlyTheBoundRuns
PROPERTY ImplementsLog
