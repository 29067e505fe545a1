SPECIFICATION Spec
CONSTANTS
    Tickets = {t1, t2}
    Claims = {c1, c2, c3}
    Servers = {s1}
    MaxTickets = 1
    MaxRepairs = 0
    MaxFallbacks = 0
    MaxFaults = 0
    NoTicket = NoTicket
    NoClaim = NoClaim
SYMMETRY Symmetry
INVARIANT RedriveIsNoConflict
