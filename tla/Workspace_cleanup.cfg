SPECIFICATION Spec
CONSTANTS
    Tickets = {t1}
    Rows = {r1, r2}
    Callers = {i1, i2, i3}
    MaxTickets = 1
    MaxCrashes = 1
    NoTicket = NoTicket
    NoRow = NoRow
SYMMETRY Symmetry
PROPERTY CleanupSparesReady
CHECK_DEADLOCK FALSE
