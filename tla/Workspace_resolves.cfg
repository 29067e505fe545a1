SPECIFICATION FairSpec
CONSTANTS
    Tickets = {t1}
    Rows = {r1, r2}
    Callers = {i1, i2}
    MaxTickets = 1
    MaxCrashes = 1
    NoTicket = NoTicket
    NoRow = NoRow
PROPERTY ReservationResolves
CHECK_DEADLOCK FALSE
