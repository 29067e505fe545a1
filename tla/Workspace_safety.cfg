SPECIFICATION Spec
CONSTANTS
    Tickets = {t1, t2}
    Rows = {r1, r2}
    Callers = {i1, i2}
    MaxTickets = 1
    MaxCrashes = 1
    NoTicket = NoTicket
    NoRow = NoRow
SYMMETRY Symmetry
INVARIANTS
    TypeOK
    WithinCapacity
    AdmittedTogether
PROPERTY ReadyIsKept
CHECK_DEADLOCK FALSE
