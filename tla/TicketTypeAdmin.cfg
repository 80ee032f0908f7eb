SPECIFICATION AdminSpec
CONSTANTS
    None = None
    TicketTypes = {t1}
    Capacity <- MCCapacity
    Quantities = {2}
    Reservations = {r1, r2}
    Requests = {q1}
    Editors = {e1}
    Sizes = {1, 4}
    MaxVersion = 2
SYMMETRY MCSymmetry
INVARIANTS AdminTypeOK NoOversell
PROPERTIES ImplementsResizableLedger
CHECK_DEADLOCK FALSE
