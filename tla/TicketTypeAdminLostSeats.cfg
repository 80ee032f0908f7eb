SPECIFICATION AdminSpec
CONSTANTS
    None = None
    TicketTypes = {t1}
    Capacity <- MCCapacity
    Quantities = {1}
    Reservations = {r1}
    Requests = {q1}
    Editors = {e1}
    Sizes = {1, 3}
    MaxVersion = 2
SYMMETRY MCSymmetry
INVARIANTS SeatsConserved
CHECK_DEADLOCK FALSE
