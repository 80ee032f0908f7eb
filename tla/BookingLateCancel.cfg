SPECIFICATION Spec
CONSTANTS
    None = None
    TicketTypes = {t1}
    Capacity <- MCCapacity
    Quantities = {1}
    Reservations = {r1}
    Requests = {q1, q2}
PROPERTIES PaidOrdersAreNotCancelled
CHECK_DEADLOCK FALSE
