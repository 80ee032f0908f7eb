SPECIFICATION QuietFairSpec
CONSTANTS
    None = None
    TicketTypes = {t1}
    Capacity <- MCCapacity
    Quantities = {1}
    Reservations = {r1}
    Requests = {q1}
    Cancellers = {c1}
    MaxCancelAttempts = 1
PROPERTIES PaidOrdersAreRefunded
CHECK_DEADLOCK FALSE
