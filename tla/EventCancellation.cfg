SPECIFICATION CancelFairSpec
CONSTANTS
    None = None
    TicketTypes = {t1}
    Capacity <- MCCapacity
    Quantities = {1}
    Reservations = {r1}
    Requests = {q1, q2}
    Cancellers = {c1}
    MaxCancelAttempts = 2
INVARIANTS CancelTypeOK SeatsConserved SaleIsAtomic
PROPERTIES CancellationImplementsLedger HoldsEnd QueuedSalesAreRefunded
CHECK_DEADLOCK FALSE
