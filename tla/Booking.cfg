SPECIFICATION Spec
CONSTANTS
    None = None
    TicketTypes = {t1}
    Capacity <- MCCapacity
    Quantities = {2}
    Reservations = {r1, r2}
    Requests = {q1, q2}
SYMMETRY MCSymmetry
INVARIANTS TypeOK SeatsConserved SaleIsAtomic FailedPaymentEndsBooking NoEarlyExpiry
PROPERTIES FinalStatuses ImplementsLedger
CHECK_DEADLOCK FALSE
