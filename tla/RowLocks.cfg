SPECIFICATION Spec
CONSTANTS
    None = None
    CancelOrders = CancelOrders
    TicketTypes = {t1}
    Capacity <- MCCapacity
    Quantities = {1}
    Reservations = {r1, r2}
    Transactions = {x1, x2, x3}
SYMMETRY MCSymmetry
INVARIANTS RowLocksTypeOK NoDeadlock
PROPERTIES TransactionsAreAtomic TransactionsImplementLedger
CHECK_DEADLOCK FALSE
