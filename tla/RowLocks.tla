------------------------------- MODULE RowLocks -------------------------------
(***************************************************************************)
(* The database transactions of the booking system, statement by           *)
(* statement: what Booking and EventCancellation take for one step is here *)
(* a sequence of UPDATEs that lock the rows they change until the          *)
(* transaction ends.  PostgreSQL runs them READ COMMITTED, the default     *)
(* that prisma.$transaction leaves in place:                               *)
(*   - an update whose WHERE clause the committed row does not satisfy     *)
(*     counts 0 rows and waits for nobody;                                 *)
(*   - otherwise it waits until no other transaction has the row locked    *)
(*     and then looks at the WHERE clause again;                           *)
(*   - the keys a foreign key refers to are only locked FOR KEY SHARE,     *)
(*     which none of these updates conflicts with;                         *)
(*   - an inserted row is invisible to others before the commit.           *)
(* The variables of the tables have the names they have in Booking and     *)
(* hold the committed rows.  No transaction updates a row twice, so the    *)
(* rows it has locked are the rows it is going to change.                  *)
(***************************************************************************)
EXTENDS Naturals, FiniteSets

CONSTANTS TicketTypes, Capacity, Quantities, Reservations, None,
          Transactions,   \* the connections of the pool
          CancelOrders    \* the job's update of all pending orders

Connections == Transactions \cup {CancelOrders}

ASSUME RowsAssumption ==
    /\ Capacity \in [TicketTypes -> Nat]
    /\ Quantities \subseteq Nat \ {0}
    /\ None \notin Reservations \cup TicketTypes \cup Connections
    /\ CancelOrders \notin Transactions

VARIABLES
    totalQuantity, remainingQuantity, version, reservation, order, payment,
    tx,             \* the open transactions
    ordersLeft,     \* the orders CancelOrders has still to look at
    ordersHeld      \* the orders CancelOrders has locked

stock == <<totalQuantity, remainingQuantity, version>>
tables == <<stock, reservation, order, payment>>
locking == <<tx, ordersLeft, ordersHeld>>
rowVars == <<tables, locking>>

\* A connection without a transaction.
Closed == [kind |-> "none", booking |-> None, ticketType |-> None, quantity |-> 0,
           next |-> "commit", held |-> {}]

\* The tables of Booking, with its queues empty and no request in flight.
Core == INSTANCE Booking WITH
    Requests <- {}, lapsed <- {}, overdue <- {}, request <- [q \in {} |-> Closed],
    expireJob <- [r \in Reservations |-> "none"],
    paymentJob <- [r \in Reservations |-> "none"]

Settlements == {"settleSuccess", "settleFailure"}
HoldEnders == {"expire", "release", "cancelHold"}
Kinds == Settlements \cup HoldEnders \cup {"refund", "create"}
Tables == {"payment", "order", "reservation", "ticketType"}

TxRecords == [kind: Kinds \cup {"none"},
              booking: Reservations \cup {None},
              ticketType: TicketTypes \cup {None},
              quantity: Nat,
              next: Tables \cup {"commit"},   \* the table of the next statement
              held: SUBSET Tables]            \* its rows in these tables are locked

RowLocksTypeOK ==
    /\ totalQuantity \in [TicketTypes -> Nat]
    /\ remainingQuantity \in [TicketTypes -> Nat]
    /\ version \in [TicketTypes -> Nat]
    /\ reservation \in [Reservations -> [status: Core!ReservationStatus,
                                         ticketType: TicketTypes \cup {None},
                                         quantity: Nat]]
    /\ order \in [Reservations -> Core!OrderStatus]
    /\ payment \in [Reservations -> Core!PaymentStatus]
    /\ tx \in [Transactions -> TxRecords]
    /\ ordersLeft \subseteq Reservations
    /\ ordersHeld \subseteq Reservations

Init ==
    /\ totalQuantity = Capacity
    /\ remainingQuantity = Capacity
    /\ version = [t \in TicketTypes |-> 0]
    /\ reservation = [r \in Reservations |->
                        [status |-> "NONE", ticketType |-> None, quantity |-> 0]]
    /\ order = [r \in Reservations |-> "NONE"]
    /\ payment = [r \in Reservations |-> "NONE"]
    /\ tx = [x \in Transactions |-> Closed]
    /\ ordersLeft = {}
    /\ ordersHeld = {}

-----------------------------------------------------------------------------
(* The statements of a transaction. *)

First(kind) ==
    CASE kind \in Settlements -> "payment"
      [] kind \in HoldEnders -> "reservation"
      [] kind = "refund" -> "order"
      [] kind = "create" -> "ticketType"

\* Mutant: a failed payment gives the seats back before it ends the hold.
SeatsBackFirst(kind, table) ==
    CASE kind \in Settlements /\ table = "payment" -> "order"
      [] kind = "settleFailure" /\ table = "order" -> "ticketType"
      [] kind = "settleFailure" /\ table = "ticketType" -> "reservation"
      [] kind = "settleSuccess" /\ table = "order" -> "reservation"
      [] kind \in HoldEnders /\ table = "reservation" -> "ticketType"
      [] kind = "refund" /\ table = "order" -> "payment"
      [] kind = "create" /\ table = "ticketType" -> "reservation"
      [] OTHER -> "commit"

\* The statement after the one on table.
Following(kind, table) ==
    CASE kind \in Settlements /\ table = "payment" -> "order"
      [] kind \in Settlements /\ table = "order" -> "reservation"
      [] kind \in HoldEnders \cup {"settleFailure"} /\ table = "reservation" -> "ticketType"
      [] kind = "refund" /\ table = "order" -> "payment"
      [] kind = "create" /\ table = "ticketType" -> "reservation"
      [] OTHER -> "commit"

IsOpen(x) == tx[x].kind # "none"

RowOf(x, table) == IF table = "ticketType" THEN tx[x].ticketType ELSE tx[x].booking

\* Mutant: create does not compare the remaining seats.
MatchesAnySeats(x) ==
    LET kind == tx[x].kind
        r == tx[x].booking
    IN  CASE tx[x].next = "payment" -> kind = "refund" \/ payment[r] = "PENDING"
          [] tx[x].next = "order" -> order[r] = (IF kind = "refund" THEN "PAID" ELSE "PENDING")
          [] tx[x].next = "reservation" -> Core!Holding(r)
          [] tx[x].next = "ticketType" -> TRUE

\* The WHERE clause of the next statement, for the committed row.
Matches(x) ==
    LET kind == tx[x].kind
        r == tx[x].booking
    IN  CASE tx[x].next = "payment" -> kind = "refund" \/ payment[r] = "PENDING"
          [] tx[x].next = "order" -> order[r] = (IF kind = "refund" THEN "PAID" ELSE "PENDING")
          [] tx[x].next = "reservation" -> Core!Holding(r)
          [] tx[x].next = "ticketType" ->
               kind = "create" => Core!Fits(tx[x].ticketType, tx[x].quantity)

\* y has locked the row with this id.
Locks(y, table, id) ==
    IF y = CancelOrders THEN table = "order" /\ id \in ordersHeld
                        ELSE table \in tx[y].held /\ RowOf(y, table) = id

LockedByAnother(x, table, id) == \E y \in Connections \ {x} : Locks(y, table, id)

-----------------------------------------------------------------------------
(* Interactive transactions. *)

Open(x, kind, r, t, n) ==
    tx' = [tx EXCEPT ![x] = [kind |-> kind, booking |-> r, ticketType |-> t, quantity |-> n,
                             next |-> First(kind), held |-> {}]]

\* Each one starts from rows it has read before, whose keys never change.
Begin(x, kind, r) ==
    /\ ~IsOpen(x)
    /\ kind \in Settlements => payment[r] # "NONE"
    /\ kind \in HoldEnders => reservation[r].status # "NONE"
    /\ kind = "refund" => order[r] \notin {"NONE", "PENDING"}
    /\ Open(x, kind, r, reservation[r].ticketType, reservation[r].quantity)
    /\ UNCHANGED <<tables, ordersLeft, ordersHeld>>

BeginCreate(x, t, n) ==
    /\ ~IsOpen(x)
    /\ Open(x, "create", None, t, n)
    /\ UNCHANGED <<tables, ordersLeft, ordersHeld>>

Goto(x, table) == tx' = [tx EXCEPT ![x].next = table]
Close(x) == tx' = [tx EXCEPT ![x] = Closed]

\* The statement on an existing row.
Update(x) ==
    LET table == tx[x].next
    IN  /\ IsOpen(x)
        /\ table # "commit"
        /\ ~(tx[x].kind = "create" /\ table = "reservation")
        /\ Matches(x)
        /\ ~LockedByAnother(x, table, RowOf(x, table))
        /\ tx' = [tx EXCEPT ![x].held = @ \cup {table},
                            ![x].next = Following(tx[x].kind, table)]
        /\ UNCHANGED <<tables, ordersLeft, ordersHeld>>

\* reservation.create: a fresh id.
Insert(x, r) ==
    /\ tx[x].kind = "create"
    /\ tx[x].next = "reservation"
    /\ reservation[r].status = "NONE"
    /\ \A y \in Transactions : tx[y].kind = "create" => tx[y].booking # r
    /\ tx' = [tx EXCEPT ![x].booking = r,
                        ![x].held = @ \cup {"reservation"},
                        ![x].next = "commit"]
    /\ UNCHANGED <<tables, ordersLeft, ordersHeld>>

\* Mutant: a settlement that finds its order closed returns instead of throwing.
MissReturns(x) ==
    /\ IsOpen(x)
    /\ tx[x].next # "commit"
    /\ ~(tx[x].kind = "create" /\ tx[x].next = "reservation")
    /\ ~Matches(x)
    /\ CASE tx[x].kind = "settleFailure" /\ tx[x].next = "order" -> Goto(x, "reservation")
         [] tx[x].kind \in Settlements /\ tx[x].next # "payment" -> Goto(x, "commit")
         [] OTHER -> Close(x)
    /\ UNCHANGED <<tables, ordersLeft, ordersHeld>>

\* Count 0: settleFailure goes on without the row; every other transaction
\* returns before it has written anything, or throws and is rolled back.
Miss(x) ==
    /\ IsOpen(x)
    /\ tx[x].next # "commit"
    /\ ~(tx[x].kind = "create" /\ tx[x].next = "reservation")
    /\ ~Matches(x)
    /\ CASE tx[x].kind = "settleFailure" /\ tx[x].next = "order" -> Goto(x, "reservation")
         [] tx[x].kind = "settleFailure" /\ tx[x].next = "reservation" -> Goto(x, "commit")
         [] OTHER -> Close(x)
    /\ UNCHANGED <<tables, ordersLeft, ordersHeld>>

\* A query fails, the transaction times out or the process dies.
Rollback(x) ==
    /\ IsOpen(x)
    /\ Close(x)
    /\ UNCHANGED <<tables, ordersLeft, ordersHeld>>

\* The status a transaction writes into its row of a table.
Written(kind, table) ==
    CASE kind = "settleSuccess" -> IF table = "reservation" THEN "CONFIRMED" ELSE "PAID"
      [] kind = "settleFailure" -> IF table = "payment" THEN "FAILED" ELSE "CANCELLED"
      [] kind = "expire" -> "EXPIRED"
      [] kind = "refund" -> "REFUNDED"
      [] kind = "create" -> "HOLDING"
      [] OTHER -> "CANCELLED"

MoveSeats(x) ==
    LET t == tx[x].ticketType
    IN  remainingQuantity' =
          [remainingQuantity EXCEPT
             ![t] = IF tx[x].kind = "create" THEN @ - tx[x].quantity ELSE @ + tx[x].quantity]

Versioned(kind) == kind \in {"create", "expire", "release"}

Commit(x) ==
    LET kind == tx[x].kind
        r == tx[x].booking
        Held(table) == table \in tx[x].held
    IN  /\ IsOpen(x)
        /\ tx[x].next = "commit"
        /\ payment' = IF Held("payment")
                      THEN [payment EXCEPT ![r] = Written(kind, "payment")] ELSE payment
        /\ order' = IF Held("order")
                    THEN [order EXCEPT ![r] = Written(kind, "order")] ELSE order
        /\ reservation' = IF Held("reservation")
                          THEN [reservation EXCEPT
                                  ![r] = [status |-> Written(kind, "reservation"),
                                          ticketType |-> tx[x].ticketType,
                                          quantity |-> tx[x].quantity]]
                          ELSE reservation
        /\ IF Held("ticketType") THEN MoveSeats(x) ELSE UNCHANGED remainingQuantity
        /\ version' = IF Held("ticketType") /\ Versioned(kind)
                      THEN [version EXCEPT ![tx[x].ticketType] = @ + 1] ELSE version
        /\ Close(x)
        /\ UNCHANGED <<totalQuantity, ordersLeft, ordersHeld>>

-----------------------------------------------------------------------------
(* Writes outside a transaction: one statement, committed at once. *)

InsertOrder(r) ==
    /\ reservation[r].status # "NONE"
    /\ order[r] = "NONE"
    /\ order' = [order EXCEPT ![r] = "PENDING"]
    /\ UNCHANGED <<stock, reservation, payment, locking>>

InsertPayment(r) ==
    /\ order[r] # "NONE"
    /\ payment[r] = "NONE"
    /\ payment' = [payment EXCEPT ![r] = "PENDING"]
    /\ UNCHANGED <<stock, reservation, order, locking>>

\* orders.service.ts cancelOrder: it waits for the row, whatever its status.
WriteCancelled(r) ==
    /\ order[r] # "NONE"
    /\ ~LockedByAnother(None, "order", r)
    /\ order' = [order EXCEPT ![r] = "CANCELLED"]
    /\ UNCHANGED <<stock, reservation, payment, locking>>

-----------------------------------------------------------------------------
(* cancelPendingOrders: one UPDATE of many rows, which locks them in the   *)
(* order in which its plan happens to find them.                           *)

BeginCancelOrders ==
    /\ ordersLeft = {}
    /\ ordersHeld = {}
    /\ ordersLeft' = {r \in Reservations : order[r] = "PENDING"}
    /\ UNCHANGED <<tables, tx, ordersHeld>>

LockOrder(r) ==
    /\ r \in ordersLeft
    /\ order[r] = "PENDING"
    /\ ~LockedByAnother(CancelOrders, "order", r)
    /\ ordersLeft' = ordersLeft \ {r}
    /\ ordersHeld' = ordersHeld \cup {r}
    /\ UNCHANGED <<tables, tx>>

SkipOrder(r) ==
    /\ r \in ordersLeft
    /\ order[r] # "PENDING"
    /\ ordersLeft' = ordersLeft \ {r}
    /\ UNCHANGED <<tables, tx, ordersHeld>>

CommitCancelOrders ==
    /\ ordersLeft = {}
    /\ ordersHeld # {}
    /\ order' = [r \in Reservations |-> IF r \in ordersHeld THEN "CANCELLED" ELSE order[r]]
    /\ ordersHeld' = {}
    /\ UNCHANGED <<stock, reservation, payment, tx, ordersLeft>>

RollbackCancelOrders ==
    /\ ordersHeld \cup ordersLeft # {}
    /\ ordersLeft' = {}
    /\ ordersHeld' = {}
    /\ UNCHANGED <<tables, tx>>

-----------------------------------------------------------------------------

TransactionStep(x) ==
    \/ \E r \in Reservations, kind \in Kinds \ {"create"} : Begin(x, kind, r)
    \/ \E t \in TicketTypes, n \in Quantities : BeginCreate(x, t, n)
    \/ Update(x)
    \/ \E r \in Reservations : Insert(x, r)
    \/ Miss(x)
    \/ Commit(x)
    \/ Rollback(x)

SingleStatement(r) == InsertOrder(r) \/ InsertPayment(r) \/ WriteCancelled(r)

CancelOrdersStep ==
    \/ BeginCancelOrders
    \/ \E r \in Reservations : LockOrder(r) \/ SkipOrder(r)
    \/ CommitCancelOrders
    \/ RollbackCancelOrders

Next ==
    \/ \E x \in Transactions : TransactionStep(x)
    \/ \E r \in Reservations : SingleStatement(r)
    \/ CancelOrdersStep

Spec == Init /\ [][Next]_rowVars

-----------------------------------------------------------------------------
(* Properties. *)

\* The steps Booking and EventCancellation are made of, as far as the tables go.
NewHold(r) ==
    \E t \in TicketTypes, n \in Quantities :
      /\ Core!Fits(t, n)
      /\ reservation[r].status = "NONE"
      /\ reservation' = [reservation EXCEPT
                           ![r] = [status |-> "HOLDING", ticketType |-> t, quantity |-> n]]
      /\ remainingQuantity' = [remainingQuantity EXCEPT ![t] = @ - n]
      /\ version' = [version EXCEPT ![t] = @ + 1]
      /\ UNCHANGED <<totalQuantity, order, payment>>

HoldCancelledByJob(r) ==
    /\ Core!Holding(r)
    /\ Core!SetReservation(r, "CANCELLED")
    /\ Core!RestockUnversioned(r)
    /\ UNCHANGED <<order, payment>>

SaleRefunded(r) ==
    /\ order[r] = "PAID"
    /\ order' = [order EXCEPT ![r] = "REFUNDED"]
    /\ payment' = [payment EXCEPT ![r] = "REFUNDED"]
    /\ UNCHANGED <<stock, reservation>>

OrderBecomes(S, status) ==
    /\ order' = [r \in Reservations |-> IF r \in S THEN status ELSE order[r]]
    /\ UNCHANGED <<stock, reservation, payment>>

PaymentCreated(r) ==
    /\ payment[r] = "NONE"
    /\ payment' = [payment EXCEPT ![r] = "PENDING"]
    /\ UNCHANGED <<stock, reservation, order>>

AtomicStep ==
    \/ \E S \in SUBSET {r \in Reservations : order[r] = "PENDING"} :
         OrderBecomes(S, "CANCELLED")
    \/ \E r \in Reservations :
         \/ order[r] = "NONE" /\ OrderBecomes({r}, "PENDING")
         \/ order[r] # "NONE" /\ OrderBecomes({r}, "CANCELLED")
         \/ NewHold(r)
         \/ Core!EndHold(r, "EXPIRED")
         \/ Core!EndHold(r, "CANCELLED")
         \/ HoldCancelledByJob(r)
         \/ Core!SettleSuccess(r)
         \/ Core!SettleFailure(r)
         \/ SaleRefunded(r)
         \/ PaymentCreated(r)

\* Each commit changes the tables as one of the atomic steps of Booking and
\* EventCancellation would in the state it finds, although the rows it writes
\* were looked at one after the other while other transactions committed.
TransactionsAreAtomic == [][AtomicStep]_tables

\* Statement by statement, and whatever is rolled back half-way, the tables are
\* those of a ledger: create() claims seats within the capacity although it
\* compared the counter before it waited, and payment, order and reservation of
\* a sale change together.  (Most steps only lock a row: UNCHANGED tables spares
\* TLC the ledger in those.)
TransactionsImplementLedger ==
    /\ Core!Ledger!Init
    /\ [][UNCHANGED tables \/ Core!Ledger!Next]_(Core!Ledger!vars)

\* x cannot go on before y ends.
WaitsFor(x, y) ==
    /\ x # y
    /\ IF x = CancelOrders
       THEN \E r \in ordersLeft : order[r] = "PENDING" /\ Locks(y, "order", r)
       ELSE /\ IsOpen(x)
            /\ tx[x].next # "commit"
            /\ ~(tx[x].kind = "create" /\ tx[x].next = "reservation")
            /\ Matches(x)
            /\ Locks(y, tx[x].next, RowOf(x, tx[x].next))

\* The settlement locks payment, order and reservation, the refund order and
\* payment, the end of a hold reservation and ticket type, and the job's update
\* any number of orders: still no set of transactions waits for each other in
\* a circle, so the database never has to abort one.
NoDeadlock ==
    \A S \in SUBSET Connections :
      S # {} => \E x \in S : \A y \in S : ~WaitsFor(x, y)
=============================================================================
