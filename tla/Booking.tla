------------------------------- MODULE Booking -------------------------------
(***************************************************************************)
(* The booking core: the reservations, orders and payments services, the   *)
(* two BullMQ workers that act on them and the cron job that recovers      *)
(* overdue holds.                                                          *)
(*                                                                         *)
(* An order is identified by its reservation and a payment by its order    *)
(* (both foreign keys are unique), so the three tables are functions of    *)
(* the reservation.  A row that does not exist has status "NONE".          *)
(*                                                                         *)
(* A step is one awaited database transaction or queue call: a handler is  *)
(* suspended between two of them, and every other handler, worker or cron  *)
(* job may run there.  The transactions are atomic: each conditional       *)
(* update keeps its row locked until the commit, and a row it did not find *)
(* in the wanted status never returns to that status.                      *)
(***************************************************************************)
EXTENDS Naturals, FiniteSets

CONSTANTS
    TicketTypes,    \* the ticket types on sale
    Capacity,       \* the initial totalQuantity of each ticket type
    Quantities,     \* the quantities a request may ask for
    Reservations,   \* the reservation ids the database may hand out
    Requests,       \* the HTTP requests that may be in flight at once
    None            \* no reservation, or no ticket type

ASSUME CapacityAssumption == Capacity \in [TicketTypes -> Nat]
ASSUME QuantityAssumption == Quantities \subseteq Nat \ {0}
ASSUME NoneAssumption == None \notin Reservations \cup TicketTypes

VARIABLES
    totalQuantity, remainingQuantity, version,  \* ticket_types
    reservation,    \* reservations: [status, ticketType, quantity]
    order,          \* orders: the status of the order of a reservation
    payment,        \* payments: the status of the payment of that order
    lapsed,         \* the reservations whose expiresAt has passed
    expireJob,      \* queue reservation-expire: the job with jobId = id
    paymentJob,     \* queue mock-payment: the simulated gateway call
    overdue,        \* the ids the running cron scans have still to expire
    request         \* what each in-flight HTTP request awaits

stock == <<totalQuantity, remainingQuantity, version>>
tables == <<stock, reservation, order, payment>>
queues == <<expireJob, paymentJob>>
vars == <<tables, lapsed, queues, overdue, request>>

ReservationStatus == {"NONE", "HOLDING", "CONFIRMED", "EXPIRED", "CANCELLED"}
OrderStatus == {"NONE", "PENDING", "PAID", "CANCELLED", "REFUNDED"}
PaymentStatus == {"NONE", "PENDING", "PAID", "FAILED", "REFUNDED"}

\* "none": not in the queue, or completed, or failed for good.
\* "active": a worker has taken the job and holds its lock.
ExpireJobState == {"none", "delayed", "active"}
\* "settled": the worker's transaction committed, the rest of it has not run.
PaymentJobState == {"none", "waiting", "settled"}

Waits == {"decrement", "addExpireJob", "insertOrder", "insertPayment",
          "addPaymentJob", "writeCancelled", "release", "removeExpireJob"}

Idle == [at |-> "idle", reservation |-> None, ticketType |-> None, quantity |-> 0]

TypeOK ==
    /\ totalQuantity \in [TicketTypes -> Nat]
    /\ remainingQuantity \in [TicketTypes -> Nat]
    /\ version \in [TicketTypes -> Nat]
    /\ reservation \in [Reservations -> [status: ReservationStatus,
                                         ticketType: TicketTypes \cup {None},
                                         quantity: Nat]]
    /\ order \in [Reservations -> OrderStatus]
    /\ payment \in [Reservations -> PaymentStatus]
    /\ lapsed \subseteq Reservations
    /\ expireJob \in [Reservations -> ExpireJobState]
    /\ paymentJob \in [Reservations -> PaymentJobState]
    /\ overdue \subseteq Reservations
    /\ request \in [Requests -> [at: Waits \cup {"idle"},
                                 reservation: Reservations \cup {None},
                                 ticketType: TicketTypes \cup {None},
                                 quantity: Nat]]

Init ==
    /\ totalQuantity = Capacity
    /\ remainingQuantity = Capacity
    /\ version = [t \in TicketTypes |-> 0]
    /\ reservation = [r \in Reservations |->
                        [status |-> "NONE", ticketType |-> None, quantity |-> 0]]
    /\ order = [r \in Reservations |-> "NONE"]
    /\ payment = [r \in Reservations |-> "NONE"]
    /\ lapsed = {}
    /\ expireJob = [r \in Reservations |-> "none"]
    /\ paymentJob = [r \in Reservations |-> "none"]
    /\ overdue = {}
    /\ request = [q \in Requests |-> Idle]

-----------------------------------------------------------------------------
(* In-flight requests. *)

IsIdle(q) == request[q].at = "idle"
At(q, wait) == request[q].at = wait
Subject(q) == request[q].reservation

Await(q, wait, r) ==
    request' = [request EXCEPT ![q] = [Idle EXCEPT !.at = wait, !.reservation = r]]
Respond(q) == request' = [request EXCEPT ![q] = Idle]

-----------------------------------------------------------------------------
(* Conditional updates shared by the handlers. *)

\* Mutant: the update forgets the status in its WHERE clause.
HoldingUnchecked(r) == reservation[r].status # "NONE"

\* The WHERE clause { id, status: HOLDING } of every transition of a hold.
Holding(r) == reservation[r].status = "HOLDING"

SetReservation(r, status) ==
    reservation' = [reservation EXCEPT ![r].status = status]

Restock(r) ==
    LET t == reservation[r].ticketType
    IN  /\ remainingQuantity' = [remainingQuantity EXCEPT ![t] = @ + reservation[r].quantity]
        /\ version' = [version EXCEPT ![t] = @ + 1]
        /\ UNCHANGED totalQuantity

\* settleFailure gives the seats back without touching the version.
RestockUnversioned(r) ==
    LET t == reservation[r].ticketType
    IN  /\ remainingQuantity' = [remainingQuantity EXCEPT ![t] = @ + reservation[r].quantity]
        /\ UNCHANGED <<totalQuantity, version>>

\* A hold ends without a sale: expireIfStillHolding (EXPIRED), and cancelByUser
\* and releaseInternal (CANCELLED).
EndHold(r, status) ==
    /\ Holding(r)
    /\ SetReservation(r, status)
    /\ Restock(r)
    /\ UNCHANGED <<order, payment>>

-----------------------------------------------------------------------------
(* POST /reservations. *)

\* The event and sales-window checks have passed; the request goes on to wait
\* for the Redis lock.  The lock is not part of this module: nothing below
\* relies on it.
BeginReserve(q, t, n) ==
    /\ IsIdle(q)
    /\ request' = [request EXCEPT ![q] = [at |-> "decrement", reservation |-> None,
                                          ticketType |-> t, quantity |-> n]]
    /\ UNCHANGED <<tables, lapsed, queues, overdue>>

\* Mutant: one seat too many.
FitsOneMore(t, n) == remainingQuantity[t] + 1 >= n

\* where: remainingQuantity >= quantity.
Fits(t, n) == remainingQuantity[t] >= n

DecrementAndHold(q, r) ==
    LET t == request[q].ticketType
        n == request[q].quantity
    IN  /\ At(q, "decrement")
        /\ Fits(t, n)
        /\ reservation[r].status = "NONE"
        /\ remainingQuantity' = [remainingQuantity EXCEPT ![t] = @ - n]
        /\ version' = [version EXCEPT ![t] = @ + 1]
        /\ reservation' = [reservation EXCEPT
                             ![r] = [status |-> "HOLDING", ticketType |-> t, quantity |-> n]]
        /\ Await(q, "addExpireJob", r)
        /\ UNCHANGED <<totalQuantity, order, payment, lapsed, queues, overdue>>

AddExpireJob(q) ==
    /\ At(q, "addExpireJob")
    /\ expireJob' = [expireJob EXCEPT ![Subject(q)] = "delayed"]
    /\ Respond(q)
    /\ UNCHANGED <<tables, lapsed, paymentJob, overdue>>

-----------------------------------------------------------------------------
(* PATCH /reservations/:id/cancel, and the removal of the delayed job that *)
(* every early end of a hold tries after its commit.                       *)

CancelReservation(q, r) ==
    /\ IsIdle(q)
    /\ EndHold(r, "CANCELLED")
    /\ Await(q, "removeExpireJob", r)
    /\ UNCHANGED <<lapsed, queues, overdue>>

\* job.remove() throws on a job a worker has locked; then the request fails.
Removable(r) == expireJob[r] # "active"

RemoveExpireJob(q) ==
    /\ At(q, "removeExpireJob")
    /\ Removable(Subject(q))
    /\ expireJob' = [expireJob EXCEPT ![Subject(q)] = "none"]
    /\ Respond(q)
    /\ UNCHANGED <<tables, lapsed, paymentJob, overdue>>

-----------------------------------------------------------------------------
(* POST /orders and PATCH /orders/:id/cancel. *)

BeginOrder(q, r) ==
    /\ IsIdle(q)
    /\ Holding(r)
    /\ order[r] = "NONE"
    /\ Await(q, "insertOrder", r)
    /\ UNCHANGED <<tables, lapsed, queues, overdue>>

\* The insert relies on the checks made before it; only the unique
\* reservationId is checked again, by the database.
InsertOrder(q) ==
    /\ At(q, "insertOrder")
    /\ order[Subject(q)] = "NONE"
    /\ order' = [order EXCEPT ![Subject(q)] = "PENDING"]
    /\ Respond(q)
    /\ UNCHANGED <<stock, reservation, payment, lapsed, queues, overdue>>

BeginCancelOrder(q, r) ==
    /\ IsIdle(q)
    /\ order[r] = "PENDING"
    /\ Await(q, "writeCancelled", r)
    /\ UNCHANGED <<tables, lapsed, queues, overdue>>

\* order.update has no condition on the status it overwrites.
WriteCancelled(q) ==
    /\ At(q, "writeCancelled")
    /\ order' = [order EXCEPT ![Subject(q)] = "CANCELLED"]
    /\ Await(q, "release", Subject(q))
    /\ UNCHANGED <<stock, reservation, payment, lapsed, queues, overdue>>

ReleaseInternal(q) ==
    /\ At(q, "release")
    /\ EndHold(Subject(q), "CANCELLED")
    /\ Await(q, "removeExpireJob", Subject(q))
    /\ UNCHANGED <<lapsed, queues, overdue>>

-----------------------------------------------------------------------------
(* POST /payments. *)

BeginPayment(q, r) ==
    /\ IsIdle(q)
    /\ order[r] = "PENDING"
    /\ payment[r] = "NONE"
    /\ Await(q, "insertPayment", r)
    /\ UNCHANGED <<tables, lapsed, queues, overdue>>

\* Only the unique orderId is checked again.
InsertPayment(q) ==
    /\ At(q, "insertPayment")
    /\ payment[Subject(q)] = "NONE"
    /\ payment' = [payment EXCEPT ![Subject(q)] = "PENDING"]
    /\ Await(q, "addPaymentJob", Subject(q))
    /\ UNCHANGED <<stock, reservation, order, lapsed, queues, overdue>>

\* A failure of the queue call is caught and logged: see Fail.
AddPaymentJob(q) ==
    /\ At(q, "addPaymentJob")
    /\ paymentJob' = [paymentJob EXCEPT ![Subject(q)] = "waiting"]
    /\ Respond(q)
    /\ UNCHANGED <<tables, lapsed, expireJob, overdue>>

-----------------------------------------------------------------------------
(* PaymentSettlementService. *)

\* Mutant: the reservation's status is not checked.
CanSettleAnyHold(r) == payment[r] = "PENDING" /\ order[r] = "PENDING"

CanSettle(r) == payment[r] = "PENDING" /\ order[r] = "PENDING" /\ Holding(r)

\* Mutant: the conflict of a later update does not roll the payment back.
SettleWithoutRollback(r) ==
    /\ payment[r] = "PENDING"
    /\ payment' = [payment EXCEPT ![r] = "PAID"]
    /\ IF CanSettle(r)
          THEN order' = [order EXCEPT ![r] = "PAID"] /\ SetReservation(r, "CONFIRMED")
          ELSE UNCHANGED <<order, reservation>>
    /\ UNCHANGED stock

SettleSuccess(r) ==
    /\ CanSettle(r)
    /\ payment' = [payment EXCEPT ![r] = "PAID"]
    /\ order' = [order EXCEPT ![r] = "PAID"]
    /\ SetReservation(r, "CONFIRMED")
    /\ UNCHANGED stock

\* Mutant: the order is cancelled only together with the hold.
SettleFailureOfHold(r) ==
    /\ payment[r] = "PENDING"
    /\ payment' = [payment EXCEPT ![r] = "FAILED"]
    /\ \/ /\ Holding(r)
          /\ order' = [order EXCEPT ![r] = IF @ = "PENDING" THEN "CANCELLED" ELSE @]
          /\ SetReservation(r, "CANCELLED")
          /\ RestockUnversioned(r)
       \/ /\ ~Holding(r)
          /\ UNCHANGED <<stock, reservation, order>>

SettleFailure(r) ==
    /\ payment[r] = "PENDING"
    /\ payment' = [payment EXCEPT ![r] = "FAILED"]
    /\ order' = [order EXCEPT ![r] = IF @ = "PENDING" THEN "CANCELLED" ELSE @]
    /\ \/ /\ Holding(r)
          /\ SetReservation(r, "CANCELLED")
          /\ RestockUnversioned(r)
       \/ /\ ~Holding(r)
          /\ UNCHANGED <<stock, reservation>>

\* POST /payments/webhook: the gateway reports a result, any number of times.
\* A settlement that finds nothing to do (or a conflict) changes nothing.
WebhookPaid(q, r) ==
    /\ IsIdle(q)
    /\ SettleSuccess(r)
    /\ Await(q, "removeExpireJob", r)
    /\ UNCHANGED <<lapsed, queues, overdue>>

WebhookFailed(q, r) ==
    /\ IsIdle(q)
    /\ SettleFailure(r)
    /\ IF Holding(r) THEN Await(q, "removeExpireJob", r) ELSE UNCHANGED request
    /\ UNCHANGED <<lapsed, queues, overdue>>

\* PaymentsProcessor: the queued job always reports PAID.
PaymentJobSettles(r) ==
    /\ paymentJob[r] = "waiting"
    /\ SettleSuccess(r)
    /\ paymentJob' = [paymentJob EXCEPT ![r] = "settled"]
    /\ UNCHANGED <<lapsed, expireJob, overdue, request>>

\* Nothing to settle: 'already_processed', or a conflict, which is not retried.
PaymentJobDone(r) ==
    /\ paymentJob[r] = "waiting"
    /\ ~CanSettle(r)
    /\ paymentJob' = [paymentJob EXCEPT ![r] = "none"]
    /\ UNCHANGED <<tables, lapsed, expireJob, overdue, request>>

PaymentJobRemovesExpireJob(r) ==
    /\ paymentJob[r] = "settled"
    /\ Removable(r)
    /\ expireJob' = [expireJob EXCEPT ![r] = "none"]
    /\ paymentJob' = [paymentJob EXCEPT ![r] = "none"]
    /\ UNCHANGED <<tables, lapsed, overdue, request>>

\* The attempt throws (job.remove() on a locked job, a lost connection): it is
\* retried, or has been the last one.
PaymentJobFails(r) ==
    /\ paymentJob[r] \in {"waiting", "settled"}
    /\ \E next \in {"waiting", "none"} :
         paymentJob' = [paymentJob EXCEPT ![r] = next]
    /\ UNCHANGED <<tables, lapsed, expireJob, overdue, request>>

-----------------------------------------------------------------------------
(* The end of a hold: time, the delayed job and the recovery cron. *)

HoldLapses(r) ==
    /\ reservation[r].status # "NONE"
    /\ r \notin lapsed
    /\ lapsed' = lapsed \cup {r}
    /\ UNCHANGED <<tables, queues, overdue, request>>

\* Mutant: the job is added without its delay.
ExpireJobStartsAtOnce(r) ==
    /\ expireJob[r] = "delayed"
    /\ expireJob' = [expireJob EXCEPT ![r] = "active"]
    /\ UNCHANGED <<tables, lapsed, paymentJob, overdue, request>>

\* The job's delay is the hold time counted from after expiresAt was fixed.
ExpireJobStarts(r) ==
    /\ expireJob[r] = "delayed"
    /\ r \in lapsed
    /\ expireJob' = [expireJob EXCEPT ![r] = "active"]
    /\ UNCHANGED <<tables, lapsed, paymentJob, overdue, request>>

ExpireJobExpires(r) ==
    /\ expireJob[r] = "active"
    /\ EndHold(r, "EXPIRED")
    /\ UNCHANGED <<lapsed, queues, overdue, request>>

ExpireJobCompletes(r) ==
    /\ expireJob[r] = "active"
    /\ ~Holding(r)
    /\ expireJob' = [expireJob EXCEPT ![r] = "none"]
    /\ UNCHANGED <<tables, lapsed, paymentJob, overdue, request>>

\* An attempt throws: another one is scheduled, or it has been the last one.
ExpireJobFails(r) ==
    /\ expireJob[r] = "active"
    /\ \E next \in {"delayed", "none"} :
         expireJob' = [expireJob EXCEPT ![r] = next]
    /\ UNCHANGED <<tables, lapsed, paymentJob, overdue, request>>

\* Mutant: the comparison with expiresAt is the wrong way round.
OverdueReversed == {r \in Reservations : Holding(r) /\ r \notin lapsed}

Overdue == {r \in Reservations : Holding(r) /\ r \in lapsed}

\* Every 30 seconds; a scan does not wait for the previous one to finish.
CronScan ==
    /\ ~(Overdue \subseteq overdue)
    /\ overdue' = overdue \cup Overdue
    /\ UNCHANGED <<tables, lapsed, queues, request>>

CronExpires(r) ==
    /\ r \in overdue
    /\ EndHold(r, "EXPIRED")
    /\ overdue' = overdue \ {r}
    /\ UNCHANGED <<lapsed, queues, request>>

\* The hold has ended meanwhile, or its transaction fails (allSettled logs it).
CronSkips(r) ==
    /\ r \in overdue
    /\ overdue' = overdue \ {r}
    /\ UNCHANGED <<tables, lapsed, queues, request>>

-----------------------------------------------------------------------------
(* Failures. *)

\* A request ends early: a condition rejects it (sold out, a unique key is
\* taken, nothing to release), or a database, Redis or queue call throws.
Fail(q) ==
    /\ ~IsIdle(q)
    /\ Respond(q)
    /\ UNCHANGED <<tables, lapsed, queues, overdue>>

\* The process dies and restarts: what was in memory is gone, and the queue
\* hands out again the jobs whose worker stalled.
Crash ==
    /\ request' = [q \in Requests |-> Idle]
    /\ overdue' = {}
    /\ expireJob' = [r \in Reservations |->
                       IF expireJob[r] = "active" THEN "delayed" ELSE expireJob[r]]
    /\ paymentJob' = [r \in Reservations |->
                        IF paymentJob[r] = "settled" THEN "waiting" ELSE paymentJob[r]]
    /\ UNCHANGED <<tables, lapsed>>

-----------------------------------------------------------------------------

ReserveRequest(q) == \E t \in TicketTypes, n \in Quantities : BeginReserve(q, t, n)

RequestStep(q) ==
    \/ \E r \in Reservations :
         \/ DecrementAndHold(q, r)
         \/ CancelReservation(q, r)
         \/ BeginOrder(q, r)
         \/ BeginCancelOrder(q, r)
         \/ BeginPayment(q, r)
         \/ WebhookPaid(q, r)
         \/ WebhookFailed(q, r)
    \/ AddExpireJob(q)
    \/ RemoveExpireJob(q)
    \/ InsertOrder(q)
    \/ WriteCancelled(q)
    \/ ReleaseInternal(q)
    \/ InsertPayment(q)
    \/ AddPaymentJob(q)
    \/ Fail(q)

PaymentWorkerStep(r) ==
    \/ PaymentJobSettles(r)
    \/ PaymentJobDone(r)
    \/ PaymentJobRemovesExpireJob(r)
    \/ PaymentJobFails(r)

ExpiryStep(r) ==
    \/ HoldLapses(r)
    \/ ExpireJobStarts(r)
    \/ ExpireJobExpires(r)
    \/ ExpireJobCompletes(r)
    \/ ExpireJobFails(r)
    \/ CronExpires(r)
    \/ CronSkips(r)

\* Everything but new bookings, which depend on the event, and crashes, which
\* hit all components at once.
BookingStep ==
    \/ \E q \in Requests : RequestStep(q)
    \/ \E r \in Reservations : PaymentWorkerStep(r) \/ ExpiryStep(r)
    \/ CronScan

Next ==
    \/ \E q \in Requests : ReserveRequest(q)
    \/ BookingStep
    \/ Crash

Spec == Init /\ [][Next]_vars

\* Time passes, the cron keeps scanning, and a scan is not for ever cut short
\* by a crash or a failing transaction.  Nothing is assumed of the delayed
\* jobs: a hold must end without them.
Fairness ==
    /\ WF_vars(CronScan)
    /\ \A r \in Reservations :
         /\ WF_vars(HoldLapses(r))
         /\ SF_vars(CronExpires(r))

FairSpec == Spec /\ Fairness

-----------------------------------------------------------------------------
(* Properties. *)

\* The seats of ticket type t that a hold or a sale claims.
Claimants(t) ==
    {r \in Reservations : /\ reservation[r].ticketType = t
                          /\ reservation[r].status \in {"HOLDING", "CONFIRMED"}}
Seats(r) == {r} \X (1..reservation[r].quantity)
Claims(t) == UNION {Seats(r) : r \in Claimants(t)}

\* No seat is lost and none is sold twice: what create() took out of
\* remainingQuantity comes back exactly once, whichever of the worker, the
\* cron, a cancellation and a failed payment ends the hold, and never after a
\* sale.
SeatsConserved ==
    \A t \in TicketTypes :
      remainingQuantity[t] + Cardinality(Claims(t)) = totalQuantity[t]

\* The three rows of a sale agree although each has writers of its own: money
\* is taken exactly for confirmed reservations, and an order counts as paid or
\* refunded only if its payment does.
SaleIsAtomic ==
    \A r \in Reservations :
      /\ payment[r] \in {"PAID", "REFUNDED"} <=> reservation[r].status = "CONFIRMED"
      /\ order[r] \in {"PAID", "REFUNDED"} => payment[r] = order[r]

\* After a failed payment neither the order nor the hold can be used again,
\* also when the hold had expired or the order was cancelled before the
\* webhook came.
FailedPaymentEndsBooking ==
    \A r \in Reservations :
      payment[r] = "FAILED" => /\ order[r] = "CANCELLED"
                               /\ reservation[r].status \in {"EXPIRED", "CANCELLED"}

\* A hold is expired by the worker or the cron only after its expiresAt: the
\* transaction itself does not look at expiresAt.
NoEarlyExpiry ==
    \A r \in Reservations : reservation[r].status = "EXPIRED" => r \in lapsed

\* A reservation that has ended, a settled payment and a cancelled order never
\* change again (a refund apart), however often a webhook, a job or a
\* cancellation is repeated or comes late.
FinalStatuses ==
    [][\A r \in Reservations :
         /\ reservation[r].status \in {"CONFIRMED", "EXPIRED", "CANCELLED"}
              => reservation'[r] = reservation[r]
         /\ payment[r] = "FAILED" => payment'[r] = "FAILED"
         /\ payment[r] = "PAID" => payment'[r] \in {"PAID", "REFUNDED"}
         /\ order[r] = "CANCELLED" => order'[r] = "CANCELLED"]_vars

\* Every hold ends, by a sale or by giving its seats back, even if its delayed
\* job was never queued, was lost or has failed for good.
HoldsEnd ==
    \A r \in Reservations : Holding(r) ~> ~Holding(r)

\* orders.service.ts:100 "the user cancels an order that is NOT yet paid": a
\* paid order is never turned into a cancelled one.
PaidOrdersAreNotCancelled ==
    [][\A r \in Reservations : order[r] = "PAID" => order'[r] # "CANCELLED"]_vars

-----------------------------------------------------------------------------
(* Booking implements TicketLedger. *)

ClaimStatus(status) ==
    CASE status = "NONE" -> "none"
      [] status = "HOLDING" -> "held"
      [] status = "CONFIRMED" -> "sold"
      [] OTHER -> "released"

MoneyStatus(status) ==
    CASE status = "PAID" -> "captured"
      [] status = "REFUNDED" -> "refunded"
      [] OTHER -> "none"

claimed ==
    [r \in Reservations |-> [status |-> ClaimStatus(reservation[r].status),
                            ticketType |-> reservation[r].ticketType,
                            quantity |-> reservation[r].quantity]]
captured == [r \in Reservations |-> MoneyStatus(payment[r])]

Ledger == INSTANCE TicketLedger WITH
    Bookings <- Reservations, Sizes <- {},
    capacity <- totalQuantity, claim <- claimed, money <- captured

\* The handlers, workers and cron together behave as the ledger: seats are
\* claimed within the capacity although the code only compares a counter, and
\* a sale and the capture of its payment are one step.
ImplementsLedger == Ledger!Spec
=============================================================================
