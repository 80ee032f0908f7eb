-------------------------- MODULE EventCancellation --------------------------
(***************************************************************************)
(* The cancellation of an event while its tickets are being booked, paid   *)
(* and expired: EventCancellationService.cancelEvent, which answers the    *)
(* organizer or an admin, and processEventCancellation, the job it queues. *)
(* The rest of the system is Booking, for the ticket types of one event.   *)
(*                                                                         *)
(* cancelHoldingReservations and refundPaidOrders start one transaction    *)
(* per row but do not return its promise to Promise.allSettled, so the job *)
(* goes on at once and the transactions run in the background.  A failing  *)
(* one is an unhandled rejection, which ends the process: see CrashAll.    *)
(***************************************************************************)
EXTENDS Booking

CONSTANTS
    Cancellers,         \* the cancel requests that may be in flight at once
    MaxCancelAttempts   \* the attempts of the queued job

ASSUME MaxCancelAttemptsAssumption == MaxCancelAttempts \in Nat \ {0}

VARIABLES
    event,          \* the status of the event
    canceller,      \* what each cancel request awaits
    cancelJob,      \* queue event-cancellation: the job with jobId event-cancel-<id>
    cancelAttempts, \* the attempts of that job that have failed
    holdsToCancel,  \* background transactions: the reservations to cancel
    refundsDue,     \* background transactions: the orders to refund
    notified,       \* the reservations whose user is told of the cancellation
    crashed         \* history: the process has died and lost its transactions

job == <<cancelJob, cancelAttempts>>
background == <<holdsToCancel, refundsDue, notified, crashed>>
cancellation == <<event, canceller, job, background>>
cancelVars == <<vars, cancellation>>

\* The stages of the job after "queued" name the step it is about to run.
RunningStages == {"orders", "refunds", "notify"}

CancelTypeOK ==
    /\ TypeOK
    /\ event \in {"PUBLISHED", "CANCELLED"}
    /\ canceller \in [Cancellers -> {"idle", "writeStatus", "addJob"}]
    /\ cancelJob \in {"none", "queued", "done", "failed"} \cup RunningStages
    /\ cancelAttempts \in 0..MaxCancelAttempts
    /\ crashed \in BOOLEAN
    /\ holdsToCancel \subseteq Reservations
    /\ refundsDue \subseteq Reservations
    /\ notified \subseteq Reservations

CancelInit ==
    /\ Init
    /\ event = "PUBLISHED"
    /\ canceller = [c \in Cancellers |-> "idle"]
    /\ cancelJob = "none"
    /\ cancelAttempts = 0
    /\ holdsToCancel = {}
    /\ refundsDue = {}
    /\ notified = {}
    /\ crashed = FALSE

-----------------------------------------------------------------------------
(* PATCH /events/:id/cancel. *)

BeginCancelEvent(c) ==
    /\ canceller[c] = "idle"
    /\ event # "CANCELLED"
    /\ canceller' = [canceller EXCEPT ![c] = "writeStatus"]
    /\ UNCHANGED <<vars, event, job, background>>

WriteCancelledStatus(c) ==
    /\ canceller[c] = "writeStatus"
    /\ event' = "CANCELLED"
    /\ canceller' = [canceller EXCEPT ![c] = "addJob"]
    /\ UNCHANGED <<vars, job, background>>

\* Adding a job whose id is in the queue already changes nothing.
AddCancelJob(c) ==
    /\ canceller[c] = "addJob"
    /\ cancelJob' = IF cancelJob = "none" THEN "queued" ELSE cancelJob
    /\ canceller' = [canceller EXCEPT ![c] = "idle"]
    /\ UNCHANGED <<vars, event, cancelAttempts, background>>

\* The database, the cache or the queue throws.
CancelEventFails(c) ==
    /\ canceller[c] # "idle"
    /\ canceller' = [canceller EXCEPT ![c] = "idle"]
    /\ UNCHANGED <<vars, event, job, background>>

-----------------------------------------------------------------------------
(* processEventCancellation. *)

JobCancelsHolds ==
    /\ cancelJob = "queued"
    /\ cancelJob' = "orders"
    /\ holdsToCancel' = holdsToCancel \cup {r \in Reservations : Holding(r)}
    /\ UNCHANGED <<vars, event, canceller, cancelAttempts, refundsDue, notified, crashed>>

\* Mutant: updateMany without its status filter.
JobCancelsAllOrders ==
    /\ cancelJob = "orders"
    /\ cancelJob' = "refunds"
    /\ order' = [r \in Reservations |-> IF order[r] # "NONE" THEN "CANCELLED" ELSE "NONE"]
    /\ UNCHANGED <<stock, reservation, payment, lapsed, queues, overdue, request,
                   event, canceller, cancelAttempts, background>>

JobCancelsOrders ==
    /\ cancelJob = "orders"
    /\ cancelJob' = "refunds"
    /\ order' = [r \in Reservations |-> IF order[r] = "PENDING" THEN "CANCELLED" ELSE order[r]]
    /\ UNCHANGED <<stock, reservation, payment, lapsed, queues, overdue, request,
                   event, canceller, cancelAttempts, background>>

JobCollectsRefunds ==
    /\ cancelJob = "refunds"
    /\ cancelJob' = "notify"
    /\ refundsDue' = refundsDue \cup {r \in Reservations : order[r] = "PAID"}
    /\ UNCHANGED <<vars, event, canceller, cancelAttempts, holdsToCancel, notified, crashed>>

JobNotifies ==
    /\ cancelJob = "notify"
    /\ cancelJob' = "done"
    /\ notified' = notified \cup
         {r \in Reservations : reservation[r].status \in {"CONFIRMED", "CANCELLED"}}
    /\ UNCHANGED <<vars, event, canceller, cancelAttempts, holdsToCancel, refundsDue, crashed>>

\* Mutant: one attempt more than the queue was told.
JobFailsOnceMore ==
    /\ cancelJob \in {"queued"} \cup RunningStages
    /\ cancelAttempts' = cancelAttempts + 1
    /\ cancelJob' = IF cancelAttempts' <= MaxCancelAttempts THEN "queued" ELSE "failed"
    /\ UNCHANGED <<vars, event, canceller, background>>

\* A query of the job throws: the job is retried from its start until it has
\* used up its attempts.  The background transactions it started go on.
JobFails ==
    /\ cancelJob \in {"queued"} \cup RunningStages
    /\ cancelAttempts' = cancelAttempts + 1
    /\ cancelJob' = IF cancelAttempts' < MaxCancelAttempts THEN "queued" ELSE "failed"
    /\ UNCHANGED <<vars, event, canceller, background>>

-----------------------------------------------------------------------------
(* The background transactions. *)

\* Mutant: a reservation that was confirmed meanwhile is cancelled as well.
CancelHoldUnchecked(r) ==
    /\ r \in holdsToCancel
    /\ SetReservation(r, "CANCELLED")
    /\ RestockUnversioned(r)
    /\ holdsToCancel' = holdsToCancel \ {r}
    /\ UNCHANGED <<order, payment, lapsed, queues, overdue, request,
                   event, canceller, job, refundsDue, notified, crashed>>

\* Neither the version is bumped nor the delayed job removed.
CancelHold(r) ==
    /\ r \in holdsToCancel
    /\ Holding(r)
    /\ SetReservation(r, "CANCELLED")
    /\ RestockUnversioned(r)
    /\ holdsToCancel' = holdsToCancel \ {r}
    /\ UNCHANGED <<order, payment, lapsed, queues, overdue, request,
                   event, canceller, job, refundsDue, notified, crashed>>

HoldEnded(r) ==
    /\ r \in holdsToCancel
    /\ ~Holding(r)
    /\ holdsToCancel' = holdsToCancel \ {r}
    /\ UNCHANGED <<vars, event, canceller, job, refundsDue, notified, crashed>>

\* Mutant: the order is not updated with its payment.
RefundPaymentOnly(r) ==
    /\ r \in refundsDue
    /\ order[r] = "PAID"
    /\ payment' = [payment EXCEPT ![r] = "REFUNDED"]
    /\ refundsDue' = refundsDue \ {r}
    /\ UNCHANGED <<stock, reservation, order, lapsed, queues, overdue, request,
                   event, canceller, job, holdsToCancel, notified, crashed>>

Refund(r) ==
    /\ r \in refundsDue
    /\ order[r] = "PAID"
    /\ order' = [order EXCEPT ![r] = "REFUNDED"]
    /\ payment' = [payment EXCEPT ![r] = "REFUNDED"]
    /\ refundsDue' = refundsDue \ {r}
    /\ UNCHANGED <<stock, reservation, lapsed, queues, overdue, request,
                   event, canceller, job, holdsToCancel, notified, crashed>>

RefundNotNeeded(r) ==
    /\ r \in refundsDue
    /\ order[r] # "PAID"
    /\ refundsDue' = refundsDue \ {r}
    /\ UNCHANGED <<vars, event, canceller, job, holdsToCancel, notified, crashed>>

-----------------------------------------------------------------------------

\* The queue hands a stalled job out again; everything in memory is gone.
CrashAll ==
    /\ Crash
    /\ canceller' = [c \in Cancellers |-> "idle"]
    /\ cancelJob' = IF cancelJob \in RunningStages THEN "queued" ELSE cancelJob
    /\ holdsToCancel' = {}
    /\ refundsDue' = {}
    /\ crashed' = TRUE
    /\ UNCHANGED <<event, cancelAttempts, notified>>

\* Only a published event takes new bookings; nothing else looks at the event.
PublishedReserve == event = "PUBLISHED" /\ \E q \in Requests : ReserveRequest(q)

CancellerStep(c) ==
    \/ BeginCancelEvent(c)
    \/ WriteCancelledStatus(c)
    \/ AddCancelJob(c)

JobStep == JobCancelsHolds \/ JobCancelsOrders \/ JobCollectsRefunds \/ JobNotifies

BackgroundStep(r) == CancelHold(r) \/ HoldEnded(r) \/ Refund(r) \/ RefundNotNeeded(r)

\* No process dies, and neither a query of the job nor a cancel request fails.
QuietNext ==
    \/ PublishedReserve /\ UNCHANGED cancellation
    \/ BookingStep /\ UNCHANGED cancellation
    \/ \E c \in Cancellers : CancellerStep(c)
    \/ JobStep
    \/ \E r \in Reservations : BackgroundStep(r)

CancelNext ==
    \/ QuietNext
    \/ \E c \in Cancellers : CancelEventFails(c)
    \/ JobFails
    \/ CrashAll

CancelSpec == CancelInit /\ [][CancelNext]_cancelVars

\* Cancel requests go on, the worker runs the job and the database the
\* transactions.
CancelFairness ==
    /\ \A c \in Cancellers :
         /\ WF_cancelVars(BeginCancelEvent(c))
         /\ WF_cancelVars(WriteCancelledStatus(c))
         /\ WF_cancelVars(AddCancelJob(c))
    /\ WF_cancelVars(JobStep)
    /\ \A r \in Reservations : WF_cancelVars(BackgroundStep(r))

\* With the fairness of Booking as well: time passes and the cron keeps scanning.
CancelFairSpec == CancelSpec /\ CancelFairness /\ Fairness

QuietFairSpec == CancelInit /\ [][QuietNext]_cancelVars /\ CancelFairness

-----------------------------------------------------------------------------
(* Properties. *)

\* With the cancellation job as one more writer of all four tables, the handlers
\* still behave as the ledger: its late transactions end a hold or refund a sale
\* at most once, and never a hold that was sold or expired meanwhile.
CancellationImplementsLedger == Ledger!Spec

\* What was paid before the job is queued goes back to the user, although the
\* job is retried, overlaps its own transactions and does not wait for the
\* refund.  Three things alone prevent it: the late cancellation that
\* PaidOrdersAreNotCancelled is about, a process that dies with the transaction
\* pending, and a job that has used up its attempts.
QueuedSalesAreRefunded ==
    \A r \in Reservations :
      /\ cancelJob = "queued"
      /\ order[r] = "PAID"
      /\ \A q \in Requests : ~(At(q, "writeCancelled") /\ Subject(q) = r)
      ~> \/ order[r] = "REFUNDED" /\ payment[r] = "REFUNDED"
         \/ crashed
         \/ cancelJob = "failed"

\* event-cancellation.service.ts:133 "refund all paid orders": no order of a
\* cancelled event stays paid.
PaidOrdersAreRefunded ==
    \A r \in Reservations :
      event = "CANCELLED" /\ order[r] = "PAID" ~> order[r] # "PAID"
=============================================================================
