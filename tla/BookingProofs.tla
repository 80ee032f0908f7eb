---------------------------- MODULE BookingProofs ----------------------------
(***************************************************************************)
(* Proofs about Booking, for every set of ticket types, reservations and   *)
(* concurrent requests and every capacity.                                 *)
(***************************************************************************)
EXTENDS Booking, FiniteSetTheorems, TLAPS

(* The tuples that abbreviate UNCHANGED are expanded in every step. *)
USE DEF stock, tables, queues

-----------------------------------------------------------------------------
(* Type correctness. *)

(* TypeOK is not inductive alone: the next two say what the foreign keys and *)
(* the checks before each await guarantee.                                   *)

\* Rows refer to rows that exist.
RowsExist ==
    /\ \A r \in Reservations :
         /\ reservation[r].status # "NONE" => reservation[r].ticketType \in TicketTypes
         /\ order[r] # "NONE" => reservation[r].status # "NONE"
         /\ payment[r] # "NONE" => order[r] # "NONE"
         /\ expireJob[r] = "active" => r \in lapsed
    /\ overdue \subseteq lapsed

\* A suspended handler carries quantities and rows of its reservation.
HandlersFit ==
    \A q \in Requests :
      /\ At(q, "decrement") => /\ request[q].ticketType \in TicketTypes
                               /\ request[q].quantity \in Quantities
      /\ request[q].at \notin {"idle", "decrement"}
           => /\ Subject(q) \in Reservations
              /\ reservation[Subject(q)].status # "NONE"
      /\ request[q].at \in {"insertPayment", "addPaymentJob", "writeCancelled", "release"}
           => order[Subject(q)] # "NONE"

WellFormed == RowsExist /\ HandlersFit

\* The tables start with full stock and without rows.
LEMMA TypeInit == Init => TypeOK
  BY CapacityAssumption
     DEF Init, TypeOK, ReservationStatus, OrderStatus, PaymentStatus,
         ExpireJobState, PaymentJobState, Idle

\* A handler that is suspended keeps the type of the in-flight requests.
LEMMA AwaitType ==
  ASSUME TypeOK, NEW q \in Requests, NEW wait \in Waits,
         NEW r \in Reservations \cup {None}, Await(q, wait, r)
  PROVE  request' \in [Requests -> [at: Waits \cup {"idle"},
                                    reservation: Reservations \cup {None},
                                    ticketType: TicketTypes \cup {None},
                                    quantity: Nat]]
  BY DEF TypeOK, Await, Idle

\* So does one that answers.
LEMMA RespondType ==
  ASSUME TypeOK, NEW q \in Requests, Respond(q)
  PROVE  request' \in [Requests -> [at: Waits \cup {"idle"},
                                    reservation: Reservations \cup {None},
                                    ticketType: TicketTypes \cup {None},
                                    quantity: Nat]]
  BY DEF TypeOK, Respond, Idle

StockType ==
    /\ totalQuantity \in [TicketTypes -> Nat]
    /\ remainingQuantity \in [TicketTypes -> Nat]
    /\ version \in [TicketTypes -> Nat]

ReservationType ==
    reservation \in [Reservations -> [status: ReservationStatus,
                                     ticketType: TicketTypes \cup {None},
                                     quantity: Nat]]

\* Incrementing one entry of a counter keeps it a counter, also for an entry that does
\* not exist.
LEMMA IncrementType ==
  ASSUME NEW S, NEW f \in [S -> Nat], NEW t, NEW n \in Nat
  PROVE  [f EXCEPT ![t] = @ + n] \in [S -> Nat]
<1>1. CASE t \in S  BY <1>1
<1>2. CASE t \notin S  BY <1>2
<1>3. QED  BY <1>1, <1>2

\* Giving the seats of a reservation back keeps the type of the stock.
LEMMA RestockType ==
  ASSUME TypeOK, NEW r \in Reservations, Restock(r) \/ RestockUnversioned(r)
  PROVE  StockType'
<1>1. reservation[r].quantity \in Nat
  BY DEF TypeOK
<1>2. remainingQuantity' \in [TicketTypes -> Nat]
  BY <1>1, IncrementType DEF TypeOK, Restock, RestockUnversioned
<1>3. version' \in [TicketTypes -> Nat]
  <2>1. [version EXCEPT ![reservation[r].ticketType] = @ + 1] \in [TicketTypes -> Nat]
    BY IncrementType DEF TypeOK
  <2>2. QED
    BY <2>1 DEF TypeOK, Restock, RestockUnversioned
<1>4. QED
  BY <1>2, <1>3 DEF StockType, TypeOK, Restock, RestockUnversioned

\* So does the end of a hold, which touches nothing but stock and reservation.
LEMMA EndHoldType ==
  ASSUME TypeOK, NEW r \in Reservations, NEW status \in ReservationStatus, EndHold(r, status)
  PROVE  StockType' /\ ReservationType' /\ UNCHANGED <<order, payment>>
<1>1. StockType'
  BY RestockType DEF EndHold
<1>2. ReservationType'
  BY DEF TypeOK, EndHold, SetReservation, ReservationType
<1>3. QED
  BY <1>1, <1>2 DEF EndHold

RequestType ==
    request \in [Requests -> [at: Waits \cup {"idle"},
                             reservation: Reservations \cup {None},
                             ticketType: TicketTypes \cup {None},
                             quantity: Nat]]

\* A successful settlement keeps the types of the rows it writes.
LEMMA SettleSuccessType ==
  ASSUME TypeOK, NEW r \in Reservations, SettleSuccess(r)
  PROVE  StockType' /\ ReservationType' /\ order' \in [Reservations -> OrderStatus]
         /\ payment' \in [Reservations -> PaymentStatus]
  BY DEF TypeOK, SettleSuccess, SetReservation, StockType, ReservationType,
         ReservationStatus, OrderStatus, PaymentStatus

\* So does a failed one, with or without a hold to release.
LEMMA SettleFailureType ==
  ASSUME TypeOK, NEW r \in Reservations, SettleFailure(r)
  PROVE  StockType' /\ ReservationType' /\ order' \in [Reservations -> OrderStatus]
         /\ payment' \in [Reservations -> PaymentStatus]
<1>1. /\ order' \in [Reservations -> OrderStatus]
      /\ payment' \in [Reservations -> PaymentStatus]
  BY DEF TypeOK, SettleFailure, OrderStatus, PaymentStatus
<1>2. CASE ~Holding(r)
  BY <1>1, <1>2 DEF TypeOK, SettleFailure, StockType, ReservationType
<1>3. CASE Holding(r)
  <2>1. RestockUnversioned(r) /\ SetReservation(r, "CANCELLED")
    BY <1>3 DEF SettleFailure
  <2>2. StockType'
    BY <2>1, RestockType
  <2>3. ReservationType'
    BY <2>1 DEF TypeOK, SetReservation, ReservationType, ReservationStatus
  <2>4. QED
    BY <1>1, <2>2, <2>3
<1>4. QED
  BY <1>2, <1>3

\* Every step keeps the types. The decrement needs its guard Fits, and the request it
\* resumes needs HandlersFit.
LEMMA TypeStep == TypeOK /\ WellFormed /\ [Next]_vars => TypeOK'
<1> SUFFICES ASSUME TypeOK, WellFormed, [Next]_vars
             PROVE  TypeOK'
  OBVIOUS
<1> USE DEF OrderStatus, PaymentStatus, ExpireJobState, PaymentJobState
<1>0. ASSUME NEW q \in Requests, ReserveRequest(q)
      PROVE  TypeOK'
  BY <1>0, QuantityAssumption DEF ReserveRequest, TypeOK, BeginReserve, Waits
<1>1. ASSUME NEW q \in Requests, RequestStep(q)
      PROVE  TypeOK'
  <2> USE AwaitType, RespondType DEF Waits
  <2>2. ASSUME NEW r \in Reservations
        PROVE  /\ DecrementAndHold(q, r) => TypeOK'
               /\ CancelReservation(q, r) => TypeOK'
               /\ BeginOrder(q, r) => TypeOK'
               /\ BeginCancelOrder(q, r) => TypeOK'
               /\ BeginPayment(q, r) => TypeOK'
               /\ WebhookPaid(q, r) => TypeOK'
               /\ WebhookFailed(q, r) => TypeOK'
    <3>1. ASSUME DecrementAndHold(q, r)  PROVE TypeOK'
      <4> DEFINE t == request[q].ticketType
                 n == request[q].quantity
      <4>1. t \in TicketTypes /\ n \in Nat
        BY <3>1, QuantityAssumption DEF DecrementAndHold, WellFormed, HandlersFit
      <4>2. remainingQuantity' \in [TicketTypes -> Nat]
        BY <3>1, <4>1 DEF DecrementAndHold, Fits, TypeOK
      <4>3. version' \in [TicketTypes -> Nat]
        BY <3>1, IncrementType DEF DecrementAndHold, TypeOK
      <4>4. ReservationType'
        BY <3>1, <4>1 DEF DecrementAndHold, TypeOK, ReservationType, ReservationStatus
      <4>5. QED
        BY <3>1, <4>2, <4>3, <4>4 DEF DecrementAndHold, TypeOK, ReservationType
    <3>2. ASSUME CancelReservation(q, r)  PROVE TypeOK'
      BY <3>2, EndHoldType
         DEF CancelReservation, TypeOK, StockType, ReservationType, ReservationStatus
    <3>3. ASSUME BeginOrder(q, r)  PROVE TypeOK'
      BY <3>3 DEF BeginOrder, TypeOK
    <3>4. ASSUME BeginCancelOrder(q, r)  PROVE TypeOK'
      BY <3>4 DEF BeginCancelOrder, TypeOK
    <3>5. ASSUME BeginPayment(q, r)  PROVE TypeOK'
      BY <3>5 DEF BeginPayment, TypeOK
    <3>6. ASSUME WebhookPaid(q, r)  PROVE TypeOK'
      BY <3>6, SettleSuccessType DEF WebhookPaid, TypeOK, StockType, ReservationType
    <3>7. ASSUME WebhookFailed(q, r)  PROVE TypeOK'
      BY <3>7, SettleFailureType DEF WebhookFailed, TypeOK, StockType, ReservationType
    <3>8. QED
      BY <3>1, <3>2, <3>3, <3>4, <3>5, <3>6, <3>7
  <2>3. CASE AddExpireJob(q)
    BY <2>3 DEF AddExpireJob, TypeOK
  <2>4. CASE RemoveExpireJob(q)
    BY <2>4 DEF RemoveExpireJob, TypeOK
  <2>5. CASE InsertOrder(q)
    BY <2>5 DEF InsertOrder, TypeOK
  <2>6. CASE WriteCancelled(q)
    BY <2>6 DEF WriteCancelled, Subject, TypeOK
  <2>7. CASE ReleaseInternal(q)
    <3>1. Subject(q) \in Reservations
      BY <2>7 DEF ReleaseInternal, At, WellFormed, HandlersFit
    <3>2. QED
      BY <2>7, <3>1, EndHoldType
         DEF ReleaseInternal, TypeOK, StockType, ReservationType, ReservationStatus
  <2>8. CASE InsertPayment(q)
    BY <2>8 DEF InsertPayment, Subject, TypeOK
  <2>9. CASE AddPaymentJob(q)
    BY <2>9 DEF AddPaymentJob, TypeOK
  <2>10. CASE Fail(q)
    BY <2>10 DEF Fail, TypeOK
  <2>11. QED
    BY <1>1, <2>2, <2>3, <2>4, <2>5, <2>6, <2>7, <2>8, <2>9, <2>10 DEF RequestStep
<1>2. ASSUME NEW r \in Reservations, PaymentWorkerStep(r)
      PROVE  TypeOK'
  <2>1. CASE PaymentJobSettles(r)
    BY <2>1, SettleSuccessType DEF PaymentJobSettles, TypeOK, StockType, ReservationType
  <2>2. CASE PaymentJobDone(r) \/ PaymentJobRemovesExpireJob(r) \/ PaymentJobFails(r)
    BY <2>2 DEF PaymentJobDone, PaymentJobRemovesExpireJob, PaymentJobFails, TypeOK
  <2>3. QED
    BY <1>2, <2>1, <2>2 DEF PaymentWorkerStep
<1>3. ASSUME NEW r \in Reservations, ExpiryStep(r)
      PROVE  TypeOK'
  <2>1. CASE ExpireJobExpires(r) \/ CronExpires(r)
    BY <2>1, EndHoldType
       DEF ExpireJobExpires, CronExpires, TypeOK, StockType, ReservationType, ReservationStatus
  <2>2. CASE \/ HoldLapses(r) \/ ExpireJobStarts(r) \/ ExpireJobCompletes(r)
             \/ ExpireJobFails(r) \/ CronSkips(r)
    BY <2>2 DEF HoldLapses, ExpireJobStarts, ExpireJobCompletes, ExpireJobFails, CronSkips, TypeOK
  <2>3. QED
    BY <1>3, <2>1, <2>2 DEF ExpiryStep
<1>4. CASE CronScan
  BY <1>4 DEF CronScan, Overdue, TypeOK
<1>5. CASE Crash
  BY <1>5 DEF Crash, Idle, TypeOK
<1>6. CASE UNCHANGED vars
  BY <1>6 DEF vars, TypeOK
<1>7. QED
  BY <1>0, <1>1, <1>2, <1>3, <1>4, <1>5, <1>6 DEF Next, BookingStep

-----------------------------------------------------------------------------
(* The rows and the suspended handlers fit together. *)

\* Without rows and requests there is nothing to fit.
LEMMA WellFormedInit == Init => WellFormed
  BY NoneAssumption DEF Init, WellFormed, RowsExist, HandlersFit, At, Idle

\* No row is ever deleted, so what a suspended handler refers to is still there.
LEMMA WellFormedStep == TypeOK /\ WellFormed /\ [Next]_vars => WellFormed'
<1> SUFFICES ASSUME TypeOK, WellFormed, [Next]_vars
             PROVE  WellFormed'
  OBVIOUS
<1> USE DEF At, Subject, WellFormed, RowsExist, HandlersFit
<1>0. ASSUME NEW q \in Requests, ReserveRequest(q)
      PROVE  WellFormed'
  BY <1>0 DEF ReserveRequest, BeginReserve, TypeOK
<1>1. ASSUME NEW q \in Requests, RequestStep(q)
      PROVE  WellFormed'
  <2> USE DEF Await, Respond, Idle
  <2>2. ASSUME NEW r \in Reservations, DecrementAndHold(q, r)
        PROVE  WellFormed'
    BY <2>2 DEF DecrementAndHold, TypeOK
  <2>3. ASSUME NEW r \in Reservations, CancelReservation(q, r)
        PROVE  WellFormed'
    BY <2>3 DEF CancelReservation, EndHold, Holding, SetReservation, TypeOK
  <2>4. ASSUME NEW r \in Reservations,
               BeginOrder(q, r) \/ BeginCancelOrder(q, r) \/ BeginPayment(q, r)
        PROVE  WellFormed'
    <3>1. CASE BeginOrder(q, r)
      BY <3>1 DEF BeginOrder, Holding, TypeOK
    <3>2. CASE BeginCancelOrder(q, r)
      BY <3>2 DEF BeginCancelOrder, TypeOK
    <3>3. CASE BeginPayment(q, r)
      BY <3>3 DEF BeginPayment, TypeOK
    <3>4. QED
      BY <2>4, <3>1, <3>2, <3>3
  <2>5. ASSUME NEW r \in Reservations, WebhookPaid(q, r)
        PROVE  WellFormed'
    BY <2>5 DEF WebhookPaid, SettleSuccess, CanSettle, Holding, SetReservation, TypeOK
  <2>6. ASSUME NEW r \in Reservations, WebhookFailed(q, r)
        PROVE  WellFormed'
    <3>1. CASE Holding(r)
      <4>1. RowsExist'
        BY <2>6, <3>1 DEF WebhookFailed, SettleFailure, Holding, SetReservation, TypeOK
      <4>2. \A s \in Reservations :
              /\ reservation[s].status # "NONE" => reservation'[s].status # "NONE"
              /\ order[s] # "NONE" => order'[s] # "NONE"
        BY <2>6, <3>1 DEF WebhookFailed, SettleFailure, SetReservation, TypeOK
      <4>3. /\ request' = [request EXCEPT ![q] = [Idle EXCEPT !.at = "removeExpireJob",
                                                            !.reservation = r]]
            /\ reservation[r].status # "NONE"
        BY <2>6, <3>1 DEF WebhookFailed, Holding
      <4>4. ASSUME NEW p \in Requests, p # q
            PROVE  request'[p] = request[p]
        BY <4>3, <4>4 DEF TypeOK
      <4>5. request'[q].at = "removeExpireJob" /\ request'[q].reservation = r
        BY <4>3 DEF TypeOK
      <4>6. HandlersFit'
        BY <4>2, <4>3, <4>4, <4>5
      <4>7. QED
        BY <4>1, <4>6
    <3>2. CASE ~Holding(r)
      BY <2>6, <3>2 DEF WebhookFailed, SettleFailure, TypeOK
    <3>3. QED
      BY <3>1, <3>2
  <2>7. CASE AddExpireJob(q) \/ RemoveExpireJob(q) \/ AddPaymentJob(q) \/ Fail(q)
    BY <2>7 DEF AddExpireJob, RemoveExpireJob, AddPaymentJob, Fail, TypeOK
  <2>8. CASE InsertOrder(q)
    BY <2>8 DEF InsertOrder, TypeOK
  <2>9. CASE WriteCancelled(q)
    BY <2>9 DEF WriteCancelled, TypeOK
  <2>10. CASE ReleaseInternal(q)
    BY <2>10 DEF ReleaseInternal, EndHold, Holding, SetReservation, TypeOK
  <2>11. CASE InsertPayment(q)
    BY <2>11 DEF InsertPayment, TypeOK
  <2>12. QED
    BY <1>1, <2>2, <2>3, <2>4, <2>5, <2>6, <2>7, <2>8, <2>9, <2>10, <2>11 DEF RequestStep
<1>2. ASSUME NEW r \in Reservations, PaymentWorkerStep(r)
      PROVE  WellFormed'
  <2>1. CASE PaymentJobSettles(r)
    BY <2>1 DEF PaymentJobSettles, SettleSuccess, CanSettle, Holding, SetReservation,
                TypeOK
  <2>2. CASE PaymentJobDone(r) \/ PaymentJobRemovesExpireJob(r) \/ PaymentJobFails(r)
    BY <2>2 DEF PaymentJobDone, PaymentJobRemovesExpireJob, PaymentJobFails, TypeOK
  <2>3. QED
    BY <1>2, <2>1, <2>2 DEF PaymentWorkerStep
<1>3. ASSUME NEW r \in Reservations, ExpiryStep(r)
      PROVE  WellFormed'
  <2>1. CASE ExpireJobExpires(r) \/ CronExpires(r)
    <3>1. CASE ExpireJobExpires(r)
      BY <3>1 DEF ExpireJobExpires, EndHold, Holding, SetReservation, TypeOK
    <3>2. CASE CronExpires(r)
      BY <3>2 DEF CronExpires, EndHold, Holding, SetReservation, TypeOK
    <3>3. QED
      BY <2>1, <3>1, <3>2
  <2>2. CASE \/ HoldLapses(r) \/ ExpireJobStarts(r) \/ ExpireJobCompletes(r)
             \/ ExpireJobFails(r) \/ CronSkips(r)
    BY <2>2 DEF HoldLapses, ExpireJobStarts, ExpireJobCompletes, ExpireJobFails, CronSkips,
                TypeOK
  <2>3. QED
    BY <1>3, <2>1, <2>2 DEF ExpiryStep
<1>4. CASE CronScan
  BY <1>4 DEF CronScan, Overdue, TypeOK
<1>5. CASE Crash
  BY <1>5 DEF Crash, Idle, TypeOK
<1>6. CASE UNCHANGED vars
  BY <1>6 DEF vars
<1>7. QED
  BY <1>0, <1>1, <1>2, <1>3, <1>4, <1>5, <1>6 DEF Next, BookingStep

\* The strengthened types are invariant.
LEMMA TypesHold == Spec => [](TypeOK /\ WellFormed)
<1>1. Init => TypeOK /\ WellFormed
  BY TypeInit, WellFormedInit
<1>2. TypeOK /\ WellFormed /\ [Next]_vars => (TypeOK /\ WellFormed)'
  BY TypeStep, WellFormedStep
<1>3. QED
  BY <1>1, <1>2, PTL DEF Spec

\* Every variable keeps its type (in particular remainingQuantity is never
\* negative), whatever the number of concurrent requests.
THEOREM TypeCorrect == Spec => []TypeOK
<1>1. TypeOK /\ WellFormed => TypeOK
  OBVIOUS
<1>2. QED
  BY <1>1, TypesHold, PTL

-----------------------------------------------------------------------------
(* The agreement of reservation, order and payment. *)

\* What every step does to one booking, as far as its three statuses go.
StatusStep(r) ==
    \/ UNCHANGED <<reservation[r], order[r], payment[r]>>
    \/ /\ reservation[r].status = "NONE" /\ reservation'[r].status = "HOLDING"
       /\ UNCHANGED <<order[r], payment[r]>>
    \/ /\ Holding(r) 
       /\ \E status \in {"EXPIRED", "CANCELLED"} :
            reservation'[r] = [reservation[r] EXCEPT !.status = status]
       /\ UNCHANGED <<order[r], payment[r]>>
    \/ /\ order[r] = "NONE" /\ order'[r] = "PENDING"
       /\ UNCHANGED <<reservation[r], payment[r]>>
    \/ /\ order[r] # "NONE" /\ order'[r] = "CANCELLED"
       /\ UNCHANGED <<reservation[r], payment[r]>>
    \/ /\ payment[r] = "NONE" /\ payment'[r] = "PENDING"
       /\ UNCHANGED <<reservation[r], order[r]>>
    \/ /\ CanSettle(r)
       /\ payment'[r] = "PAID" /\ order'[r] = "PAID"
       /\ reservation'[r] = [reservation[r] EXCEPT !.status = "CONFIRMED"]
    \/ /\ payment[r] = "PENDING" /\ payment'[r] = "FAILED"
       /\ order'[r] = IF order[r] = "PENDING" THEN "CANCELLED" ELSE order[r]
       /\ reservation'[r] = IF Holding(r) THEN [reservation[r] EXCEPT !.status = "CANCELLED"]
                                       ELSE reservation[r]

\* The end of a hold changes one reservation and nothing of its order and payment.
LEMMA EndHoldStatus ==
  ASSUME TypeOK, NEW s \in Reservations, NEW status \in {"EXPIRED", "CANCELLED"},
         EndHold(s, status), NEW r \in Reservations
  PROVE  StatusStep(r)
  BY DEF TypeOK, EndHold, Holding, SetReservation, StatusStep

\* A successful settlement changes the three rows of one booking together.
LEMMA SettleSuccessStatus ==
  ASSUME TypeOK, NEW s \in Reservations, SettleSuccess(s), NEW r \in Reservations
  PROVE  StatusStep(r)
  BY DEF TypeOK, SettleSuccess, CanSettle, SetReservation, StatusStep

\* A failed settlement ends the payment, a pending order and the hold, if there is one.
LEMMA SettleFailureStatus ==
  ASSUME TypeOK, NEW s \in Reservations, SettleFailure(s), NEW r \in Reservations
  PROVE  StatusStep(r)
  BY DEF TypeOK, SettleFailure, Holding, SetReservation, StatusStep

\* Every step is one of the status changes above, for every booking.
LEMMA EveryStatusStep ==
  ASSUME TypeOK, WellFormed, [Next]_vars, NEW r \in Reservations
  PROVE  StatusStep(r)
<1>1. CASE UNCHANGED tables
  BY <1>1 DEF StatusStep
<1>2. ASSUME NEW q \in Requests, RequestStep(q)
      PROVE  StatusStep(r)
  <2>1. \/ UNCHANGED tables
        \/ \E s \in Reservations :
             \/ DecrementAndHold(q, s) \/ CancelReservation(q, s)
             \/ WebhookPaid(q, s) \/ WebhookFailed(q, s)
        \/ InsertOrder(q) \/ WriteCancelled(q) \/ ReleaseInternal(q) \/ InsertPayment(q)
    BY <1>2 DEF RequestStep, BeginOrder, BeginCancelOrder, BeginPayment,
                AddExpireJob, RemoveExpireJob, AddPaymentJob, Fail
  <2>2. ASSUME NEW s \in Reservations, DecrementAndHold(q, s)
        PROVE  StatusStep(r)
    BY <2>2 DEF DecrementAndHold, TypeOK, StatusStep
  <2>3. ASSUME NEW s \in Reservations, CancelReservation(q, s)
        PROVE  StatusStep(r)
    BY <2>3, EndHoldStatus DEF CancelReservation
  <2>4. ASSUME NEW s \in Reservations, WebhookPaid(q, s) \/ WebhookFailed(q, s)
        PROVE  StatusStep(r)
    BY <2>4, SettleSuccessStatus, SettleFailureStatus DEF WebhookPaid, WebhookFailed
  <2>5. CASE InsertOrder(q)
    BY <2>5 DEF InsertOrder, TypeOK, StatusStep
  <2>6. CASE WriteCancelled(q)
    BY <2>6 DEF WriteCancelled, At, WellFormed, HandlersFit, TypeOK, StatusStep
  <2>7. CASE ReleaseInternal(q)
    <3>1. Subject(q) \in Reservations
      BY <2>7 DEF ReleaseInternal, At, WellFormed, HandlersFit
    <3>2. QED
      BY <2>7, <3>1, EndHoldStatus DEF ReleaseInternal
  <2>8. CASE InsertPayment(q)
    BY <2>8 DEF InsertPayment, TypeOK, StatusStep
  <2>9. QED
    BY <1>1, <2>1, <2>2, <2>3, <2>4, <2>5, <2>6, <2>7, <2>8
<1>3. ASSUME NEW s \in Reservations, PaymentWorkerStep(s)
      PROVE  StatusStep(r)
  BY <1>1, <1>3, SettleSuccessStatus
     DEF PaymentWorkerStep, PaymentJobSettles, PaymentJobDone,
         PaymentJobRemovesExpireJob, PaymentJobFails
<1>4. ASSUME NEW s \in Reservations, ExpiryStep(s)
      PROVE  StatusStep(r)
  BY <1>1, <1>4, EndHoldStatus
     DEF ExpiryStep, ExpireJobExpires, CronExpires, HoldLapses, ExpireJobStarts,
         ExpireJobCompletes, ExpireJobFails, CronSkips
<1>5. QED
  BY <1>1, <1>2, <1>3, <1>4 DEF Next, BookingStep, ReserveRequest, BeginReserve, CronScan, Crash, vars

\* There is no sale to begin with.
LEMMA SaleInit == Init => SaleIsAtomic /\ FailedPaymentEndsBooking
  BY DEF Init, SaleIsAtomic, FailedPaymentEndsBooking

\* Each status change keeps the three rows of a booking in agreement.
LEMMA SaleStep ==
  TypeOK /\ WellFormed /\ SaleIsAtomic /\ FailedPaymentEndsBooking /\ [Next]_vars
    => SaleIsAtomic' /\ FailedPaymentEndsBooking'
<1> SUFFICES ASSUME TypeOK, WellFormed, SaleIsAtomic, FailedPaymentEndsBooking, [Next]_vars,
                    NEW r \in Reservations
             PROVE  /\ payment'[r] \in {"PAID", "REFUNDED"} <=> reservation'[r].status = "CONFIRMED"
                    /\ order'[r] \in {"PAID", "REFUNDED"} => payment'[r] = order'[r]
                    /\ payment'[r] = "FAILED" =>
                         /\ order'[r] = "CANCELLED"
                         /\ reservation'[r].status \in {"EXPIRED", "CANCELLED"}
  BY DEF SaleIsAtomic, FailedPaymentEndsBooking
<1>1. StatusStep(r)
  BY EveryStatusStep
<1>2. QED
  BY <1>1 DEF StatusStep, CanSettle, Holding, SaleIsAtomic, FailedPaymentEndsBooking,
              TypeOK, ReservationStatus, OrderStatus, PaymentStatus, WellFormed, RowsExist

\* In every reachable state, and for any number of concurrent requests, money
\* is taken exactly for confirmed reservations: the invariant is inductive
\* because each transaction re-checks the status it moves away from.
THEOREM SaleAtomicity == Spec => [](SaleIsAtomic /\ FailedPaymentEndsBooking)
<1>1. TypeOK /\ WellFormed /\ SaleIsAtomic /\ FailedPaymentEndsBooking /\ [Next]_vars
        => (SaleIsAtomic /\ FailedPaymentEndsBooking)'
  BY SaleStep
<1>2. QED
  BY <1>1, SaleInit, TypesHold, PTL DEF Spec

\* In particular, a failed payment leaves neither order nor hold usable, whichever
\* of the expiry, the cancellations and the webhook came first.
THEOREM FailureEndsBooking == Spec => []FailedPaymentEndsBooking
<1>1. SaleIsAtomic /\ FailedPaymentEndsBooking => FailedPaymentEndsBooking
  OBVIOUS
<1>2. QED
  BY <1>1, SaleAtomicity, PTL

\* What a step may not do to a booking that has ended.
FinalStep ==
    \A r \in Reservations :
      /\ reservation[r].status \in {"CONFIRMED", "EXPIRED", "CANCELLED"}
           => reservation'[r] = reservation[r]
      /\ payment[r] = "FAILED" => payment'[r] = "FAILED"
      /\ payment[r] = "PAID" => payment'[r] \in {"PAID", "REFUNDED"}
      /\ order[r] = "CANCELLED" => order'[r] = "CANCELLED"

\* Every writer re-checks the status it moves away from.
LEMMA FinalStatusesStep ==
  ASSUME TypeOK, WellFormed, [Next]_vars
  PROVE  FinalStep
<1> SUFFICES ASSUME NEW r \in Reservations
             PROVE  /\ reservation[r].status \in {"CONFIRMED", "EXPIRED", "CANCELLED"}
                         => reservation'[r] = reservation[r]
                    /\ payment[r] = "FAILED" => payment'[r] = "FAILED"
                    /\ payment[r] = "PAID" => payment'[r] \in {"PAID", "REFUNDED"}
                    /\ order[r] = "CANCELLED" => order'[r] = "CANCELLED"
  BY DEF FinalStep
<1>1. StatusStep(r)
  BY EveryStatusStep
<1>2. QED
  BY <1>1 DEF StatusStep, CanSettle, Holding

\* The statuses a booking has ended in are never left.
THEOREM StatusesFinal == Spec => FinalStatuses
<1>1. TypeOK /\ WellFormed /\ [Next]_vars => [FinalStep]_vars
  BY FinalStatusesStep
<1>2. QED
  BY <1>1, TypesHold, PTL DEF Spec, FinalStatuses, FinalStep

-----------------------------------------------------------------------------
(* No hold is expired before its time. *)

\* Only a lapsed hold is in the hands of the worker or of a cron scan.
LEMMA ExpiryStepLapsed ==
  ASSUME TypeOK, WellFormed, NoEarlyExpiry, [Next]_vars
  PROVE  NoEarlyExpiry'
<1>1. lapsed \subseteq lapsed'
  BY DEF Next, BookingStep, ReserveRequest, BeginReserve, RequestStep, PaymentWorkerStep, ExpiryStep, vars,
         DecrementAndHold, CancelReservation, BeginOrder, BeginCancelOrder, BeginPayment,
         WebhookPaid, WebhookFailed, AddExpireJob, RemoveExpireJob, InsertOrder,
         WriteCancelled, ReleaseInternal, InsertPayment, AddPaymentJob, Fail,
         PaymentJobSettles, PaymentJobDone, PaymentJobRemovesExpireJob, PaymentJobFails,
         HoldLapses, ExpireJobStarts, ExpireJobExpires, ExpireJobCompletes, ExpireJobFails,
         CronExpires, CronSkips, CronScan, Crash
<1> SUFFICES ASSUME NEW r \in Reservations, reservation'[r].status = "EXPIRED"
             PROVE  reservation[r].status = "EXPIRED" \/ r \in lapsed
  BY <1>1 DEF NoEarlyExpiry
<1>2. CASE UNCHANGED reservation
  BY <1>2
<1>3. ASSUME NEW q \in Requests, RequestStep(q)
      PROVE  reservation[r].status = "EXPIRED"
  BY <1>3, <1>2
     DEF RequestStep, DecrementAndHold, CancelReservation, BeginOrder,
         BeginCancelOrder, BeginPayment, WebhookPaid, WebhookFailed, AddExpireJob,
         RemoveExpireJob, InsertOrder, WriteCancelled, ReleaseInternal, InsertPayment,
         AddPaymentJob, Fail, SettleSuccess, SettleFailure, EndHold, SetReservation, TypeOK
<1>4. ASSUME NEW s \in Reservations, PaymentWorkerStep(s)
      PROVE  reservation[r].status = "EXPIRED"
  BY <1>4
     DEF PaymentWorkerStep, PaymentJobSettles, PaymentJobDone, PaymentJobRemovesExpireJob,
         PaymentJobFails, SettleSuccess, SetReservation, TypeOK
<1>5. ASSUME NEW s \in Reservations, ExpiryStep(s)
      PROVE  reservation[r].status = "EXPIRED" \/ r \in lapsed
  <2>1. CASE ExpireJobExpires(s) \/ CronExpires(s)
    <3>1. s \in lapsed
      BY <2>1 DEF ExpireJobExpires, CronExpires, WellFormed, RowsExist
    <3>2. reservation' = [reservation EXCEPT ![s].status = "EXPIRED"]
      BY <2>1 DEF ExpireJobExpires, CronExpires, EndHold, SetReservation
    <3>3. QED
      BY <3>1, <3>2 DEF TypeOK
  <2>2. CASE UNCHANGED reservation
    BY <2>2
  <2>3. QED
    BY <1>5, <2>1, <2>2
       DEF ExpiryStep, HoldLapses, ExpireJobStarts, ExpireJobCompletes, ExpireJobFails, CronSkips
<1>6. QED
  BY <1>2, <1>3, <1>4, <1>5 DEF Next, BookingStep, ReserveRequest, BeginReserve, CronScan, Crash, vars

\* The worker and the cron expire a hold only once its expiresAt has passed,
\* although the transaction they share does not look at it.
THEOREM ExpiryNotEarly == Spec => []NoEarlyExpiry
<1>1. Init => NoEarlyExpiry
  BY DEF Init, NoEarlyExpiry
<1>2. TypeOK /\ WellFormed /\ NoEarlyExpiry /\ [Next]_vars => NoEarlyExpiry'
  BY ExpiryStepLapsed
<1>3. QED
  BY <1>1, <1>2, TypesHold, PTL DEF Spec

-----------------------------------------------------------------------------
(* Seats. *)

\* A booking of n seats has n seats.
LEMMA SeatsSize ==
  ASSUME NEW r, NEW n \in Nat
  PROVE  IsFiniteSet({r} \X (1..n)) /\ Cardinality({r} \X (1..n)) = n
<1>1. IsFiniteSet({r}) /\ Cardinality({r}) = 1
  BY FS_Singleton
<1>2. IsFiniteSet(1..n) /\ Cardinality(1..n) = n
  BY FS_Interval
<1>3. IsFiniteSet({r} \X (1..n)) /\ Cardinality({r} \X (1..n)) = 1 * n
  BY <1>1, <1>2, FS_Product
<1>4. QED
  BY <1>3

\* The claims of a ticket type grow by the seats of a new hold.
LEMMA ClaimsOfHold ==
  ASSUME TypeOK, NEW r \in Reservations, NEW t \in TicketTypes, NEW n \in Nat,
         reservation[r].status = "NONE",
         reservation' = [reservation EXCEPT
                           ![r] = [status |-> "HOLDING", ticketType |-> t, quantity |-> n]],
         NEW u \in TicketTypes
  PROVE  /\ Claims(u)' = IF u = t THEN Claims(u) \cup ({r} \X (1..n)) ELSE Claims(u)
         /\ Claims(u) \cap ({r} \X (1..n)) = {}
<1>1. r \notin Claimants(u)
  BY DEF Claimants
<1>2. Claimants(u)' = IF u = t THEN Claimants(u) \cup {r} ELSE Claimants(u)
  BY DEF Claimants, TypeOK
<1>3. \A s \in Reservations : s # r => Seats(s)' = Seats(s)
  BY DEF Seats, TypeOK
<1>4. Seats(r)' = {r} \X (1..n)
  BY DEF Seats, TypeOK
<1>5. \A s \in Claimants(u) : s \in Reservations /\ s # r
  BY <1>1 DEF Claimants
<1>6. QED
  <2>1. Claims(u)' = IF u = t THEN Claims(u) \cup ({r} \X (1..n)) ELSE Claims(u)
    BY <1>2, <1>3, <1>4, <1>5 DEF Claims
  <2>2. \A s \in Claimants(u) : Seats(s) \cap ({r} \X (1..n)) = {}
    BY <1>5 DEF Seats
  <2>3. QED
    BY <2>1, <2>2 DEF Claims

\* They shrink by the seats of a hold that ends.
LEMMA ClaimsOfEnd ==
  ASSUME TypeOK, NEW r \in Reservations, Holding(r),
         NEW status \in {"EXPIRED", "CANCELLED"}, SetReservation(r, status),
         NEW u \in TicketTypes
  PROVE  /\ Claims(u)' = IF u = reservation[r].ticketType THEN Claims(u) \ Seats(r)
                                                         ELSE Claims(u)
         /\ u = reservation[r].ticketType => Seats(r) \subseteq Claims(u)
<1>1. Claimants(u)' = Claimants(u) \ {r}
  BY DEF Claimants, SetReservation, TypeOK
<1>2. \A s \in Reservations : Seats(s)' = Seats(s)
  BY DEF Seats, SetReservation, TypeOK
<1>3. r \in Claimants(u) <=> u = reservation[r].ticketType
  BY DEF Claimants, Holding
<1>4. \A s \in Claimants(u) : s \in Reservations
  BY DEF Claimants
<1>5. \A s \in Claimants(u) : s # r => Seats(s) \cap Seats(r) = {}
  BY DEF Seats
<1>6. QED
  BY <1>1, <1>2, <1>3, <1>4, <1>5 DEF Claims

\* A sale moves no seat.
LEMMA ClaimsOfSale ==
  ASSUME TypeOK, NEW r \in Reservations, Holding(r), SetReservation(r, "CONFIRMED"),
         NEW u \in TicketTypes
  PROVE  Claims(u)' = Claims(u)
<1>1. Claimants(u)' = Claimants(u)
  BY DEF Claimants, SetReservation, Holding, TypeOK
<1>2. \A s \in Reservations : Seats(s)' = Seats(s)
  BY DEF Seats, SetReservation, TypeOK
<1>3. \A s \in Claimants(u) : s \in Reservations
  BY DEF Claimants
<1>4. QED
  BY <1>1, <1>2, <1>3 DEF Claims

ClaimsFinite == \A t \in TicketTypes : IsFiniteSet(Claims(t))

SeatsInvariant == ClaimsFinite /\ SeatsConserved

\* At first every seat remains.
LEMMA SeatsInit == Init => SeatsInvariant
<1> SUFFICES ASSUME Init, NEW t \in TicketTypes
             PROVE  /\ IsFiniteSet(Claims(t))
                    /\ remainingQuantity[t] + Cardinality(Claims(t)) = totalQuantity[t]
  BY DEF SeatsInvariant, ClaimsFinite, SeatsConserved
<1>1. Claims(t) = {}
  BY DEF Init, Claims, Claimants
<1>2. QED
  BY <1>1, FS_EmptySet, CapacityAssumption DEF Init

\* The part of a new hold that moves seats.
TakeSeats(r, t, n) ==
    /\ Fits(t, n)
    /\ reservation[r].status = "NONE"
    /\ reservation' = [reservation EXCEPT
                         ![r] = [status |-> "HOLDING", ticketType |-> t, quantity |-> n]]
    /\ remainingQuantity' = [remainingQuantity EXCEPT ![t] = @ - n]
    /\ UNCHANGED <<totalQuantity, payment>>

\* It takes what the request has asked for.
LEMMA DecrementTakes ==
  ASSUME WellFormed, NEW q \in Requests, NEW r \in Reservations, DecrementAndHold(q, r)
  PROVE  /\ request[q].ticketType \in TicketTypes
         /\ request[q].quantity \in Quantities
         /\ TakeSeats(r, request[q].ticketType, request[q].quantity)
  BY DEF DecrementAndHold, WellFormed, HandlersFit, TakeSeats

\* A new hold adds its seats to the claims of its ticket type.
LEMMA CountOfHold ==
  ASSUME TypeOK, ClaimsFinite, NEW r \in Reservations, NEW t \in TicketTypes,
         NEW n \in Quantities, TakeSeats(r, t, n), NEW u \in TicketTypes
  PROVE  /\ IsFiniteSet(Claims(u)')
         /\ Cardinality(Claims(u)) \in Nat
         /\ Cardinality(Claims(u)') = IF u = t THEN Cardinality(Claims(u)) + n
                                             ELSE Cardinality(Claims(u))
<1>1. n \in Nat
  BY QuantityAssumption
<1>2. /\ Claims(u)' = IF u = t THEN Claims(u) \cup ({r} \X (1..n)) ELSE Claims(u)
      /\ Claims(u) \cap ({r} \X (1..n)) = {}
  BY <1>1, ClaimsOfHold DEF TakeSeats
<1>3. IsFiniteSet(Claims(u)) /\ Cardinality(Claims(u)) \in Nat
  BY FS_CardinalityType DEF ClaimsFinite
<1>4. CASE u = t
  <2>1. IsFiniteSet({r} \X (1..n)) /\ Cardinality({r} \X (1..n)) = n
    BY <1>1, SeatsSize
  <2>2. Claims(u)' = Claims(u) \cup ({r} \X (1..n))
    BY <1>2, <1>4
  <2>3. /\ IsFiniteSet(Claims(u) \cup ({r} \X (1..n)))
        /\ Cardinality(Claims(u) \cup ({r} \X (1..n))) =
             Cardinality(Claims(u)) + Cardinality({r} \X (1..n))
               - Cardinality(Claims(u) \cap ({r} \X (1..n)))
    BY <1>3, <2>1, FS_Union
  <2>4. Cardinality(Claims(u) \cap ({r} \X (1..n))) = 0
    BY <1>2, FS_EmptySet
  <2>5. QED
    BY <1>1, <1>3, <1>4, <2>1, <2>2, <2>3, <2>4
<1>5. CASE u # t
  BY <1>2, <1>3, <1>5
<1>6. QED
  BY <1>4, <1>5

\* A new hold takes as many seats as the decrement.
LEMMA SeatsOfHold ==
  ASSUME TypeOK, SeatsInvariant, NEW r \in Reservations, NEW t \in TicketTypes,
         NEW n \in Quantities, TakeSeats(r, t, n)
  PROVE  SeatsInvariant'
<1>1. n \in Nat
  BY QuantityAssumption
<1>2. SUFFICES ASSUME NEW u \in TicketTypes
               PROVE  /\ IsFiniteSet(Claims(u)')
                      /\ remainingQuantity'[u] + Cardinality(Claims(u)') = totalQuantity'[u]
  BY DEF SeatsInvariant, ClaimsFinite, SeatsConserved
<1>3. /\ IsFiniteSet(Claims(u)')
      /\ Cardinality(Claims(u)) \in Nat
      /\ Cardinality(Claims(u)') = IF u = t THEN Cardinality(Claims(u)) + n
                                            ELSE Cardinality(Claims(u))
  BY CountOfHold DEF SeatsInvariant
<1>4. remainingQuantity[u] + Cardinality(Claims(u)) = totalQuantity[u]
  BY DEF SeatsInvariant, SeatsConserved
<1>5. /\ remainingQuantity' = [remainingQuantity EXCEPT ![t] = @ - n]
      /\ totalQuantity' = totalQuantity
      /\ remainingQuantity \in [TicketTypes -> Nat]
  BY DEF TakeSeats, TypeOK
<1>6. QED
  BY <1>1, <1>3, <1>4, <1>5

\* A hold that ends takes its seats out of the claims of its ticket type.
LEMMA CountOfEnd ==
  ASSUME TypeOK, WellFormed, ClaimsFinite, NEW r \in Reservations, Holding(r),
         NEW status \in {"EXPIRED", "CANCELLED"}, SetReservation(r, status),
         NEW u \in TicketTypes
  PROVE  /\ IsFiniteSet(Claims(u)')
         /\ Cardinality(Claims(u)) \in Nat
         /\ Cardinality(Claims(u)') = IF u = reservation[r].ticketType
                                     THEN Cardinality(Claims(u)) - reservation[r].quantity
                                     ELSE Cardinality(Claims(u))
<1> DEFINE t == reservation[r].ticketType
           n == reservation[r].quantity
<1>1. t \in TicketTypes /\ n \in Nat
  BY DEF Holding, WellFormed, RowsExist, TypeOK
<1>2. /\ Claims(u)' = IF u = t THEN Claims(u) \ Seats(r) ELSE Claims(u)
      /\ u = t => Seats(r) \subseteq Claims(u)
  BY ClaimsOfEnd
<1>3. IsFiniteSet(Claims(u)) /\ Cardinality(Claims(u)) \in Nat
  BY FS_CardinalityType DEF ClaimsFinite
<1>4. CASE u = t
  <2>1. Cardinality(Seats(r)) = n
    BY <1>1, SeatsSize DEF Seats
  <2>2. Claims(u)' = Claims(u) \ Seats(r) /\ Claims(u) \cap Seats(r) = Seats(r)
    BY <1>2, <1>4
  <2>3. /\ IsFiniteSet(Claims(u) \ Seats(r))
        /\ Cardinality(Claims(u) \ Seats(r)) =
             Cardinality(Claims(u)) - Cardinality(Claims(u) \cap Seats(r))
    BY <1>3, FS_Difference
  <2>4. QED
    BY <1>3, <1>4, <2>1, <2>2, <2>3
<1>5. CASE u # t
  BY <1>2, <1>3, <1>5
<1>6. QED
  BY <1>4, <1>5

\* A hold that ends gives back exactly the seats it had, with or without a new version.
LEMMA SeatsOfEnd ==
  ASSUME TypeOK, WellFormed, SeatsInvariant, NEW r \in Reservations, Holding(r),
         NEW status \in {"EXPIRED", "CANCELLED"}, SetReservation(r, status),
         Restock(r) \/ RestockUnversioned(r)
  PROVE  SeatsInvariant'
<1> DEFINE t == reservation[r].ticketType
           n == reservation[r].quantity
<1>1. t \in TicketTypes /\ n \in Nat
  BY DEF Holding, WellFormed, RowsExist, TypeOK
<1>2. SUFFICES ASSUME NEW u \in TicketTypes
               PROVE  /\ IsFiniteSet(Claims(u)')
                      /\ remainingQuantity'[u] + Cardinality(Claims(u)') = totalQuantity'[u]
  BY DEF SeatsInvariant, ClaimsFinite, SeatsConserved
<1>3. /\ IsFiniteSet(Claims(u)')
      /\ Cardinality(Claims(u)) \in Nat
      /\ Cardinality(Claims(u)') = IF u = t THEN Cardinality(Claims(u)) - n
                                            ELSE Cardinality(Claims(u))
  BY CountOfEnd DEF SeatsInvariant
<1>4. remainingQuantity[u] + Cardinality(Claims(u)) = totalQuantity[u]
  BY DEF SeatsInvariant, SeatsConserved
<1>5. /\ remainingQuantity' = [remainingQuantity EXCEPT ![t] = @ + n]
      /\ totalQuantity' = totalQuantity
      /\ remainingQuantity \in [TicketTypes -> Nat]
  BY DEF Restock, RestockUnversioned, TypeOK
<1>6. QED
  BY <1>1, <1>3, <1>4, <1>5

\* A sale leaves the counter and the claims alone.
LEMMA SeatsOfSale ==
  ASSUME TypeOK, SeatsInvariant, NEW r \in Reservations, SettleSuccess(r)
  PROVE  SeatsInvariant'
<1>1. \A u \in TicketTypes : Claims(u)' = Claims(u)
  BY ClaimsOfSale DEF SettleSuccess, CanSettle
<1>2. QED
  BY <1>1 DEF SettleSuccess, SeatsInvariant, ClaimsFinite, SeatsConserved

\* A step that touches neither stock nor reservations keeps the seats.
LEMMA SeatsUnchanged ==
  ASSUME SeatsInvariant, UNCHANGED <<stock, reservation>>
  PROVE  SeatsInvariant'
<1>1. \A u \in TicketTypes : Claims(u)' = Claims(u)
  BY DEF Claims, Claimants, Seats
<1>2. QED
  BY <1>1 DEF SeatsInvariant, ClaimsFinite, SeatsConserved

\* What a step does to the seats, whoever takes it.
LEMMA EverySeatStep ==
  ASSUME WellFormed, [Next]_vars
  PROVE  \/ UNCHANGED <<stock, reservation>>
         \/ \E q \in Requests, r \in Reservations : DecrementAndHold(q, r)
         \/ \E r \in Reservations :
              \/ \E status \in {"EXPIRED", "CANCELLED"} : EndHold(r, status)
              \/ SettleSuccess(r)
              \/ SettleFailure(r)
<1>1. CASE UNCHANGED vars
  BY <1>1 DEF vars
<1>2. ASSUME NEW q \in Requests, RequestStep(q)
      PROVE  \/ UNCHANGED <<stock, reservation>>
             \/ \E r \in Reservations :
                  \/ DecrementAndHold(q, r)
                  \/ EndHold(r, "CANCELLED")
                  \/ SettleSuccess(r)
                  \/ SettleFailure(r)
  <2>1. CASE ReleaseInternal(q)
    BY <2>1 DEF ReleaseInternal, At, WellFormed, HandlersFit
  <2>2. QED
    BY <1>2, <2>1
       DEF RequestStep, CancelReservation, BeginOrder, BeginCancelOrder,
           BeginPayment, WebhookPaid, WebhookFailed, AddExpireJob, RemoveExpireJob,
           InsertOrder, WriteCancelled, InsertPayment, AddPaymentJob, Fail
<1>3. ASSUME NEW r \in Reservations, PaymentWorkerStep(r) \/ ExpiryStep(r)
      PROVE  \/ UNCHANGED <<stock, reservation, payment>>
             \/ EndHold(r, "EXPIRED")
             \/ SettleSuccess(r)
  BY <1>3
     DEF PaymentWorkerStep, PaymentJobSettles, PaymentJobDone, PaymentJobRemovesExpireJob,
         PaymentJobFails, ExpiryStep, HoldLapses, ExpireJobStarts, ExpireJobExpires,
         ExpireJobCompletes, ExpireJobFails, CronExpires, CronSkips
<1>4. CASE CronScan \/ Crash \/ \E q \in Requests : ReserveRequest(q)
  BY <1>4 DEF CronScan, Crash, ReserveRequest, BeginReserve
<1>5. QED
  BY <1>1, <1>2, <1>3, <1>4 DEF Next, BookingStep

\* The conservation of seats is inductive once the claims are known to be finite.
LEMMA SeatsStep ==
  TypeOK /\ WellFormed /\ SeatsInvariant /\ [Next]_vars => SeatsInvariant'
<1> SUFFICES ASSUME TypeOK, WellFormed, SeatsInvariant, [Next]_vars
             PROVE  SeatsInvariant'
  OBVIOUS
<1>1. ASSUME NEW r \in Reservations, NEW status \in {"EXPIRED", "CANCELLED"}, EndHold(r, status)
      PROVE  SeatsInvariant'
  BY <1>1, SeatsOfEnd DEF EndHold
<1>2. ASSUME NEW r \in Reservations, SettleFailure(r)
      PROVE  SeatsInvariant'
  BY <1>2, SeatsOfEnd, SeatsUnchanged DEF SettleFailure
<1>3. QED
  BY <1>1, <1>2, EverySeatStep, DecrementTakes, SeatsOfHold, SeatsOfSale, SeatsUnchanged

\* remainingQuantity plus the seats of the holds and sales is always the total,
\* for every capacity and any number of reservations and concurrent requests.
THEOREM SeatConservation == Spec => []SeatsConserved
<1>1. Spec => []SeatsInvariant
  BY SeatsInit, SeatsStep, TypesHold, PTL DEF Spec
<1>2. SeatsInvariant => SeatsConserved
  BY DEF SeatsInvariant
<1>3. QED
  BY <1>1, <1>2, PTL

-----------------------------------------------------------------------------
(* Booking implements TicketLedger. *)

\* The ledger's claims are the seats of the holds and sales.
LEMMA ClaimedByLedger ==
  ASSUME NEW t \in TicketTypes
  PROVE  Ledger!Claimed(t) = Claims(t)
<1>1. {c \in Reservations : /\ claimed[c].status \in {"held", "sold"}
                            /\ claimed[c].ticketType = t} = Claimants(t)
  BY DEF claimed, ClaimStatus, Claimants
<1>2. \A r \in Reservations : claimed[r].quantity = reservation[r].quantity
  BY DEF claimed
<1>3. \A r \in Claimants(t) : r \in Reservations
  BY DEF Claimants
<1>4. QED
  BY <1>1, <1>2, <1>3 DEF Ledger!Claimed, Claims, Seats

\* The instance has a copy of its own of the library's operator.
LEMMA LedgerCardinality ==
  ASSUME NEW S
  PROVE  Ledger!Cardinality(S) = Cardinality(S)
  BY Zenon DEF Ledger!Cardinality, Cardinality

\* The initial tables are an empty ledger.
LEMMA LedgerInit == Init => Ledger!Init
  BY DEF Init, Ledger!Init, claimed, captured, ClaimStatus, MoneyStatus

\* What the ledger needs: the counter never offers more than the claims leave.
NothingOversold ==
    /\ ClaimsFinite
    /\ \A t \in TicketTypes : remainingQuantity[t] + Cardinality(Claims(t)) <= totalQuantity[t]

\* If no seat is lost, none is oversold.
LEMMA ConservedIsEnough == TypeOK /\ SeatsInvariant => NothingOversold
<1> SUFFICES ASSUME TypeOK, SeatsInvariant, NEW t \in TicketTypes
             PROVE  remainingQuantity[t] + Cardinality(Claims(t)) <= totalQuantity[t]
  BY DEF NothingOversold, SeatsInvariant
<1>1. totalQuantity[t] \in Nat
  BY DEF TypeOK
<1>2. QED
  BY <1>1 DEF SeatsInvariant, SeatsConserved

\* A hold fits in the capacity: the counter the code compares is at most what
\* the claims leave of it.
LEMMA HoldIsLedgerHold ==
  ASSUME TypeOK, NothingOversold, NEW r \in Reservations, NEW t \in TicketTypes,
         NEW n \in Quantities, TakeSeats(r, t, n)
  PROVE  Ledger!Next
<1>1. n \in Nat
  BY QuantityAssumption
<1>2. Cardinality(Ledger!Claimed(t)) + n <= totalQuantity[t]
  <2>1. remainingQuantity[t] + Cardinality(Claims(t)) <= totalQuantity[t]
    BY <1>1 DEF NothingOversold
  <2>2. Cardinality(Claims(t)) \in Nat
    BY <1>1, FS_CardinalityType DEF NothingOversold, ClaimsFinite
  <2>3. remainingQuantity[t] \in Nat /\ totalQuantity[t] \in Nat /\ remainingQuantity[t] >= n
    BY <1>1 DEF TakeSeats, Fits, TypeOK
  <2>4. QED
    BY <1>1, <2>1, <2>2, <2>3, ClaimedByLedger
<1>3. claimed[r].status = "none"
  BY DEF TakeSeats, claimed, ClaimStatus
<1>4. claimed' = [claimed EXCEPT ![r] = [status |-> "held", ticketType |-> t, quantity |-> n]]
  BY DEF TakeSeats, claimed, ClaimStatus, TypeOK
<1>5. UNCHANGED <<totalQuantity, captured>>
  BY DEF TakeSeats, captured
<1>6. Ledger!Hold(r, t, n)
  BY LedgerCardinality, <1>2, <1>3, <1>4, <1>5 DEF Ledger!Hold
<1>7. QED
  BY <1>1, <1>6 DEF Ledger!Next

\* A hold that ends is a release.
LEMMA EndIsLedgerRelease ==
  ASSUME TypeOK, NEW r \in Reservations, Holding(r),
         NEW status \in {"EXPIRED", "CANCELLED"}, SetReservation(r, status),
         UNCHANGED <<totalQuantity, captured>>
  PROVE  Ledger!Next
<1>1. claimed[r].status = "held"
  BY DEF Holding, claimed, ClaimStatus
<1>2. claimed' = [claimed EXCEPT ![r].status = "released"]
  BY DEF SetReservation, claimed, ClaimStatus, TypeOK
<1>3. Ledger!Release(r)
  BY <1>1, <1>2 DEF Ledger!Release
<1>4. QED
  BY <1>3 DEF Ledger!Next

\* A successful settlement is a sale with the capture of its payment.
LEMMA SettleIsLedgerSell ==
  ASSUME TypeOK, NEW r \in Reservations, SettleSuccess(r)
  PROVE  Ledger!Next
<1>1. claimed[r].status = "held" /\ captured[r] = "none"
  BY DEF SettleSuccess, CanSettle, Holding, claimed, captured, ClaimStatus, MoneyStatus
<1>2. claimed' = [claimed EXCEPT ![r].status = "sold"]
  BY DEF SettleSuccess, SetReservation, claimed, ClaimStatus, TypeOK
<1>3. captured' = [captured EXCEPT ![r] = "captured"]
  BY DEF SettleSuccess, captured, MoneyStatus, TypeOK
<1>4. Ledger!Sell(r)
  BY <1>1, <1>2, <1>3 DEF Ledger!Sell, SettleSuccess
<1>5. QED
  BY <1>4 DEF Ledger!Next

\* A step that moves no seat moves no money.
LEMMA NoSeatsNoMoney ==
  ASSUME TypeOK, WellFormed, [Next]_vars, UNCHANGED reservation
  PROVE  UNCHANGED captured
<1>1. ASSUME NEW r \in Reservations
      PROVE  MoneyStatus(payment'[r]) = MoneyStatus(payment[r])
  <2>1. StatusStep(r)
    BY EveryStatusStep
  <2>2. ~CanSettle(r) \/ payment'[r] # "PAID" \/ reservation'[r].status # "CONFIRMED"
    BY DEF CanSettle, Holding
  <2>3. \/ payment'[r] = payment[r]
        \/ payment[r] = "NONE" /\ payment'[r] = "PENDING"
        \/ payment[r] = "PENDING" /\ payment'[r] = "FAILED"
    BY <2>1, <2>2 DEF StatusStep, TypeOK
  <2>4. QED
    BY <2>3 DEF MoneyStatus
<1>2. QED
  BY <1>1 DEF captured

\* A failed settlement moves no money.
LEMMA FailureIsNoMoney ==
  ASSUME TypeOK, NEW r \in Reservations, SettleFailure(r)
  PROVE  UNCHANGED captured
  BY DEF SettleFailure, captured, MoneyStatus, TypeOK

\* Every step is a step of the ledger or leaves its variables alone.
LEMMA LedgerStep ==
  ASSUME TypeOK, WellFormed, NothingOversold, [Next]_vars
  PROVE  [Ledger!Next]_(Ledger!vars)
<1>1. CASE UNCHANGED <<stock, reservation>>
  BY <1>1, NoSeatsNoMoney DEF Ledger!vars, claimed
<1>2. ASSUME NEW q \in Requests, NEW r \in Reservations, DecrementAndHold(q, r)
      PROVE  Ledger!Next
  BY <1>2, DecrementTakes, HoldIsLedgerHold
<1>3. ASSUME NEW r \in Reservations, NEW status \in {"EXPIRED", "CANCELLED"}, EndHold(r, status)
      PROVE  Ledger!Next
  <2>1. UNCHANGED <<totalQuantity, captured>>
    BY <1>3 DEF EndHold, Restock, captured
  <2>2. QED
    BY <1>3, <2>1, EndIsLedgerRelease DEF EndHold
<1>4. ASSUME NEW r \in Reservations, SettleSuccess(r)
      PROVE  Ledger!Next
  BY <1>4, SettleIsLedgerSell
<1>5. ASSUME NEW r \in Reservations, SettleFailure(r)
      PROVE  [Ledger!Next]_(Ledger!vars)
  <2>1. CASE UNCHANGED <<stock, reservation>>
    BY <1>1, <2>1
  <2>2. CASE Holding(r) /\ SetReservation(r, "CANCELLED") /\ RestockUnversioned(r)
    BY <1>5, <2>2, FailureIsNoMoney, EndIsLedgerRelease DEF RestockUnversioned
  <2>3. QED
    BY <1>5, <2>1, <2>2 DEF SettleFailure
<1>6. QED
  BY <1>1, <1>2, <1>3, <1>4, <1>5, EverySeatStep

\* Every behaviour of the handlers, workers and cron is a behaviour of the
\* ledger: seats are claimed within the capacity, and a sale and the capture of
\* its payment are one step.
THEOREM LedgerImplemented == Spec => ImplementsLedger
<1>1. Spec => [](TypeOK /\ WellFormed /\ SeatsInvariant)
  BY SeatsInit, SeatsStep, TypesHold, PTL DEF Spec
<1>2. TypeOK /\ WellFormed /\ SeatsInvariant /\ [Next]_vars => [Ledger!Next]_(Ledger!vars)
  BY LedgerStep, ConservedIsEnough
<1>3. QED
  BY <1>1, <1>2, LedgerInit, PTL DEF Spec, ImplementsLedger, Ledger!Spec
=============================================================================
