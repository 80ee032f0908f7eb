----------------------- MODULE BookingExtensionsProofs -----------------------
(***************************************************************************)
(* The two modules that add writers to Booking, with what is proved of it  *)
(* alone: an organizer who resizes a ticket type while it is sold, and the *)
(* cancellation of an event, for any number of updates, cancel requests,   *)
(* attempts, bookings and requests.                                        *)
(***************************************************************************)
EXTENDS TicketTypeAdmin, EventCancellation, BookingProofs

(* The tuples that abbreviate UNCHANGED are expanded in every step. *)
USE DEF stock, tables, queues, job, background, cancellation

-----------------------------------------------------------------------------
(* TicketTypeAdmin: no seat is oversold. *)

\* What an update has read: its size covers the seats that were taken then, and
\* as long as the version is the one it read, the total is too and the counter
\* has only grown (by seats that were given back without a new version).
EditsFit ==
    \A e \in Editors : edit[e] # None =>
        LET t == edit[e].ticketType IN
        /\ edit[e].total <= edit[e].size + edit[e].remaining
        /\ edit[e].version <= version[t]
        /\ edit[e].version = version[t] =>
              /\ edit[e].total = totalQuantity[t]
              /\ edit[e].remaining <= remainingQuantity[t]

AdminInv == AdminTypeOK /\ WellFormed /\ NothingOversold /\ EditsFit

\* None is no record, so that an update in flight has one.
LEMMA EditRecord ==
  ASSUME AdminTypeOK, NEW e \in Editors, edit[e] # None
  PROVE  edit[e] \in Edit
  BY DEF AdminTypeOK

-----------------------------------------------------------------------------
(* The steps of Booking. *)

\* A new hold takes seats and a version, the end of a hold gives seats back with
\* or without one, and nothing else touches the counter.
LEMMA StockStep ==
  ASSUME TypeOK, WellFormed, [Next]_vars, NEW t \in TicketTypes
  PROVE  /\ totalQuantity'[t] = totalQuantity[t]
         /\ version'[t] >= version[t]
         /\ version'[t] = version[t] => remainingQuantity'[t] >= remainingQuantity[t]
<1> USE DEF TypeOK
<1>1. CASE UNCHANGED stock
  BY <1>1
<1>2. ASSUME NEW q \in Requests, NEW r \in Reservations, DecrementAndHold(q, r)
      PROVE  /\ totalQuantity'[t] = totalQuantity[t]
             /\ version'[t] >= version[t]
             /\ version'[t] = version[t] => remainingQuantity'[t] >= remainingQuantity[t]
  BY <1>2 DEF DecrementAndHold
<1>3. ASSUME NEW r \in Reservations, Holding(r), Restock(r) \/ RestockUnversioned(r)
      PROVE  /\ totalQuantity'[t] = totalQuantity[t]
             /\ version'[t] >= version[t]
             /\ version'[t] = version[t] => remainingQuantity'[t] >= remainingQuantity[t]
  BY <1>3 DEF Restock, RestockUnversioned
<1>4. QED
  BY <1>1, <1>2, <1>3, EverySeatStep DEF EndHold, SettleSuccess, SettleFailure

\* Whatever becomes of the bookings, the counter stays within what they leave.
LEMMA OversoldStep ==
  ASSUME TypeOK, WellFormed, NothingOversold, [Next]_vars
  PROVE  NothingOversold'
<1> SUFFICES ASSUME NEW u \in TicketTypes
             PROVE  /\ IsFiniteSet(Claims(u)')
                    /\ remainingQuantity'[u] + Cardinality(Claims(u)') <= totalQuantity'[u]
  BY DEF NothingOversold, ClaimsFinite
<1>1. /\ IsFiniteSet(Claims(u))
      /\ Cardinality(Claims(u)) \in Nat
      /\ remainingQuantity[u] + Cardinality(Claims(u)) <= totalQuantity[u]
      /\ remainingQuantity[u] \in Nat /\ totalQuantity[u] \in Nat
  BY FS_CardinalityType DEF NothingOversold, ClaimsFinite, TypeOK
<1>2. CASE UNCHANGED <<stock, reservation>>
  <2>1. Claims(u)' = Claims(u)
    BY <1>2 DEF Claims, Claimants, Seats
  <2>2. QED
    BY <1>1, <1>2, <2>1
<1>3. ASSUME NEW q \in Requests, NEW r \in Reservations, DecrementAndHold(q, r)
      PROVE  /\ IsFiniteSet(Claims(u)')
             /\ remainingQuantity'[u] + Cardinality(Claims(u)') <= totalQuantity'[u]
  <2>1. request[q].ticketType \in TicketTypes /\ request[q].quantity \in Nat
    BY <1>3, QuantityAssumption DEF DecrementAndHold, WellFormed, HandlersFit
  <2>2. /\ IsFiniteSet(Claims(u)')
        /\ Cardinality(Claims(u)') = IF u = request[q].ticketType
                                     THEN Cardinality(Claims(u)) + request[q].quantity
                                     ELSE Cardinality(Claims(u))
    BY <1>3, DecrementTakes, CountOfHold DEF NothingOversold
  <2>3. /\ remainingQuantity'[u] = IF u = request[q].ticketType
                                   THEN remainingQuantity[u] - request[q].quantity
                                   ELSE remainingQuantity[u]
        /\ totalQuantity' = totalQuantity
    BY <1>3 DEF DecrementAndHold, TypeOK
  <2>4. QED
    BY <1>1, <2>1, <2>2, <2>3
<1>4. ASSUME NEW r \in Reservations, Holding(r), NEW status \in {"EXPIRED", "CANCELLED"},
             SetReservation(r, status), Restock(r) \/ RestockUnversioned(r)
      PROVE  /\ IsFiniteSet(Claims(u)')
             /\ remainingQuantity'[u] + Cardinality(Claims(u)') <= totalQuantity'[u]
  <2>1. reservation[r].ticketType \in TicketTypes /\ reservation[r].quantity \in Nat
    BY <1>4 DEF Holding, WellFormed, RowsExist, TypeOK
  <2>2. /\ IsFiniteSet(Claims(u)')
        /\ Cardinality(Claims(u)') = IF u = reservation[r].ticketType
                                     THEN Cardinality(Claims(u)) - reservation[r].quantity
                                     ELSE Cardinality(Claims(u))
    BY <1>4, CountOfEnd DEF NothingOversold
  <2>3. /\ remainingQuantity'[u] = IF u = reservation[r].ticketType
                                   THEN remainingQuantity[u] + reservation[r].quantity
                                   ELSE remainingQuantity[u]
        /\ totalQuantity' = totalQuantity
    BY <1>4 DEF Restock, RestockUnversioned, TypeOK
  <2>4. QED
    BY <1>1, <2>1, <2>2, <2>3
<1>5. ASSUME NEW r \in Reservations, SettleSuccess(r)
      PROVE  /\ IsFiniteSet(Claims(u)')
             /\ remainingQuantity'[u] + Cardinality(Claims(u)') <= totalQuantity'[u]
  <2>1. Claims(u)' = Claims(u)
    BY <1>5, ClaimsOfSale DEF SettleSuccess, CanSettle
  <2>2. QED
    BY <1>1, <1>5, <2>1 DEF SettleSuccess
<1>6. QED
  <2>1. ASSUME NEW r \in Reservations, SettleFailure(r)
        PROVE  /\ IsFiniteSet(Claims(u)')
               /\ remainingQuantity'[u] + Cardinality(Claims(u)') <= totalQuantity'[u]
    BY <1>2, <1>4, <2>1 DEF SettleFailure
  <2>2. ASSUME NEW r \in Reservations, NEW status \in {"EXPIRED", "CANCELLED"}, EndHold(r, status)
        PROVE  /\ IsFiniteSet(Claims(u)')
               /\ remainingQuantity'[u] + Cardinality(Claims(u)') <= totalQuantity'[u]
    BY <1>4, <2>2 DEF EndHold
  <2>3. QED
    BY <1>2, <1>3, <1>5, <2>1, <2>2, EverySeatStep

\* Bookings leave what the updates have read in order: they keep the total, and
\* take seats only with a new version.
LEMMA BookingKeepsEdits ==
  ASSUME AdminTypeOK, WellFormed, EditsFit, [Next]_vars, UNCHANGED edit
  PROVE  EditsFit'
<1> SUFFICES ASSUME NEW e \in Editors, edit[e] # None
             PROVE  LET t == edit[e].ticketType IN
                    /\ edit[e].total <= edit[e].size + edit[e].remaining
                    /\ edit[e].version <= version'[t]
                    /\ edit[e].version = version'[t] =>
                          /\ edit[e].total = totalQuantity'[t]
                          /\ edit[e].remaining <= remainingQuantity'[t]
  BY DEF EditsFit
<1> DEFINE t == edit[e].ticketType
<1>1. /\ t \in TicketTypes /\ edit[e].version \in Nat /\ edit[e].remaining \in Nat
      /\ TypeOK
  BY EditRecord DEF Edit, AdminTypeOK
<1>2. version[t] \in Nat /\ remainingQuantity[t] \in Nat
  BY <1>1 DEF TypeOK
<1>3. version'[t] \in Nat /\ remainingQuantity'[t] \in Nat
  BY <1>1, TypeStep DEF TypeOK
<1>4. /\ totalQuantity'[t] = totalQuantity[t]
      /\ version'[t] >= version[t]
      /\ version'[t] = version[t] => remainingQuantity'[t] >= remainingQuantity[t]
  BY <1>1, StockStep
<1>5. QED
  BY <1>1, <1>2, <1>3, <1>4 DEF EditsFit

-----------------------------------------------------------------------------
(* The steps of an update. *)

\* The write sets a total that covers what is taken, and a counter that offers
\* at most the rest of it.
LEMMA WriteFits ==
  ASSUME AdminInv, NEW e \in Editors, WriteVersioned(e)
  PROVE  LET t == edit[e].ticketType
             n == edit[e].remaining + edit[e].size - edit[e].total
         IN  /\ t \in TicketTypes
             /\ edit[e].size \in Sizes
             /\ n \in Nat
             /\ Cardinality(Claims(t)) \in Nat
             /\ n + Cardinality(Claims(t)) <= edit[e].size
             /\ totalQuantity' = [totalQuantity EXCEPT ![t] = edit[e].size]
             /\ remainingQuantity' = [remainingQuantity EXCEPT ![t] = n]
             /\ version' = [version EXCEPT ![t] = @ + 1]
<1> DEFINE t == edit[e].ticketType
           n == edit[e].remaining + edit[e].size - edit[e].total
<1>1. edit[e] # None /\ version[t] = edit[e].version
  BY DEF WriteVersioned, SameVersion
<1>2. edit[e] \in Edit
  BY <1>1, EditRecord DEF AdminInv
<1>3. /\ t \in TicketTypes /\ edit[e].size \in Sizes /\ edit[e].size \in Nat
      /\ edit[e].total \in Nat /\ edit[e].remaining \in Nat
  BY <1>2, SizesAssumption DEF Edit
<1>4. /\ edit[e].total <= edit[e].size + edit[e].remaining
      /\ edit[e].total = totalQuantity[t]
      /\ edit[e].remaining <= remainingQuantity[t]
  BY <1>1 DEF AdminInv, EditsFit
<1>5. /\ Cardinality(Claims(t)) \in Nat
      /\ remainingQuantity[t] + Cardinality(Claims(t)) <= totalQuantity[t]
      /\ remainingQuantity[t] \in Nat
  BY <1>3, FS_CardinalityType DEF AdminInv, AdminTypeOK, TypeOK, NothingOversold, ClaimsFinite
<1>6. n \in Nat /\ n + Cardinality(Claims(t)) <= edit[e].size
  BY <1>3, <1>4, <1>5
<1>7. QED
  BY <1>3, <1>5, <1>6 DEF WriteVersioned

\* An update keeps the types and the bookings as they are.
LEMMA UpdateTypes ==
  ASSUME AdminInv, NEW e \in Editors, AdminStep(e)
  PROVE  AdminTypeOK' /\ WellFormed'
<1>1. UNCHANGED <<reservation, order, payment, lapsed, queues, overdue, request>>
  BY DEF AdminStep, ReadForUpdate, WriteVersioned, UpdateFails, vars
<1>2. WellFormed'
  BY <1>1 DEF AdminInv, WellFormed, RowsExist, HandlersFit, At, Subject
<1>3. edit' \in [Editors -> Edit \cup {None}]
  <2>1. ASSUME NEW t \in TicketTypes, NEW size \in Sizes, ReadForUpdate(e, t, size)
        PROVE  edit' \in [Editors -> Edit \cup {None}]
    <3>1. [ticketType |-> t, size |-> size, total |-> totalQuantity[t],
           remaining |-> remainingQuantity[t], version |-> version[t]] \in Edit
      BY DEF AdminInv, AdminTypeOK, TypeOK, Edit
    <3>2. QED
      BY <2>1, <3>1 DEF ReadForUpdate, AdminInv, AdminTypeOK
  <2>2. CASE edit' = [edit EXCEPT ![e] = None]
    BY <2>2 DEF AdminInv, AdminTypeOK
  <2>3. QED
    BY <2>1, <2>2 DEF AdminStep, WriteVersioned, UpdateFails
<1>4. /\ totalQuantity' \in [TicketTypes -> Nat]
      /\ remainingQuantity' \in [TicketTypes -> Nat]
      /\ version' \in [TicketTypes -> Nat]
  <2>1. CASE WriteVersioned(e)
    BY <2>1, WriteFits, SizesAssumption DEF AdminInv, AdminTypeOK, TypeOK
  <2>2. CASE UNCHANGED vars
    BY <2>2 DEF vars, AdminInv, AdminTypeOK, TypeOK
  <2>3. QED
    BY <2>1, <2>2 DEF AdminStep, ReadForUpdate, UpdateFails
<1>5. QED
  BY <1>1, <1>2, <1>3, <1>4 DEF AdminInv, AdminTypeOK, TypeOK

\* No update brings back seats that are taken.
LEMMA UpdateOversold ==
  ASSUME AdminInv, NEW e \in Editors, AdminStep(e)
  PROVE  NothingOversold'
<1>1. \A u \in TicketTypes : Claims(u)' = Claims(u)
  <2>1. UNCHANGED reservation
    BY DEF AdminStep, ReadForUpdate, WriteVersioned, UpdateFails, vars
  <2>2. QED
    BY <2>1 DEF Claims, Claimants, Seats
<1>2. CASE UNCHANGED vars
  BY <1>1, <1>2 DEF vars, AdminInv, NothingOversold, ClaimsFinite
<1>3. CASE WriteVersioned(e)
  <2> SUFFICES ASSUME NEW u \in TicketTypes
               PROVE  remainingQuantity'[u] + Cardinality(Claims(u)) <= totalQuantity'[u]
    BY <1>1 DEF AdminInv, NothingOversold, ClaimsFinite
  <2>1. remainingQuantity[u] + Cardinality(Claims(u)) <= totalQuantity[u]
    BY DEF AdminInv, NothingOversold
  <2>2. QED
    BY <1>3, <2>1, WriteFits DEF AdminInv, AdminTypeOK, TypeOK
<1>4. QED
  BY <1>2, <1>3 DEF AdminStep, ReadForUpdate, UpdateFails

\* An update reads a row as it is, and its write takes a version from every other.
LEMMA UpdateKeepsEdits ==
  ASSUME AdminInv, NEW e \in Editors, AdminStep(e)
  PROVE  EditsFit'
<1> SUFFICES ASSUME NEW f \in Editors, edit'[f] # None
             PROVE  LET t == edit'[f].ticketType IN
                    /\ edit'[f].total <= edit'[f].size + edit'[f].remaining
                    /\ edit'[f].version <= version'[t]
                    /\ edit'[f].version = version'[t] =>
                          /\ edit'[f].total = totalQuantity'[t]
                          /\ edit'[f].remaining <= remainingQuantity'[t]
  BY DEF EditsFit
<1>1. edit \in [Editors -> Edit \cup {None}] /\ TypeOK
  BY DEF AdminInv, AdminTypeOK
<1>2. ASSUME NEW t \in TicketTypes, NEW size \in Sizes, ReadForUpdate(e, t, size), f = e
      PROVE  LET u == edit'[f].ticketType IN
             /\ edit'[f].total <= edit'[f].size + edit'[f].remaining
             /\ edit'[f].version <= version'[u]
             /\ edit'[f].version = version'[u] =>
                   /\ edit'[f].total = totalQuantity'[u]
                   /\ edit'[f].remaining <= remainingQuantity'[u]
  <2>1. edit'[f] = [ticketType |-> t, size |-> size, total |-> totalQuantity[t],
                    remaining |-> remainingQuantity[t], version |-> version[t]]
    BY <1>1, <1>2 DEF ReadForUpdate
  <2>2. UNCHANGED <<totalQuantity, remainingQuantity, version>>
    BY <1>2 DEF ReadForUpdate, vars
  <2>3. /\ totalQuantity[t] \in Nat /\ remainingQuantity[t] \in Nat /\ version[t] \in Nat
        /\ size \in Nat
    BY <1>1, SizesAssumption DEF TypeOK
  <2>4. totalQuantity[t] <= size + remainingQuantity[t]
    BY <1>2, <2>3 DEF ReadForUpdate, CoversSold
  <2>5. QED
    BY <2>1, <2>2, <2>3, <2>4
<1>3. CASE edit'[f] = edit[f] /\ UNCHANGED vars
  BY <1>3 DEF vars, AdminInv, EditsFit
<1>4. CASE f # e /\ edit'[f] = edit[f] /\ WriteVersioned(e)
  <2> DEFINE t == edit[f].ticketType
  <2>1. edit[f] \in Edit
    BY <1>4, EditRecord DEF AdminInv
  <2>2. t \in TicketTypes /\ edit[f].version \in Nat /\ version[t] \in Nat
    BY <1>1, <2>1 DEF Edit, TypeOK
  <2>3. /\ edit[f].total <= edit[f].size + edit[f].remaining
        /\ edit[f].version <= version[t]
        /\ edit[f].version = version[t] =>
              /\ edit[f].total = totalQuantity[t]
              /\ edit[f].remaining <= remainingQuantity[t]
    BY <1>4 DEF AdminInv, EditsFit
  <2>4. \/ /\ version'[t] = version[t]
           /\ totalQuantity'[t] = totalQuantity[t]
           /\ remainingQuantity'[t] = remainingQuantity[t]
        \/ version'[t] = version[t] + 1
    BY <1>1, <1>4, <2>2, WriteFits DEF TypeOK
  <2>5. QED
    BY <1>4, <2>2, <2>3, <2>4
<1>5. edit'[f] = edit[f] \/ f = e
  BY <1>1 DEF AdminStep, ReadForUpdate, WriteVersioned, UpdateFails
<1>6. (\E t \in TicketTypes, size \in Sizes : ReadForUpdate(e, t, size)) \/ f # e
      \/ edit'[f] = None
  BY <1>1 DEF AdminStep, WriteVersioned, UpdateFails
<1>7. QED
  BY <1>2, <1>3, <1>4, <1>5, <1>6 DEF AdminStep, ReadForUpdate, UpdateFails

-----------------------------------------------------------------------------
(* The invariant. *)

\* At first nothing is claimed and no update is in flight.
LEMMA AdminInvInit == AdminInit => AdminInv
<1> SUFFICES ASSUME AdminInit PROVE AdminInv
  OBVIOUS
<1>1. TypeOK /\ WellFormed
  BY TypeInit, WellFormedInit DEF AdminInit
<1>2. NothingOversold
  BY <1>1, SeatsInit, ConservedIsEnough DEF AdminInit
<1>3. EditsFit /\ edit \in [Editors -> Edit \cup {None}]
  BY DEF AdminInit, EditsFit
<1>4. QED
  BY <1>1, <1>2, <1>3 DEF AdminInv, AdminTypeOK

\* A booking step or an update, each against all the others.
LEMMA AdminInvStep ==
  ASSUME AdminInv, [AdminNext]_adminVars
  PROVE  AdminInv'
<1>1. ASSUME NEW e \in Editors, AdminStep(e)
      PROVE  AdminInv'
  BY <1>1, UpdateTypes, UpdateOversold, UpdateKeepsEdits DEF AdminInv
<1>2. CASE [Next]_vars /\ UNCHANGED edit
  <2>1. AdminTypeOK' /\ WellFormed'
    BY <1>2, TypeStep, WellFormedStep DEF AdminInv, AdminTypeOK
  <2>2. NothingOversold'
    BY <1>2, OversoldStep DEF AdminInv, AdminTypeOK
  <2>3. EditsFit'
    BY <1>2, BookingKeepsEdits DEF AdminInv
  <2>4. QED
    BY <2>1, <2>2, <2>3 DEF AdminInv
<1>3. QED
  BY <1>1, <1>2 DEF AdminNext, adminVars

\* So the invariant holds throughout.
LEMMA AdminInvariant == AdminSpec => []AdminInv
  BY AdminInvInit, AdminInvStep, PTL DEF AdminSpec

\* Types: in particular no update makes the counter negative, although it writes
\* a number computed from an older row.
THEOREM AdminTypeCorrect == AdminSpec => []AdminTypeOK
<1>1. AdminInv => AdminTypeOK
  BY DEF AdminInv
<1>2. QED
  BY <1>1, AdminInvariant, PTL

\* However many updates and bookings overlap, a ticket type never offers seats
\* that are held or sold.
THEOREM NeverOversold == AdminSpec => []NoOversell
<1>1. AdminInv => NoOversell
  BY DEF AdminInv, NothingOversold, NoOversell
<1>2. QED
  BY <1>1, AdminInvariant, PTL

-----------------------------------------------------------------------------
(* An update writes the ticket type and no booking. *)

\* Reservation, order, payment and the lapsed holds stay as they are.
LEMMA UpdateLeavesBookings ==
  ASSUME NEW e \in Editors, AdminStep(e)
  PROVE  UNCHANGED <<reservation, order, payment, lapsed>>
  BY DEF AdminStep, ReadForUpdate, WriteVersioned, UpdateFails, vars

\* With updates running, a sale is still one step for its three rows, a failed
\* payment still ends its booking, no hold is expired early, and no booking that
\* has ended changes again.
THEOREM UpdatesKeepBookings ==
  AdminSpec => /\ [](SaleIsAtomic /\ FailedPaymentEndsBooking /\ NoEarlyExpiry)
               /\ FinalStatuses
<1> DEFINE Kept == SaleIsAtomic /\ FailedPaymentEndsBooking /\ NoEarlyExpiry
<1>1. AdminInit => Kept
  BY SaleInit DEF AdminInit, Init, NoEarlyExpiry
<1>2. AdminInv /\ Kept /\ [AdminNext]_adminVars => Kept' /\ [FinalStep]_vars
  <2> SUFFICES ASSUME AdminInv, Kept, [AdminNext]_adminVars
               PROVE  Kept' /\ [FinalStep]_vars
    OBVIOUS
  <2>1. CASE [Next]_vars
    BY <2>1, SaleStep, ExpiryStepLapsed, FinalStatusesStep DEF AdminInv, AdminTypeOK
  <2>2. ASSUME NEW e \in Editors, AdminStep(e)
        PROVE  Kept' /\ [FinalStep]_vars
    <3>1. UNCHANGED <<reservation, order, payment, lapsed>>
      BY <2>2, UpdateLeavesBookings
    <3>2. Kept'
      BY <3>1 DEF SaleIsAtomic, FailedPaymentEndsBooking, NoEarlyExpiry
    <3>3. FinalStep
      BY <3>1 DEF FinalStep
    <3>4. QED
      BY <3>2, <3>3
  <2>3. QED
    BY <2>1, <2>2 DEF AdminNext, adminVars
<1>3. QED
  <2> HIDE DEF Kept
  <2>1. AdminSpec => [](AdminInv /\ Kept) /\ [][FinalStep]_vars
    BY <1>1, <1>2, AdminInvariant, PTL DEF AdminSpec
  <2>2. Kept => SaleIsAtomic /\ FailedPaymentEndsBooking /\ NoEarlyExpiry
    BY DEF Kept
  <2>3. QED
    BY <2>1, <2>2, PTL DEF FinalStatuses, FinalStep

-----------------------------------------------------------------------------
(* The ledger whose capacities are resized. *)

\* The instance has a copy of its own of the library's operator.
LEMMA ResizableCardinality ==
  ASSUME NEW S
  PROVE  ResizableLedger!Cardinality(S) = Cardinality(S)
  BY Zenon DEF ResizableLedger!Cardinality, Cardinality

\* Both ledgers count the same claims.
LEMMA ResizableClaimed ==
  ASSUME NEW t \in TicketTypes
  PROVE  /\ ResizableLedger!Claimed(t) = Ledger!Claimed(t)
         /\ ResizableLedger!Claimed(t) = Claims(t)
  BY ClaimedByLedger DEF ResizableLedger!Claimed, Ledger!Claimed

\* Booking uses the ledger without resizing: its steps are steps of this one.
LEMMA LedgerIsResizable ==
  ASSUME [Ledger!Next]_(Ledger!vars)
  PROVE  [ResizableLedger!Next]_(ResizableLedger!vars)
<1>1. ASSUME NEW b \in Reservations, NEW t \in TicketTypes, NEW n \in Quantities,
             Ledger!Hold(b, t, n)
      PROVE  ResizableLedger!Hold(b, t, n)
  BY <1>1, ResizableClaimed, ResizableCardinality, LedgerCardinality
     DEF Ledger!Hold, ResizableLedger!Hold
<1>2. ASSUME NEW b \in Reservations
      PROVE  /\ Ledger!Release(b) => ResizableLedger!Release(b)
             /\ Ledger!Sell(b) => ResizableLedger!Sell(b)
             /\ Ledger!Refund(b) => ResizableLedger!Refund(b)
  BY DEF Ledger!Release, ResizableLedger!Release, Ledger!Sell, ResizableLedger!Sell,
         Ledger!Refund, ResizableLedger!Refund
<1>3. QED
  BY <1>1, <1>2 DEF Ledger!Next, ResizableLedger!Next, Ledger!vars, ResizableLedger!vars

\* The write of an update is a resize that covers the claims.
LEMMA WriteIsResize ==
  ASSUME AdminInv, NEW e \in Editors, WriteVersioned(e)
  PROVE  ResizableLedger!Next
<1> DEFINE t == edit[e].ticketType
           size == edit[e].size
<1>1. /\ t \in TicketTypes /\ size \in Sizes
      /\ Cardinality(Claims(t)) <= size
      /\ totalQuantity' = [totalQuantity EXCEPT ![t] = size]
  <2> DEFINE n == edit[e].remaining + edit[e].size - edit[e].total
  <2>1. /\ t \in TicketTypes /\ size \in Sizes
        /\ n \in Nat /\ Cardinality(Claims(t)) \in Nat
        /\ n + Cardinality(Claims(t)) <= size
        /\ totalQuantity' = [totalQuantity EXCEPT ![t] = size]
    BY WriteFits
  <2>2. size \in Nat
    BY <2>1, SizesAssumption
  <2> HIDE DEF n
  <2>3. QED
    BY <2>1, <2>2
<1>2. UNCHANGED <<claimed, captured>>
  BY DEF WriteVersioned, claimed, captured
<1>3. ResizableLedger!Resize(t, size)
  BY <1>1, <1>2, ResizableClaimed, ResizableCardinality DEF ResizableLedger!Resize
<1>4. QED
  BY <1>1, <1>3 DEF ResizableLedger!Next

\* Every behaviour of bookings and updates together is a behaviour of the ledger:
\* claims stay within a capacity that is never set below them.
THEOREM ResizableLedgerImplemented == AdminSpec => ImplementsResizableLedger
<1>1. AdminInit => ResizableLedger!Init
  BY DEF AdminInit, Init, ResizableLedger!Init, claimed, captured, ClaimStatus, MoneyStatus
<1>2. ASSUME AdminInv, [AdminNext]_adminVars
      PROVE  [ResizableLedger!Next]_(ResizableLedger!vars)
  <2>1. CASE [Next]_vars
    BY <1>2, <2>1, LedgerStep, LedgerIsResizable DEF AdminInv, AdminTypeOK
  <2>2. ASSUME NEW e \in Editors, AdminStep(e)
        PROVE  [ResizableLedger!Next]_(ResizableLedger!vars)
    <3>1. CASE WriteVersioned(e)
      BY <1>2, <3>1, WriteIsResize
    <3>2. CASE UNCHANGED vars
      BY <3>2 DEF vars, ResizableLedger!vars, claimed, captured
    <3>3. QED
      BY <2>2, <3>1, <3>2 DEF AdminStep, ReadForUpdate, UpdateFails
  <2>3. QED
    BY <1>2, <2>1, <2>2 DEF AdminNext, adminVars
<1>3. QED
  BY <1>1, <1>2, AdminInvariant, PTL
     DEF AdminSpec, ImplementsResizableLedger, ResizableLedger!Spec

-----------------------------------------------------------------------------
(* EventCancellation: one more writer of all tables. *)

\* The types of the cancellation, and the attempts a job that is not over has left.
CancelFields ==
    /\ event \in {"PUBLISHED", "CANCELLED"}
    /\ canceller \in [Cancellers -> {"idle", "writeStatus", "addJob"}]
    /\ cancelJob \in {"none", "queued", "done", "failed"} \cup RunningStages
    /\ cancelAttempts \in 0..MaxCancelAttempts
    /\ cancelJob \in {"none", "queued"} \cup RunningStages => cancelAttempts < MaxCancelAttempts
    /\ crashed \in BOOLEAN
    /\ holdsToCancel \subseteq Reservations
    /\ refundsDue \subseteq Reservations
    /\ notified \subseteq Reservations

\* What Booking keeps, and what its proofs need of it.
BookingInv ==
    /\ TypeOK
    /\ WellFormed
    /\ SaleIsAtomic
    /\ FailedPaymentEndsBooking
    /\ SeatsInvariant

CancelInv == CancelFields /\ BookingInv

\* A cancelled event takes no bookings, a published one those of Booking; the
\* rest of the steps of Booking are as they were.
LEMMA BookingOrCancellation ==
  ASSUME [CancelNext]_cancelVars
  PROVE  \/ [Next]_vars /\ UNCHANGED cancellation
         \/ CrashAll
         \/ JobCancelsOrders
         \/ \E r \in Reservations : CancelHold(r) \/ Refund(r)
         \/ /\ UNCHANGED vars
            /\ \/ \E c \in Cancellers : CancellerStep(c) \/ CancelEventFails(c)
               \/ JobCancelsHolds \/ JobCollectsRefunds \/ JobNotifies \/ JobFails
               \/ \E r \in Reservations : HoldEnded(r) \/ RefundNotNeeded(r)
<1>1. CASE (PublishedReserve \/ BookingStep) /\ UNCHANGED cancellation
  BY <1>1 DEF PublishedReserve, Next
<1>2. CASE UNCHANGED cancelVars
  BY <1>2 DEF cancelVars
<1>3. CASE \E c \in Cancellers : CancellerStep(c) \/ CancelEventFails(c)
  BY <1>3 DEF CancellerStep, BeginCancelEvent, WriteCancelledStatus, AddCancelJob,
     CancelEventFails
<1>4. CASE JobStep \/ JobFails
  BY <1>4 DEF JobStep, JobCancelsHolds, JobCollectsRefunds, JobNotifies, JobFails
<1>5. CASE \E r \in Reservations : BackgroundStep(r)
  BY <1>5 DEF BackgroundStep, HoldEnded, RefundNotNeeded
<1>6. QED
  BY <1>1, <1>2, <1>3, <1>4, <1>5 DEF CancelNext, QuietNext

\* Types and attempts of the cancellation.
LEMMA CancelFieldsStep ==
  ASSUME CancelFields, [CancelNext]_cancelVars
  PROVE  CancelFields'
<1> USE MaxCancelAttemptsAssumption DEF CancelFields, RunningStages
<1>1. ASSUME NEW c \in Cancellers, CancellerStep(c) \/ CancelEventFails(c)
      PROVE  CancelFields'
  BY <1>1 DEF CancellerStep, BeginCancelEvent, WriteCancelledStatus, AddCancelJob,
     CancelEventFails
<1>2. CASE JobCancelsHolds
  <2>1. holdsToCancel' \subseteq Reservations
    BY <1>2 DEF JobCancelsHolds
  <2>2. QED
    BY <1>2, <2>1 DEF JobCancelsHolds
<1>3. CASE JobCancelsOrders
  BY <1>3 DEF JobCancelsOrders
<1>4. CASE JobCollectsRefunds
  <2>1. refundsDue' \subseteq Reservations
    BY <1>4 DEF JobCollectsRefunds
  <2>2. QED
    BY <1>4, <2>1 DEF JobCollectsRefunds
<1>5. CASE JobNotifies
  <2>1. notified' \subseteq Reservations
    BY <1>5 DEF JobNotifies
  <2>2. QED
    BY <1>5, <2>1 DEF JobNotifies
<1>6. CASE JobFails
  BY <1>6 DEF JobFails
<1>7. ASSUME NEW r \in Reservations,
             CancelHold(r) \/ HoldEnded(r) \/ Refund(r) \/ RefundNotNeeded(r)
      PROVE  CancelFields'
  BY <1>7 DEF CancelHold, HoldEnded, Refund, RefundNotNeeded
<1>8. CASE CrashAll
  BY <1>8 DEF CrashAll
<1>9. CASE UNCHANGED cancellation
  BY <1>9
<1>10. QED
  BY <1>1, <1>2, <1>3, <1>4, <1>5, <1>6, <1>7, <1>8, <1>9, BookingOrCancellation

\* The cancellation of the pending orders at once.
LEMMA OrdersCancelled ==
  ASSUME BookingInv, JobCancelsOrders
  PROVE  BookingInv'
<1> USE DEF BookingInv, JobCancelsOrders
<1>1. \A r \in Reservations : order'[r] = IF order[r] = "PENDING" THEN "CANCELLED" ELSE order[r]
  OBVIOUS
<1>2. TypeOK'
  BY DEF TypeOK, OrderStatus
<1>3. WellFormed'
  <2>1. \A r \in Reservations : order[r] # "NONE" <=> order'[r] # "NONE"
    BY <1>1
  <2>2. RowsExist'
    BY <2>1 DEF WellFormed, RowsExist
  <2>3. HandlersFit'
    BY <2>1 DEF WellFormed, HandlersFit, At, Subject
  <2>4. QED
    BY <2>2, <2>3 DEF WellFormed
<1>4. SaleIsAtomic' /\ FailedPaymentEndsBooking'
  BY <1>1 DEF SaleIsAtomic, FailedPaymentEndsBooking
<1>5. SeatsInvariant'
  BY SeatsUnchanged
<1>6. QED
  BY <1>2, <1>3, <1>4, <1>5

\* A background transaction that ends a hold ends it as any other writer does.
LEMMA HoldCancelled ==
  ASSUME BookingInv, NEW r \in Reservations, CancelHold(r)
  PROVE  BookingInv'
<1> USE DEF BookingInv
<1>1. /\ Holding(r) /\ SetReservation(r, "CANCELLED") /\ RestockUnversioned(r)
      /\ UNCHANGED <<order, payment, lapsed, queues, overdue, request>>
  BY DEF CancelHold
<1>2. /\ reservation'[r] = [reservation[r] EXCEPT !.status = "CANCELLED"]
      /\ \A s \in Reservations : s # r => reservation'[s] = reservation[s]
      /\ reservation' \in [Reservations -> [status: ReservationStatus,
                                            ticketType: TicketTypes \cup {None},
                                            quantity: Nat]]
  BY <1>1 DEF SetReservation, TypeOK, ReservationStatus
<1>3. /\ reservation'[r].status = "CANCELLED"
      /\ reservation'[r].ticketType = reservation[r].ticketType
      /\ reservation[r].status = "HOLDING"
  BY <1>1, <1>2 DEF Holding, TypeOK
<1>4. TypeOK'
  <2>1. StockType'
    BY <1>1, RestockType DEF StockType
  <2>2. QED
    BY <1>1, <1>2, <2>1 DEF TypeOK, StockType
<1>5. WellFormed'
  <2>1. \A s \in Reservations : /\ reservation'[s].status # "NONE" <=> reservation[s].status # "NONE"
                                /\ reservation'[s].ticketType = reservation[s].ticketType
    BY <1>2, <1>3
  <2>2. RowsExist'
    BY <1>1, <2>1 DEF WellFormed, RowsExist
  <2>3. HandlersFit'
    BY <1>1, <2>1 DEF WellFormed, HandlersFit, At, Subject
  <2>4. QED
    BY <2>2, <2>3 DEF WellFormed
<1>6. SaleIsAtomic' /\ FailedPaymentEndsBooking'
  BY <1>1, <1>2, <1>3 DEF SaleIsAtomic, FailedPaymentEndsBooking
<1>7. SeatsInvariant'
  BY <1>1, SeatsOfEnd
<1>8. QED
  BY <1>4, <1>5, <1>6, <1>7

\* The refund of a paid order turns back the payment of the same sale, because
\* order and payment agree.
LEMMA SaleRefunded ==
  ASSUME BookingInv, NEW r \in Reservations, Refund(r)
  PROVE  /\ BookingInv'
         /\ payment[r] = "PAID"
<1> USE DEF BookingInv, Refund
<1>1. payment[r] = "PAID" /\ reservation[r].status = "CONFIRMED"
  BY DEF SaleIsAtomic
<1>2. /\ order' = [order EXCEPT ![r] = "REFUNDED"]
      /\ payment' = [payment EXCEPT ![r] = "REFUNDED"]
      /\ UNCHANGED <<stock, reservation, lapsed, queues, overdue, request>>
  OBVIOUS
<1>3. TypeOK'
  BY <1>2 DEF TypeOK, OrderStatus, PaymentStatus
<1>4. \A s \in Reservations :
          /\ order'[s] = IF s = r THEN "REFUNDED" ELSE order[s]
          /\ payment'[s] = IF s = r THEN "REFUNDED" ELSE payment[s]
  BY <1>2 DEF TypeOK
<1>5. WellFormed'
  <2>1. \A s \in Reservations : /\ order[s] # "NONE" <=> order'[s] # "NONE"
                                /\ payment[s] # "NONE" <=> payment'[s] # "NONE"
    BY <1>1, <1>4
  <2>2. RowsExist'
    BY <1>2, <2>1 DEF WellFormed, RowsExist
  <2>3. HandlersFit'
    BY <1>2, <2>1 DEF WellFormed, HandlersFit, At, Subject
  <2>4. QED
    BY <2>2, <2>3 DEF WellFormed
<1>6. SaleIsAtomic' /\ FailedPaymentEndsBooking'
  BY <1>1, <1>2, <1>4 DEF SaleIsAtomic, FailedPaymentEndsBooking
<1>7. SeatsInvariant'
  BY <1>2, SeatsUnchanged
<1>8. QED
  BY <1>1, <1>3, <1>5, <1>6, <1>7

\* What Booking keeps is kept with the cancellation running.
LEMMA CancelInvStep ==
  ASSUME CancelInv, [CancelNext]_cancelVars
  PROVE  CancelInv'
<1>1. ASSUME [Next]_vars
      PROVE  BookingInv'
  BY <1>1, TypeStep, WellFormedStep, SaleStep, SeatsStep DEF CancelInv, BookingInv
<1>2. CASE CrashAll
  BY <1>1, <1>2, CancelFieldsStep DEF CancelInv, CrashAll, Next
<1>3. QED
  BY <1>1, <1>2, BookingOrCancellation, CancelFieldsStep, OrdersCancelled, HoldCancelled,
     SaleRefunded DEF CancelInv

\* So it is an invariant.
LEMMA CancelInvariant == CancelSpec => []CancelInv
<1>1. CancelInit => CancelInv
  <2> SUFFICES ASSUME CancelInit PROVE CancelInv
    OBVIOUS
  <2>1. BookingInv
    BY TypeInit, WellFormedInit, SaleInit, SeatsInit DEF CancelInit, BookingInv
  <2>2. CancelFields
    <3>1. crashed \in BOOLEAN
      BY DEF CancelInit
    <3>2. cancelAttempts \in 0..MaxCancelAttempts /\ cancelAttempts < MaxCancelAttempts
      BY MaxCancelAttemptsAssumption DEF CancelInit
    <3>3. canceller \in [Cancellers -> {"idle", "writeStatus", "addJob"}]
      BY DEF CancelInit
    <3>4. QED
      BY <3>1, <3>2, <3>3 DEF CancelInit, CancelFields
  <2>3. QED
    BY <2>1, <2>2 DEF CancelInv
<1>2. QED
  BY <1>1, CancelInvStep, PTL DEF CancelSpec

\* Types of all tables and of the job, with its attempts.
THEOREM CancelTypeCorrect == CancelSpec => []CancelTypeOK
<1>1. CancelInv => CancelTypeOK
  BY DEF CancelInv, CancelFields, BookingInv, CancelTypeOK
<1>2. QED
  BY <1>1, CancelInvariant, PTL

\* Cancelling the event, with its retries, its overlapping transactions and its
\* crashes, neither loses a seat nor gives one back twice, and no sale comes
\* apart: reservation, order and payment agree also after the refunds.
THEOREM CancellationKeepsBookings == CancelSpec => [](SeatsConserved /\ SaleIsAtomic)
<1>1. CancelInv => SeatsConserved /\ SaleIsAtomic
  BY DEF CancelInv, BookingInv, SeatsInvariant
<1>2. QED
  BY <1>1, CancelInvariant, PTL

\* A failed payment ends its booking also if the cancellation ended it before.
THEOREM CancellationKeepsFailures == CancelSpec => []FailedPaymentEndsBooking
<1>1. CancelInv => FailedPaymentEndsBooking
  BY DEF CancelInv, BookingInv
<1>2. QED
  BY <1>1, CancelInvariant, PTL

\* A background transaction that comes late finds its row and leaves a row that
\* has ended as it is: it cancels holds only, and refunds what is paid.
LEMMA CancelFinalStep ==
  ASSUME CancelInv, [CancelNext]_cancelVars
  PROVE  [FinalStep]_vars
<1> USE DEF CancelInv, BookingInv
<1>1. CASE [Next]_vars
  BY <1>1, FinalStatusesStep
<1>2. CASE CrashAll
  BY <1>1, <1>2 DEF CrashAll, Next
<1>3. CASE JobCancelsOrders
  BY <1>3 DEF JobCancelsOrders, FinalStep
<1>4. ASSUME NEW r \in Reservations, CancelHold(r)
      PROVE  FinalStep
  BY <1>4 DEF CancelHold, Holding, SetReservation, TypeOK, FinalStep
<1>5. ASSUME NEW r \in Reservations, Refund(r)
      PROVE  FinalStep
  <2>1. payment[r] = "PAID"
    BY <1>5, SaleRefunded
  <2>2. QED
    BY <1>5, <2>1 DEF Refund, TypeOK, FinalStep
<1>6. QED
  BY <1>1, <1>2, <1>3, <1>4, <1>5, BookingOrCancellation

\* What has ended stays as it ended, however late the job, its retries and its
\* overlapping transactions come; the refund of a sale is the only exception.
THEOREM CancellationKeepsStatuses == CancelSpec => FinalStatuses
<1>1. CancelInv /\ [CancelNext]_cancelVars => [FinalStep]_vars
  BY CancelFinalStep
<1>2. QED
  BY <1>1, CancelInvariant, PTL DEF CancelSpec, FinalStatuses, FinalStep

\* The job cancels holds, it does not expire them: what is EXPIRED has lapsed.
THEOREM CancellationKeepsExpiry == CancelSpec => []NoEarlyExpiry
<1>1. CancelInit => NoEarlyExpiry
  BY DEF CancelInit, Init, NoEarlyExpiry
<1>2. ASSUME CancelInv, NoEarlyExpiry, [CancelNext]_cancelVars
      PROVE  NoEarlyExpiry'
  <2>1. CASE [Next]_vars
    BY <1>2, <2>1, ExpiryStepLapsed DEF CancelInv, BookingInv
  <2>2. CASE CrashAll
    BY <2>1, <2>2 DEF CrashAll, Next
  <2>3. CASE UNCHANGED <<reservation, lapsed>>
    BY <1>2, <2>3 DEF NoEarlyExpiry
  <2>4. ASSUME NEW r \in Reservations, CancelHold(r)
        PROVE  NoEarlyExpiry'
    BY <1>2, <2>4 DEF CancelHold, SetReservation, CancelInv, BookingInv, TypeOK, NoEarlyExpiry
  <2>5. QED
    BY <1>2, <2>1, <2>2, <2>3, <2>4, BookingOrCancellation DEF JobCancelsOrders, Refund, vars
<1>3. QED
  BY <1>1, <1>2, CancelInvariant, PTL DEF CancelSpec

-----------------------------------------------------------------------------
(* What the cancellation is allowed to touch, and what it must not forget. *)

\* The cancellation has done nothing yet, apart from requests that are about to
\* write the status.
Untouched ==
    /\ \A c \in Cancellers : canceller[c] # "addJob"
    /\ cancelJob = "none"
    /\ holdsToCancel = {}
    /\ refundsDue = {}
    /\ \A r \in Reservations : order[r] # "REFUNDED" /\ payment[r] # "REFUNDED"

\* Only the money of a sale is on its way back.
DueArePaid == \A r \in refundsDue : payment[r] \in {"PAID", "REFUNDED"}

RefundsInOrder == (event = "CANCELLED" \/ Untouched) /\ DueArePaid

\* A booking step refunds nothing, and takes no money back.
LEMMA BookingKeepsMoney ==
  ASSUME CancelInv, [Next]_vars, NEW r \in Reservations
  PROVE  /\ order'[r] = "REFUNDED" => order[r] = "REFUNDED"
         /\ payment'[r] = "REFUNDED" => payment[r] = "REFUNDED"
         /\ payment[r] \in {"PAID", "REFUNDED"} => payment'[r] = payment[r]
<1>1. StatusStep(r)
  BY EveryStatusStep DEF CancelInv, BookingInv
<1>2. QED
  BY <1>1 DEF StatusStep, CanSettle

\* The status of the event is written before anything else is done, and it stays.
LEMMA CancelledFirst ==
  ASSUME CancelInv, event = "CANCELLED" \/ Untouched, [CancelNext]_cancelVars
  PROVE  (event = "CANCELLED" \/ Untouched)'
<1>1. CASE event = "CANCELLED"
  <2>1. event' = event \/ event' = "CANCELLED"
    BY BookingOrCancellation
       DEF cancellation, CrashAll, JobCancelsOrders, CancelHold, Refund, CancellerStep,
           BeginCancelEvent, WriteCancelledStatus, AddCancelJob, CancelEventFails,
           JobCancelsHolds, JobCollectsRefunds, JobNotifies, JobFails, HoldEnded,
           RefundNotNeeded
  <2>2. QED
    BY <1>1, <2>1
<1>2. CASE Untouched
  <2>1. CASE [Next]_vars /\ UNCHANGED cancellation
    BY <1>2, <2>1, BookingKeepsMoney DEF Untouched, cancellation, job, background
  <2>2. CASE CrashAll
    BY <1>2, <2>2 DEF CrashAll, Crash, Untouched, RunningStages, tables
  <2>3. ASSUME UNCHANGED vars, NEW c \in Cancellers, CancellerStep(c) \/ CancelEventFails(c)
        PROVE  (event = "CANCELLED" \/ Untouched)'
    <3>1. canceller \in [Cancellers -> {"idle", "writeStatus", "addJob"}]
      BY DEF CancelInv, CancelFields
    <3>2. QED
      BY <1>2, <2>3, <3>1
         DEF CancellerStep, BeginCancelEvent, WriteCancelledStatus, AddCancelJob,
             CancelEventFails, Untouched, vars, tables, background, job
  <2>4. ~(JobCancelsOrders \/ JobCancelsHolds \/ JobCollectsRefunds \/ JobNotifies \/ JobFails)
    BY <1>2 DEF Untouched, JobCancelsOrders, JobCancelsHolds, JobCollectsRefunds, JobNotifies,
                JobFails, RunningStages
  <2>5. \A r \in Reservations :
          ~(CancelHold(r) \/ Refund(r) \/ HoldEnded(r) \/ RefundNotNeeded(r))
    BY <1>2 DEF Untouched, CancelHold, Refund, HoldEnded, RefundNotNeeded
  <2>6. QED
    BY <2>1, <2>2, <2>3, <2>4, <2>5, BookingOrCancellation
<1>3. QED
  BY <1>1, <1>2

\* The orders the job collects are paid, and no later step takes the money but
\* the refund itself.
LEMMA DueStayPaid ==
  ASSUME CancelInv, DueArePaid, [CancelNext]_cancelVars
  PROVE  DueArePaid'
<1>0. refundsDue \subseteq Reservations
  BY DEF CancelInv, CancelFields
<1>1. CASE [Next]_vars /\ UNCHANGED cancellation
  BY <1>0, <1>1, BookingKeepsMoney DEF DueArePaid, cancellation, background
<1>2. CASE CrashAll
  BY <1>2 DEF CrashAll, DueArePaid
<1>3. ASSUME NEW r \in Reservations, Refund(r)
      PROVE  DueArePaid'
  BY <1>0, <1>3 DEF Refund, DueArePaid, CancelInv, BookingInv, TypeOK
<1>4. CASE JobCollectsRefunds
  <2>1. \A r \in Reservations : order[r] = "PAID" => payment[r] = "PAID"
    BY DEF CancelInv, BookingInv, SaleIsAtomic
  <2>2. QED
    BY <1>4, <2>1 DEF JobCollectsRefunds, DueArePaid, vars, tables
<1>5. CASE payment' = payment /\ refundsDue' \subseteq refundsDue
  BY <1>5 DEF DueArePaid
<1>6. QED
  BY <1>1, <1>2, <1>3, <1>4, <1>5, BookingOrCancellation
     DEF JobCancelsOrders, CancelHold, CancellerStep, BeginCancelEvent, WriteCancelledStatus,
         AddCancelJob, CancelEventFails, JobCancelsHolds, JobNotifies, JobFails, HoldEnded,
         RefundNotNeeded, background, vars, tables

\* No money goes back, and no transaction of the job is started, for an event
\* that is still published; nor is a refund due for what was not paid.
THEOREM RefundsFollowCancellation == CancelSpec => []RefundsInOrder
<1>1. CancelInit => RefundsInOrder
  BY DEF CancelInit, Init, RefundsInOrder, Untouched, DueArePaid
<1>2. CancelInv /\ RefundsInOrder /\ [CancelNext]_cancelVars => RefundsInOrder'
  BY CancelledFirst, DueStayPaid DEF RefundsInOrder
<1>3. QED
  BY <1>1, <1>2, CancelInvariant, PTL DEF CancelSpec

\* With the job as one more writer of all four tables the ledger is still
\* implemented: its late transactions end a hold or refund a sale at most once.
THEOREM CancellationImplemented == CancelSpec => CancellationImplementsLedger
<1>1. CancelInit => Ledger!Init
  BY LedgerInit DEF CancelInit
<1>2. ASSUME CancelInv, [CancelNext]_cancelVars
      PROVE  [Ledger!Next]_(Ledger!vars)
  <2>1. TypeOK /\ WellFormed /\ NothingOversold
    BY <1>2, ConservedIsEnough DEF CancelInv, BookingInv
  <2>2. CASE [Next]_vars
    BY <2>1, <2>2, LedgerStep
  <2>3. CASE JobCancelsOrders
    BY <2>3 DEF JobCancelsOrders, Ledger!vars, claimed, captured
  <2>4. ASSUME NEW r \in Reservations, CancelHold(r)
        PROVE  Ledger!Next
    <3>1. UNCHANGED <<totalQuantity, captured>>
      BY <2>4 DEF CancelHold, RestockUnversioned, captured
    <3>2. QED
      BY <2>1, <2>4, <3>1, EndIsLedgerRelease DEF CancelHold
  <2>5. ASSUME NEW r \in Reservations, Refund(r)
        PROVE  Ledger!Next
    <3>1. payment[r] = "PAID"
      BY <1>2, <2>5, SaleRefunded DEF CancelInv
    <3>2. captured[r] = "captured"
      BY <3>1 DEF captured, MoneyStatus
    <3>3. captured' = [captured EXCEPT ![r] = "refunded"]
      BY <2>1, <2>5 DEF Refund, captured, MoneyStatus, TypeOK
    <3>4. UNCHANGED <<totalQuantity, claimed>>
      BY <2>5 DEF Refund, claimed
    <3>5. Ledger!Refund(r)
      BY <3>2, <3>3, <3>4 DEF Ledger!Refund
    <3>6. QED
      BY <3>5 DEF Ledger!Next
  <2>6. QED
    BY <1>2, <2>2, <2>3, <2>4, <2>5, BookingOrCancellation DEF CrashAll, Next
<1>3. QED
  BY <1>1, <1>2, CancelInvariant, PTL
     DEF CancelSpec, CancellationImplementsLedger, Ledger!Spec
=============================================================================
