--------------------------- MODULE TicketTypeAdmin ---------------------------
(***************************************************************************)
(* An organizer changes the totalQuantity of a ticket type while it is     *)
(* being sold.  TicketTypeService.update reads the row, computes the new   *)
(* remainingQuantity from it and writes it back on condition that the      *)
(* version is still the one it read.  The rest of the system is Booking.   *)
(***************************************************************************)
EXTENDS Booking

CONSTANTS
    Editors,        \* the update requests that may be in flight at once
    Sizes,          \* the totals an organizer may ask for (Min(1) in the DTO)
    MaxVersion      \* bound: an update is begun only below this version

ASSUME SizesAssumption == Sizes \subseteq Nat \ {0}

VARIABLE edit       \* what an in-flight update has read, or None

adminVars == <<vars, edit>>

Edit == [ticketType: TicketTypes, size: Sizes, total: Nat, remaining: Nat, version: Nat]

AdminTypeOK == TypeOK /\ edit \in [Editors -> Edit \cup {None}]

AdminInit == Init /\ edit = [e \in Editors |-> None]

\* Mutant: the check is left out.
CoversNothing(t, size) == TRUE

\* newTotalquantity >= sold, by the row as it was read.
CoversSold(t, size) == size >= totalQuantity[t] - remainingQuantity[t]

ReadForUpdate(e, t, size) ==
    /\ edit[e] = None
    /\ version[t] < MaxVersion
    /\ CoversSold(t, size)
    /\ edit' = [edit EXCEPT ![e] = [ticketType |-> t, size |-> size,
                                    total |-> totalQuantity[t],
                                    remaining |-> remainingQuantity[t],
                                    version |-> version[t]]]
    /\ UNCHANGED vars

\* Mutant: the write is not conditional on the version.
AnyVersion(e) == edit[e] # None

SameVersion(e) == edit[e] # None /\ version[edit[e].ticketType] = edit[e].version

WriteVersioned(e) ==
    /\ SameVersion(e)
    /\ LET t == edit[e].ticketType
           newRemaining == edit[e].remaining + edit[e].size - edit[e].total
       IN  /\ totalQuantity' = [totalQuantity EXCEPT ![t] = edit[e].size]
           /\ remainingQuantity' = [remainingQuantity EXCEPT ![t] = newRemaining]
           /\ version' = [version EXCEPT ![t] = @ + 1]
    /\ edit' = [edit EXCEPT ![e] = None]
    /\ UNCHANGED <<reservation, order, payment, lapsed, queues, overdue, request>>

\* The version has moved (ConflictException), or the process or database fails.
UpdateFails(e) ==
    /\ edit[e] # None
    /\ edit' = [edit EXCEPT ![e] = None]
    /\ UNCHANGED vars

AdminStep(e) ==
    \/ \E t \in TicketTypes, size \in Sizes : ReadForUpdate(e, t, size)
    \/ WriteVersioned(e)
    \/ UpdateFails(e)

AdminNext ==
    \/ Next /\ UNCHANGED edit
    \/ \E e \in Editors : AdminStep(e)

AdminSpec == AdminInit /\ [][AdminNext]_adminVars

-----------------------------------------------------------------------------
(* Properties. *)

\* However updates and bookings interleave, the seats that are held or sold and
\* the seats still offered never exceed the total: no update brings back seats
\* that a concurrent booking took.
NoOversell ==
    \A t \in TicketTypes :
      remainingQuantity[t] + Cardinality(Claims(t)) <= totalQuantity[t]

ResizableLedger == INSTANCE TicketLedger WITH
    Bookings <- Reservations,
    capacity <- totalQuantity, claim <- claimed, money <- captured

\* A ticket type that is resized while it is sold still behaves as the ledger:
\* a total is never set below the seats that are claimed.
ImplementsResizableLedger == ResizableLedger!Spec
=============================================================================
