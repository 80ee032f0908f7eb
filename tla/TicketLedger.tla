----------------------------- MODULE TicketLedger -----------------------------
(***************************************************************************)
(* What the booking platform promises, without its tables, queues and      *)
(* handlers: a booking claims seats of one ticket type, and the claim is   *)
(* either given back or turned into a sale, in one step with the capture   *)
(* of its payment.  Seats are claimed only while the capacity lasts, and a *)
(* capacity is never set below what is claimed.                            *)
(***************************************************************************)
EXTENDS Naturals, FiniteSets

CONSTANTS
    TicketTypes,
    Capacity,       \* the initial capacity of each ticket type
    Quantities,     \* the seats a booking may claim
    Sizes,          \* the capacities a ticket type may be resized to
    Bookings,
    None

VARIABLES
    capacity,   \* the seats of each ticket type
    claim,      \* the claim of each booking: [status, ticketType, quantity]
    money       \* the payment of each booking

vars == <<capacity, claim, money>>

Init ==
    /\ capacity = Capacity
    /\ claim = [b \in Bookings |-> [status |-> "none", ticketType |-> None, quantity |-> 0]]
    /\ money = [b \in Bookings |-> "none"]

\* The seats of ticket type t that are held or sold.
Claimed(t) ==
    UNION {{b} \X (1..claim[b].quantity) :
             b \in {c \in Bookings : /\ claim[c].status \in {"held", "sold"}
                                     /\ claim[c].ticketType = t}}

Hold(b, t, n) ==
    /\ claim[b].status = "none"
    /\ Cardinality(Claimed(t)) + n <= capacity[t]
    /\ claim' = [claim EXCEPT ![b] = [status |-> "held", ticketType |-> t, quantity |-> n]]
    /\ UNCHANGED <<capacity, money>>

Release(b) ==
    /\ claim[b].status = "held"
    /\ claim' = [claim EXCEPT ![b].status = "released"]
    /\ UNCHANGED <<capacity, money>>

Sell(b) ==
    /\ claim[b].status = "held"
    /\ money[b] = "none"
    /\ claim' = [claim EXCEPT ![b].status = "sold"]
    /\ money' = [money EXCEPT ![b] = "captured"]
    /\ UNCHANGED capacity

Refund(b) ==
    /\ money[b] = "captured"
    /\ money' = [money EXCEPT ![b] = "refunded"]
    /\ UNCHANGED <<capacity, claim>>

Resize(t, n) ==
    /\ Cardinality(Claimed(t)) <= n
    /\ capacity' = [capacity EXCEPT ![t] = n]
    /\ UNCHANGED <<claim, money>>

Next ==
    \/ \E b \in Bookings :
         \/ \E t \in TicketTypes, n \in Quantities : Hold(b, t, n)
         \/ Release(b)
         \/ Sell(b)
         \/ Refund(b)
    \/ \E t \in TicketTypes, n \in Sizes : Resize(t, n)

Spec == Init /\ [][Next]_vars
=============================================================================
