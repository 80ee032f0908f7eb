------------------------------ MODULE MCBooking ------------------------------
(* Small instances of Booking for TLC. *)
EXTENDS Booking, TLC

MCCapacity == [t \in TicketTypes |-> 3]
MCSymmetry == Permutations(Reservations) \cup Permutations(Requests)
=============================================================================
