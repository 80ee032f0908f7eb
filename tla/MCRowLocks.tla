------------------------------ MODULE MCRowLocks ------------------------------
(* A small instance of RowLocks for TLC. *)
EXTENDS RowLocks, TLC

MCCapacity == [t \in TicketTypes |-> 1]
MCSymmetry == Permutations(Transactions) \cup Permutations(Reservations)
=============================================================================
