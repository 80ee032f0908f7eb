-------------------------- MODULE MCTicketTypeAdmin --------------------------
(* Small instances of TicketTypeAdmin for TLC. *)
EXTENDS TicketTypeAdmin, TLC

MCCapacity == [t \in TicketTypes |-> 3]
MCSymmetry == Permutations(Reservations) \cup Permutations(Editors)
=============================================================================
