------------------------- MODULE MCEventCancellation -------------------------
(* Small instances of EventCancellation for TLC: one seat of each type. *)
EXTENDS EventCancellation

MCCapacity == [t \in TicketTypes |-> 1]
=============================================================================
