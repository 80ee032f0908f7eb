----------------------------- MODULE Availability -----------------------------
(***************************************************************************)
(* The number of remaining tickets that the viewers of an event page see:  *)
(* ReservationsService.create inside and after the Redis lock, the writes  *)
(* that give seats back, broadcastAvailability and the event room of       *)
(* AppGateway.  There is one ticket type; each element of Callers is one   *)
(* create() of one seat, and one call of RedisLock.                        *)
(*                                                                         *)
(* The counter is read again after the commit and outside the lock, and    *)
(* sent when the answer has come: other writes, reads and messages may     *)
(* come in between.                                                        *)
(***************************************************************************)
EXTENDS RedisLock, FiniteSets

CONSTANTS
    Seats,      \* the remainingQuantity to begin with
    Viewers,    \* the sockets of the viewers
    Unknown     \* no message since the viewer entered the room

ASSUME SeatsAssumption == Seats \in Nat
ASSUME UnknownAssumption == Unknown \notin Nat
ASSUME CallersAssumption == IsFiniteSet(Callers)    \* MaxWrites counts them

VARIABLES
    remainingQuantity,
    writes,         \* how often remainingQuantity was written
    hold,           \* the reservation each create() made
    broadcast,      \* what each call of broadcastAvailability awaits
    viewer,         \* the members of the event room and what they were sent
    unannounced     \* history: the writes that nobody broadcasts (any more)

seen == <<broadcast, viewer, unannounced>>
availability == <<remainingQuantity, writes, hold, seen>>
availabilityVars == <<vars, availability>>

\* The create() and the end of the hold it made call broadcastAvailability.
Writers == {"create", "end"} \X Callers

Silent == [at |-> "idle", write |-> 0, value |-> 0, asOf |-> 0]

\* newest: the latest write a message of this stay has told of; last: the write
\* the last message told of; shown: the number in that message.
Away == [inRoom |-> FALSE, since |-> 0, newest |-> 0, last |-> 0, shown |-> Unknown]

MaxWrites == 2 * Cardinality(Callers)

AvailabilityTypeOK ==
    /\ LockTypeOK
    /\ remainingQuantity \in 0..Seats
    /\ writes \in 0..MaxWrites
    /\ hold \in [Callers -> {"none", "held", "ended"}]
    /\ broadcast \in [Writers -> [at: {"idle", "query", "emit"}, write: 0..MaxWrites,
                                  value: 0..Seats, asOf: 0..MaxWrites]]
    /\ viewer \in [Viewers -> [inRoom: BOOLEAN, since: 0..MaxWrites,
                               newest: 0..MaxWrites, last: 0..MaxWrites,
                               shown: (0..Seats) \cup {Unknown}]]
    /\ unannounced \subseteq 1..MaxWrites

AvailabilityInit ==
    /\ Init
    /\ remainingQuantity = Seats
    /\ writes = 0
    /\ hold = [c \in Callers |-> "none"]
    /\ broadcast = [w \in Writers |-> Silent]
    /\ viewer = [v \in Viewers |-> Away]
    /\ unannounced = {}

-----------------------------------------------------------------------------
(* create(): the critical section and what follows it. *)

\* Mutant: the number is read before the transaction, the broadcast is the same.
BroadcastOldRow(w) ==
    broadcast' = [broadcast EXCEPT ![w] = [at |-> "emit", write |-> writes + 1,
                                           value |-> remainingQuantity, asOf |-> writes]]

\* The write is committed; the queue call before the query may take its time.
BroadcastNext(w) ==
    broadcast' = [broadcast EXCEPT ![w] = [Silent EXCEPT !.at = "query", !.write = writes + 1]]

\* Mutant: the counter may be decremented without a seat left.
SeatLeftUnchecked == TRUE

SeatLeft == remainingQuantity >= 1

\* The critical section commits its decrement.
LeaveWithHold(c) ==
    /\ Leave(c)
    /\ SeatLeft
    /\ remainingQuantity' = remainingQuantity - 1
    /\ writes' = writes + 1
    /\ hold' = [hold EXCEPT ![c] = "held"]
    /\ BroadcastNext(<<"create", c>>)
    /\ UNCHANGED <<viewer, unannounced>>

\* Sold out, or the transaction fails.
LeaveWithout(c) ==
    /\ Leave(c)
    /\ UNCHANGED availability

-----------------------------------------------------------------------------
(* The end of a hold without a sale. *)

\* The expiry, the user's cancellation and the cancellation of the order.
EndHold(c) ==
    /\ hold[c] = "held"
    /\ hold' = [hold EXCEPT ![c] = "ended"]
    /\ remainingQuantity' = remainingQuantity + 1
    /\ writes' = writes + 1
    /\ BroadcastNext(<<"end", c>>)
    /\ UNCHANGED <<vars, viewer, unannounced>>

\* A failed payment and the cancellation of the event do not broadcast.
EndHoldSilently(c) ==
    /\ hold[c] = "held"
    /\ hold' = [hold EXCEPT ![c] = "ended"]
    /\ remainingQuantity' = remainingQuantity + 1
    /\ writes' = writes + 1
    /\ unannounced' = unannounced \cup {writes'}
    /\ UNCHANGED <<vars, broadcast, viewer>>

-----------------------------------------------------------------------------
(* broadcastAvailability. *)

\* A create() goes on once withLock has returned.
Returned(w) == w[1] = "create" => phase[w[2]] = "ended"

QueryCounter(w) ==
    /\ broadcast[w].at = "query"
    /\ Returned(w)
    /\ broadcast' = [broadcast EXCEPT ![w].at = "emit", ![w].value = remainingQuantity,
                                      ![w].asOf = writes]
    /\ UNCHANGED <<vars, remainingQuantity, writes, hold, viewer, unannounced>>

Told(v, w) ==
    LET asOf == broadcast[w].asOf
    IN  [viewer[v] EXCEPT !.newest = IF asOf > @ THEN asOf ELSE @,
                          !.last = asOf,
                          !.shown = broadcast[w].value]

\* The sockets in the room at this moment get the message, in this order.
Emit(w) ==
    /\ broadcast[w].at = "emit"
    /\ Returned(w)
    /\ viewer' = [v \in Viewers |-> IF viewer[v].inRoom THEN Told(v, w) ELSE viewer[v]]
    /\ broadcast' = [broadcast EXCEPT ![w] = Silent]
    /\ UNCHANGED <<vars, remainingQuantity, writes, hold, unannounced>>

\* The queue call or the query throws, or the process dies.
BroadcastFails(w) ==
    /\ broadcast[w].at # "idle"
    /\ broadcast' = [broadcast EXCEPT ![w] = Silent]
    /\ unannounced' = unannounced \cup {broadcast[w].write}
    /\ UNCHANGED <<vars, remainingQuantity, writes, hold, viewer>>

-----------------------------------------------------------------------------
(* The event room. *)

JoinEventRoom(v) ==
    /\ ~viewer[v].inRoom
    /\ viewer' = [viewer EXCEPT ![v] = [Away EXCEPT !.inRoom = TRUE, !.since = writes]]
    /\ UNCHANGED <<vars, remainingQuantity, writes, hold, broadcast, unannounced>>

\* The client leaves the page or its socket is disconnected.
LeaveEventRoom(v) ==
    /\ viewer[v].inRoom
    /\ viewer' = [viewer EXCEPT ![v] = Away]
    /\ UNCHANGED <<vars, remainingQuantity, writes, hold, broadcast, unannounced>>

-----------------------------------------------------------------------------

CreateStep(c) ==
    \/ Acquire(c) /\ UNCHANGED availability
    \/ Retry(c) /\ UNCHANGED availability
    \/ GiveUp(c) /\ UNCHANGED availability
    \/ LeaveWithHold(c)
    \/ LeaveWithout(c)
    \/ Release(c) /\ UNCHANGED availability

AvailabilityNext ==
    \/ \E c \in Callers :
         \/ CreateStep(c)
         \/ CallFails(c) /\ UNCHANGED availability
         \/ EndHold(c)
         \/ EndHoldSilently(c)
    \/ \E w \in Writers : QueryCounter(w) \/ Emit(w) \/ BroadcastFails(w)
    \/ \E v \in Viewers : JoinEventRoom(v) \/ LeaveEventRoom(v)
    \/ KeyExpires /\ UNCHANGED availability

AvailabilitySpec ==
    /\ AvailabilityInit
    /\ [][AvailabilityNext]_availabilityVars
    /\ \A c \in Callers : WF_availabilityVars(CreateStep(c))
    /\ WF_availabilityVars(KeyExpires /\ UNCHANGED availability)

-----------------------------------------------------------------------------
(* Properties. *)

\* A viewer in the room has been told of every write made since it entered, by
\* a message as new as the write, unless that message is still on its way or
\* the write is one that nobody announces; and a number that tells of the last
\* write is the right one.  What the viewer is shown in the end may still be an
\* older number, of a message that was overtaken: last < newest.
ViewersAreCurrent ==
    \A v \in Viewers : viewer[v].inRoom =>
      /\ \A n \in (viewer[v].since + 1)..writes :
           \/ n <= viewer[v].newest
           \/ n \in unannounced
           \/ \E w \in Writers : broadcast[w].at # "idle" /\ broadcast[w].write = n
      /\ viewer[v].shown # Unknown /\ viewer[v].last = writes
           => viewer[v].shown = remainingQuantity
=============================================================================
