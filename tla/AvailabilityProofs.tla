-------------------------- MODULE AvailabilityProofs --------------------------
(***************************************************************************)
(* Proofs about RedisLock and Availability, for any number of calls,       *)
(* retries, seats and viewers.                                             *)
(***************************************************************************)
EXTENDS Availability, FiniteSetTheorems, TLAPS

-----------------------------------------------------------------------------
(* The lock. *)

\* Nobody holds the key and nobody has tried yet.
LEMMA LockInit == Init => LockTypeOK /\ HolderKeepsKey
  BY MaxRetriesAssumption, NoTokenAssumption
     DEF Init, LockTypeOK, HolderKeepsKey, Phases

\* Only the call whose token is in the key frees it, except for the expiry, and
\* that one is remembered as an overrun of the call inside.
LEMMA LockStep ==
  LockTypeOK /\ HolderKeepsKey /\ [Next]_vars => LockTypeOK' /\ HolderKeepsKey'
<1> SUFFICES ASSUME LockTypeOK, HolderKeepsKey, [Next]_vars
             PROVE  LockTypeOK' /\ HolderKeepsKey'
  OBVIOUS
<1> USE MaxRetriesAssumption, NoTokenAssumption DEF LockTypeOK, HolderKeepsKey, Phases, Goto
<1>1. ASSUME NEW c \in Callers, CallStep(c)
      PROVE  LockTypeOK' /\ HolderKeepsKey'
  <2>1. CASE Acquire(c)  BY <2>1 DEF Acquire
  <2>2. CASE Retry(c)  BY <2>2 DEF Retry
  <2>3. CASE GiveUp(c)  BY <2>3 DEF GiveUp
  <2>4. CASE Leave(c)  BY <2>4 DEF Leave
  <2>5. CASE Release(c)  BY <2>5 DEF Release, CompareAndDelete
  <2>6. QED  BY <1>1, <2>1, <2>2, <2>3, <2>4, <2>5 DEF CallStep
<1>2. ASSUME NEW c \in Callers, CallFails(c)
      PROVE  LockTypeOK' /\ HolderKeepsKey'
  <2>1. CASE AcquireUnanswered(c)  BY <2>1 DEF AcquireUnanswered
  <2>2. CASE Abandon(c)  BY <2>2 DEF Abandon
  <2>3. QED  BY <1>2, <2>1, <2>2 DEF CallFails
<1>3. CASE KeyExpires
  BY <1>3 DEF KeyExpires
<1>4. CASE UNCHANGED vars
  BY <1>4 DEF vars
<1>5. QED
  BY <1>1, <1>2, <1>3, <1>4 DEF Next

\* Whatever the critical sections do and however long they take: a call that is
\* inside and whose TTL has not run out owns the key.
THEOREM LockHeld == Spec => [](LockTypeOK /\ HolderKeepsKey)
<1>1. LockTypeOK /\ HolderKeepsKey /\ [Next]_vars => (LockTypeOK /\ HolderKeepsKey)'
  BY LockStep
<1>2. QED
  BY LockInit, <1>1, PTL DEF Spec

-----------------------------------------------------------------------------
(* How long a call can take. *)

\* The steps of its own a call has left at most.
StepsLeft(c) ==
  CASE phase[c] = "trying" -> (MaxRetries - attempts[c]) + 3
    [] phase[c] = "inside" -> 2
    [] phase[c] = "releasing" -> 1
    [] phase[c] = "ended" -> 0

\* Every step of a call uses one up, and no step of another call or of the key
\* gives one back.
CountDown ==
  \A c \in Callers :
    /\ StepsLeft(c)' <= StepsLeft(c)
    /\ CallStep(c) \/ CallFails(c) => StepsLeft(c)' < StepsLeft(c)

\* A step of a call changes the record of that call only.
LEMMA CallCountsDown ==
  ASSUME LockTypeOK, NEW c \in Callers, CallStep(c) \/ CallFails(c)
  PROVE  /\ StepsLeft(c)' < StepsLeft(c)
         /\ \A d \in Callers \ {c} : StepsLeft(d)' = StepsLeft(d)
<1> USE MaxRetriesAssumption DEF LockTypeOK, Phases, Goto, StepsLeft
<1>1. CASE Acquire(c) \/ AcquireUnanswered(c)
  BY <1>1 DEF Acquire, AcquireUnanswered
<1>2. CASE Retry(c)
  BY <1>2 DEF Retry
<1>3. CASE GiveUp(c)
  BY <1>3 DEF GiveUp
<1>4. CASE Leave(c) \/ Release(c)
  BY <1>4 DEF Leave, Release
<1>5. CASE Abandon(c)
  BY <1>5 DEF Abandon
<1>6. QED
  BY <1>1, <1>2, <1>3, <1>4, <1>5 DEF CallStep, CallFails

\* Whoever holds the lock and however often the key expires, a call is over
\* after at most MaxRetries + 3 steps of its own: the part of EveryCallEnds that
\* does not depend on the scheduling.
THEOREM CallsAreBounded ==
  Spec => /\ [](\A c \in Callers : StepsLeft(c) \in 0..(MaxRetries + 3))
          /\ [][CountDown]_vars
<1>1. LockTypeOK => \A c \in Callers : StepsLeft(c) \in 0..(MaxRetries + 3)
  BY MaxRetriesAssumption DEF LockTypeOK, Phases, StepsLeft
<1>2. LockTypeOK /\ HolderKeepsKey /\ [Next]_vars => [CountDown]_vars
  <2> SUFFICES ASSUME LockTypeOK, HolderKeepsKey, Next  PROVE CountDown
    OBVIOUS
  <2>1. ASSUME NEW d \in Callers  PROVE StepsLeft(d)' <= StepsLeft(d)
    <3>0. StepsLeft(d) \in Int /\ StepsLeft(d)' \in Int
      <4>1. LockTypeOK'
        BY LockStep
      <4>2. StepsLeft(d)' \in Int
        BY <4>1, MaxRetriesAssumption DEF LockTypeOK, Phases, StepsLeft
      <4>3. QED
        BY <1>1, <4>2, MaxRetriesAssumption
    <3>1. ASSUME NEW c \in Callers, CallStep(c) \/ CallFails(c)
          PROVE  StepsLeft(d)' <= StepsLeft(d)
      <4>1. CASE c = d
        <5>1. StepsLeft(d)' < StepsLeft(d)
          BY <3>1, <4>1, CallCountsDown
        <5>2. QED
          BY <5>1, <3>0
      <4>2. CASE c # d
        <5>1. StepsLeft(d)' = StepsLeft(d)
          BY <3>1, <4>2, CallCountsDown
        <5>2. QED
          BY <5>1, <3>0
      <4>3. QED
        BY <4>1, <4>2
    <3>2. CASE KeyExpires
      <4>1. StepsLeft(d)' = StepsLeft(d)
        BY <3>2 DEF KeyExpires, StepsLeft
      <4>2. QED
        BY <4>1, <3>0
    <3>3. QED
      BY <3>1, <3>2 DEF Next
  <2>2. QED
    BY <2>1, CallCountsDown DEF CountDown
<1>3. QED
  BY <1>1, <1>2, LockHeld, PTL DEF Spec

-----------------------------------------------------------------------------
(* Availability uses the lock as RedisLock describes it. *)

\* A step of Availability is a step of the lock or leaves it alone.
LEMMA LockOfAvailability == [AvailabilityNext]_availabilityVars => [Next]_vars
<1> SUFFICES ASSUME [AvailabilityNext]_availabilityVars
             PROVE  [Next]_vars
  OBVIOUS
<1>1. ASSUME NEW c \in Callers, CreateStep(c)
      PROVE  CallStep(c)
  BY <1>1 DEF CreateStep, CallStep, LeaveWithHold, LeaveWithout
<1>2. ASSUME NEW c \in Callers, EndHold(c) \/ EndHoldSilently(c)
      PROVE  UNCHANGED vars
  BY <1>2 DEF EndHold, EndHoldSilently
<1>3. ASSUME NEW w \in Writers, QueryCounter(w) \/ Emit(w) \/ BroadcastFails(w)
      PROVE  UNCHANGED vars
  BY <1>3 DEF QueryCounter, Emit, BroadcastFails
<1>4. ASSUME NEW v \in Viewers, JoinEventRoom(v) \/ LeaveEventRoom(v)
      PROVE  UNCHANGED vars
  BY <1>4 DEF JoinEventRoom, LeaveEventRoom
<1>5. CASE UNCHANGED availabilityVars
  BY <1>5 DEF availabilityVars
<1>6. QED
  BY <1>1, <1>2, <1>3, <1>4, <1>5 DEF AvailabilityNext, Next

\* Filling in the critical section keeps what the lock promises.
THEOREM LockHeldByCreate == AvailabilitySpec => [](LockTypeOK /\ HolderKeepsKey)
<1>1. LockTypeOK /\ HolderKeepsKey /\ [AvailabilityNext]_availabilityVars
        => (LockTypeOK /\ HolderKeepsKey)'
  BY LockOfAvailability, LockStep
<1>2. AvailabilityInit => LockTypeOK /\ HolderKeepsKey
  BY LockInit DEF AvailabilityInit
<1>3. QED
  BY <1>1, <1>2, PTL DEF AvailabilitySpec

-----------------------------------------------------------------------------
(* The viewers. *)

\* The types without the bounds that come from counting the callers.
Broadcasts == [at: {"idle", "query", "emit"}, write: Nat, value: Nat, asOf: Nat]
Views == [inRoom: BOOLEAN, since: Nat, newest: Nat, last: Nat, shown: Nat \cup {Unknown}]

Counters ==
    /\ phase \in [Callers -> Phases]
    /\ remainingQuantity \in Nat
    /\ writes \in Nat
    /\ hold \in [Callers -> {"none", "held", "ended"}]
    /\ broadcast \in [Writers -> Broadcasts]
    /\ viewer \in [Viewers -> Views]

\* A call that is still to write has made no hold, and a hold that is still to be
\* made or to end is not announced yet: no broadcast takes another's place.
OneBroadcastEach ==
    \A c \in Callers :
      /\ phase[c] \in {"trying", "inside"} => hold[c] = "none"
      /\ hold[c] = "none" => broadcast[<<"create", c>>].at = "idle"
      /\ hold[c] # "ended" => broadcast[<<"end", c>>].at = "idle"

\* What a broadcast has read is as new as the write it announces.
ReadAfterWrite ==
    \A w \in Writers :
      /\ broadcast[w].at # "idle" => broadcast[w].write <= writes
      /\ broadcast[w].at = "emit" =>
            /\ broadcast[w].write <= broadcast[w].asOf
            /\ broadcast[w].asOf <= writes
            /\ broadcast[w].asOf = writes => broadcast[w].value = remainingQuantity

\* Nobody is told of a write that was not made.
NothingInvented ==
    \A v \in Viewers : viewer[v].newest <= writes /\ viewer[v].last <= writes

ViewInv ==
    Counters /\ OneBroadcastEach /\ ReadAfterWrite /\ NothingInvented /\ ViewersAreCurrent

\* The write n is told, or will be, or is one nobody announces.
Accounted(v, n) ==
    \/ n <= viewer[v].newest
    \/ n \in unannounced
    \/ \E w \in Writers : broadcast[w].at # "idle" /\ broadcast[w].write = n

\* ViewersAreCurrent with that word.
LEMMA CurrentSaid ==
  ViewersAreCurrent <=>
    \A v \in Viewers : viewer[v].inRoom =>
      /\ \A n \in (viewer[v].since + 1)..writes : Accounted(v, n)
      /\ viewer[v].shown # Unknown /\ viewer[v].last = writes
           => viewer[v].shown = remainingQuantity
  BY DEF ViewersAreCurrent, Accounted

\* A write whose broadcast begins, or which is one that nobody announces, leaves
\* the viewers accounted for.
LEMMA NewWrite ==
  ASSUME ViewInv, writes' = writes + 1, UNCHANGED viewer,
         remainingQuantity' \in Nat, NEW w \in Writers, broadcast[w].at = "idle",
         \/ BroadcastNext(w) /\ UNCHANGED unannounced
         \/ UNCHANGED broadcast /\ unannounced' = unannounced \cup {writes'}
  PROVE  /\ broadcast' \in [Writers -> Broadcasts]
         /\ \A u \in Writers : u # w => broadcast'[u] = broadcast[u]
         /\ ReadAfterWrite'
         /\ NothingInvented'
         /\ ViewersAreCurrent'
<1>1. /\ broadcast \in [Writers -> Broadcasts] /\ viewer \in [Viewers -> Views]
      /\ writes \in Nat
  BY DEF ViewInv, Counters
<1>2. /\ broadcast' \in [Writers -> Broadcasts]
      /\ \A u \in Writers : u # w => broadcast'[u] = broadcast[u]
      /\ \/ broadcast'[w].at = "query" /\ broadcast'[w].write = writes + 1
         \/ broadcast'[w].at = "idle" /\ writes + 1 \in unannounced'
      /\ unannounced \subseteq unannounced'
  <2>1. CASE BroadcastNext(w) /\ UNCHANGED unannounced
    <3>1. broadcast' = [broadcast EXCEPT ![w] = [Silent EXCEPT !.at = "query", !.write = writes + 1]]
      BY <2>1 DEF BroadcastNext
    <3>2. /\ [Silent EXCEPT !.at = "query", !.write = writes + 1] \in Broadcasts
          /\ [Silent EXCEPT !.at = "query", !.write = writes + 1].at = "query"
          /\ [Silent EXCEPT !.at = "query", !.write = writes + 1].write = writes + 1
      <4>1. Silent \in Broadcasts
        BY DEF Silent, Broadcasts
      <4>2. \A b \in Broadcasts, n \in Nat :
              /\ [b EXCEPT !.at = "query", !.write = n] \in Broadcasts
              /\ [b EXCEPT !.at = "query", !.write = n].at = "query"
              /\ [b EXCEPT !.at = "query", !.write = n].write = n
        BY DEF Broadcasts
      <4>3. writes + 1 \in Nat
        BY <1>1
      <4>4. QED
        BY <4>1, <4>2, <4>3, Zenon
    <3>3. QED
      BY <1>1, <2>1, <3>1, <3>2
  <2>2. CASE UNCHANGED broadcast /\ unannounced' = unannounced \cup {writes'}
    BY <1>1, <2>2
  <2>3. QED
    BY <2>1, <2>2
<1>3. ReadAfterWrite'
  <2> SUFFICES ASSUME NEW u \in Writers
               PROVE  /\ broadcast'[u].at # "idle" => broadcast'[u].write <= writes'
                      /\ broadcast'[u].at = "emit" =>
                            /\ broadcast'[u].write <= broadcast'[u].asOf
                            /\ broadcast'[u].asOf <= writes'
                            /\ broadcast'[u].asOf = writes'
                                 => broadcast'[u].value = remainingQuantity'
    BY DEF ReadAfterWrite
  <2>1. CASE u = w
    BY <1>1, <1>2, <2>1
  <2>2. CASE u # w
    <3>1. /\ broadcast'[u] = broadcast[u]
          /\ broadcast[u].write \in Nat /\ broadcast[u].asOf \in Nat
      BY <1>1, <1>2, <2>2 DEF Broadcasts
    <3>2. /\ broadcast[u].at # "idle" => broadcast[u].write <= writes
          /\ broadcast[u].at = "emit" => /\ broadcast[u].write <= broadcast[u].asOf
                                         /\ broadcast[u].asOf <= writes
      BY DEF ViewInv, ReadAfterWrite
    <3>3. QED
      BY <1>1, <3>1, <3>2
  <2>3. QED
    BY <2>1, <2>2
<1>4. NothingInvented'
  <2> SUFFICES ASSUME NEW v \in Viewers
               PROVE  viewer[v].newest <= writes + 1 /\ viewer[v].last <= writes + 1
    BY DEF NothingInvented
  <2>1. viewer[v].newest \in Nat /\ viewer[v].last \in Nat
    BY <1>1 DEF Views
  <2>2. QED
    BY <1>1, <2>1 DEF ViewInv, NothingInvented
<1>5. ViewersAreCurrent'
  <2> SUFFICES ASSUME NEW v \in Viewers, viewer[v].inRoom
               PROVE  /\ \A n \in (viewer[v].since + 1)..(writes + 1) :
                           \/ n <= viewer[v].newest
                           \/ n \in unannounced'
                           \/ \E u \in Writers : broadcast'[u].at # "idle" /\ broadcast'[u].write = n
                      /\ viewer[v].last # writes + 1
    BY DEF ViewersAreCurrent
  <2>1. viewer[v].last \in Nat /\ viewer[v].since \in Nat
    BY <1>1 DEF Views
  <2>2. viewer[v].last # writes + 1
    BY <1>1, <2>1 DEF ViewInv, NothingInvented
  <2>3. ASSUME NEW n \in (viewer[v].since + 1)..(writes + 1)
        PROVE  \/ n <= viewer[v].newest
               \/ n \in unannounced'
               \/ \E u \in Writers : broadcast'[u].at # "idle" /\ broadcast'[u].write = n
    <3>1. CASE n = writes + 1
      BY <1>2, <3>1
    <3>2. CASE n # writes + 1
      <4>1. n \in (viewer[v].since + 1)..writes
        BY <1>1, <2>1, <3>2
      <4>2. Accounted(v, n)
        BY <4>1, CurrentSaid DEF ViewInv
      <4>3. \A u \in Writers : broadcast[u].at # "idle" => broadcast'[u] = broadcast[u]
        BY <1>2
      <4>4. QED
        BY <1>2, <4>2, <4>3 DEF Accounted
    <3>3. QED
      BY <3>1, <3>2
  <2>4. QED
    BY <2>2, <2>3
<1>6. QED
  BY <1>2, <1>3, <1>4, <1>5

\* A broadcast that is dropped or goes on leaves the writes as they are; told or
\* given up, its write stays accounted for.
LEMMA BroadcastStep ==
  ASSUME ViewInv, NEW w \in Writers, QueryCounter(w) \/ Emit(w) \/ BroadcastFails(w)
  PROVE  ViewInv'
<1>1. /\ broadcast \in [Writers -> Broadcasts] /\ viewer \in [Viewers -> Views]
      /\ writes \in Nat /\ remainingQuantity \in Nat
      /\ broadcast[w] \in Broadcasts
  BY DEF ViewInv, Counters
<1>2. UNCHANGED <<vars, remainingQuantity, writes, hold>> /\ broadcast[w].at # "idle"
  BY DEF QueryCounter, Emit, BroadcastFails
<1>3. Silent \in Broadcasts /\ Silent.at = "idle"
  BY DEF Silent, Broadcasts
<1>4. /\ broadcast'[w] \in Broadcasts
      /\ broadcast' \in [Writers -> Broadcasts]
      /\ \A u \in Writers : u # w => broadcast'[u] = broadcast[u]
  <2>1. CASE QueryCounter(w)
    <3>1. broadcast' = [broadcast EXCEPT ![w].at = "emit", ![w].value = remainingQuantity,
                                         ![w].asOf = writes]
      BY <2>1 DEF QueryCounter
    <3>2. broadcast'[w] \in Broadcasts
      BY <1>1, <3>1 DEF Broadcasts
    <3>3. \A u \in Writers : u # w => broadcast'[u] = broadcast[u]
      BY <1>1, <3>1
    <3>4. QED
      BY <1>1, <3>1, <3>2, <3>3
  <2>2. CASE broadcast' = [broadcast EXCEPT ![w] = Silent]
    BY <1>1, <1>3, <2>2
  <2>3. QED
    BY <2>1, <2>2 DEF Emit, BroadcastFails
<1>5. /\ viewer' \in [Viewers -> Views]
      /\ \A v \in Viewers :
           /\ viewer'[v].inRoom = viewer[v].inRoom
           /\ viewer'[v].since = viewer[v].since
           /\ viewer'[v].newest >= viewer[v].newest
           /\ \/ viewer'[v] = viewer[v] /\ (Emit(w) => ~viewer[v].inRoom)
              \/ /\ Emit(w)
                 /\ viewer'[v].newest \in {viewer[v].newest, broadcast[w].asOf}
                 /\ viewer'[v].newest >= broadcast[w].asOf
                 /\ viewer'[v].last = broadcast[w].asOf
                 /\ viewer'[v].shown = broadcast[w].value
  <2>1. CASE UNCHANGED viewer /\ ~Emit(w)
    BY <1>1, <2>1 DEF Views
  <2>2. CASE Emit(w)
    <3>1. \A v \in Viewers : viewer[v] \in Views
      BY <1>1
    <3>2. ASSUME NEW v \in Viewers
          PROVE  /\ Told(v, w) \in Views
                 /\ Told(v, w).inRoom = viewer[v].inRoom
                 /\ Told(v, w).since = viewer[v].since
                 /\ Told(v, w).newest = IF broadcast[w].asOf > viewer[v].newest
                                        THEN broadcast[w].asOf ELSE viewer[v].newest
                 /\ Told(v, w).last = broadcast[w].asOf
                 /\ Told(v, w).shown = broadcast[w].value
      <4>1. broadcast[w].asOf \in Nat /\ broadcast[w].value \in Nat
        BY <1>1 DEF Broadcasts
      <4>2. PICK n \in Nat : n = IF broadcast[w].asOf > viewer[v].newest
                                 THEN broadcast[w].asOf ELSE viewer[v].newest
        BY <3>1, <4>1 DEF Views
      <4>3. Told(v, w) = [viewer[v] EXCEPT !.newest = n, !.last = broadcast[w].asOf,
                                           !.shown = broadcast[w].value]
        BY <4>2 DEF Told
      <4>4. viewer[v] \in Views
        BY <3>1
      <4>5. QED
        BY <4>1, <4>2, <4>3, <4>4 DEF Views
    <3>3. viewer' = [v \in Viewers |-> IF viewer[v].inRoom THEN Told(v, w) ELSE viewer[v]]
      BY <2>2 DEF Emit
    <3>4. viewer' \in [Viewers -> Views]
      BY <3>1, <3>2, <3>3
    <3>5. ASSUME NEW v \in Viewers
          PROVE  /\ viewer'[v].inRoom = viewer[v].inRoom
                 /\ viewer'[v].since = viewer[v].since
                 /\ viewer'[v].newest >= viewer[v].newest
                 /\ \/ viewer'[v] = viewer[v] /\ ~viewer[v].inRoom
                    \/ /\ viewer'[v].newest \in {viewer[v].newest, broadcast[w].asOf}
                       /\ viewer'[v].newest >= broadcast[w].asOf
                       /\ viewer'[v].last = broadcast[w].asOf
                       /\ viewer'[v].shown = broadcast[w].value
      <4>1. viewer[v].newest \in Nat /\ broadcast[w].asOf \in Nat
        BY <1>1, <3>1 DEF Views, Broadcasts
      <4>2. CASE viewer[v].inRoom
        <5>1. viewer'[v] = Told(v, w)
          BY <3>3, <4>2
        <5>2. QED
          BY <3>2, <4>1, <5>1
      <4>3. CASE ~viewer[v].inRoom
        BY <3>3, <4>1, <4>3
      <4>4. QED
        BY <4>2, <4>3
    <3>6. QED
      BY <2>2, <3>4, <3>5
  <2>3. QED
    BY <2>1, <2>2 DEF QueryCounter, BroadcastFails
<1>6. Counters'
  BY <1>2, <1>4, <1>5 DEF ViewInv, Counters, vars
<1>7. OneBroadcastEach'
  <2>1. \A u \in Writers : broadcast[u].at = "idle" => broadcast'[u].at = "idle"
    BY <1>2, <1>4
  <2>2. \A c \in Callers : <<"create", c>> \in Writers /\ <<"end", c>> \in Writers
    BY DEF Writers
  <2>3. QED
    BY <1>2, <2>1, <2>2 DEF ViewInv, OneBroadcastEach, vars
<1>8. ReadAfterWrite'
  <2> SUFFICES ASSUME NEW u \in Writers
               PROVE  /\ broadcast'[u].at # "idle" => broadcast'[u].write <= writes
                      /\ broadcast'[u].at = "emit" =>
                            /\ broadcast'[u].write <= broadcast'[u].asOf
                            /\ broadcast'[u].asOf <= writes
                            /\ broadcast'[u].asOf = writes
                                 => broadcast'[u].value = remainingQuantity
    BY <1>2 DEF ReadAfterWrite
  <2>1. CASE u # w
    BY <1>4, <2>1 DEF ViewInv, ReadAfterWrite
  <2>2. CASE u = w /\ QueryCounter(w)
    <3>1. /\ broadcast'[w].write = broadcast[w].write
          /\ broadcast'[w].asOf = writes
          /\ broadcast'[w].value = remainingQuantity
      BY <1>1, <2>2 DEF QueryCounter, Broadcasts
    <3>2. broadcast[w].write <= writes
      BY <1>2 DEF ViewInv, ReadAfterWrite
    <3>3. QED
      BY <1>1, <2>2, <3>1, <3>2
  <2>3. CASE u = w /\ ~QueryCounter(w)
    BY <1>1, <1>3, <2>3 DEF Emit, BroadcastFails
  <2>4. QED
    BY <2>1, <2>2, <2>3
<1>9. Emit(w) => /\ broadcast[w].at = "emit"
                /\ broadcast[w].write <= broadcast[w].asOf
                /\ broadcast[w].asOf <= writes
                /\ (broadcast[w].asOf = writes => broadcast[w].value = remainingQuantity)
  BY DEF ViewInv, ReadAfterWrite, Emit
<1>10. NothingInvented'
  <2> SUFFICES ASSUME NEW v \in Viewers
               PROVE  viewer'[v].newest <= writes /\ viewer'[v].last <= writes
    BY <1>2 DEF NothingInvented
  <2>1. viewer[v].newest <= writes /\ viewer[v].last <= writes
    BY DEF ViewInv, NothingInvented
  <2>2. QED
    BY <1>5, <1>9, <2>1
<1>11. ViewersAreCurrent'
  <2> SUFFICES ASSUME NEW v \in Viewers, viewer'[v].inRoom
               PROVE  /\ \A n \in (viewer'[v].since + 1)..writes :
                           \/ n <= viewer'[v].newest
                           \/ n \in unannounced'
                           \/ \E u \in Writers : broadcast'[u].at # "idle" /\ broadcast'[u].write = n
                      /\ viewer'[v].shown # Unknown /\ viewer'[v].last = writes
                           => viewer'[v].shown = remainingQuantity
    BY <1>2 DEF ViewersAreCurrent
  <2>1. viewer[v].inRoom
    BY <1>5
  <2>2. /\ \A n \in (viewer[v].since + 1)..writes : Accounted(v, n)
        /\ viewer[v].shown # Unknown /\ viewer[v].last = writes
             => viewer[v].shown = remainingQuantity
    BY <2>1, CurrentSaid DEF ViewInv
  <2>3. ASSUME NEW n \in (viewer'[v].since + 1)..writes
        PROVE  \/ n <= viewer'[v].newest
               \/ n \in unannounced'
               \/ \E u \in Writers : broadcast'[u].at # "idle" /\ broadcast'[u].write = n
    <3>1. Accounted(v, n)
      BY <1>5, <2>2
    <3>2. /\ viewer[v].newest \in Nat /\ viewer'[v].newest \in Nat /\ n \in Nat
          /\ broadcast[w].asOf \in Nat /\ broadcast[w].write \in Nat
      BY <1>1, <1>5 DEF Views, Broadcasts
    <3>3. CASE n <= viewer[v].newest
      BY <1>5, <3>2, <3>3
    <3>4. CASE n \in unannounced
      BY <3>4 DEF QueryCounter, Emit, BroadcastFails
    <3>5. ASSUME NEW u \in Writers, broadcast[u].at # "idle", broadcast[u].write = n, u # w
          PROVE  broadcast'[u].at # "idle" /\ broadcast'[u].write = n
      BY <1>4, <3>5
    <3>6. CASE broadcast[w].write = n /\ QueryCounter(w)
      <4>1. broadcast'[w].write = n /\ broadcast'[w].at = "emit"
        BY <1>1, <3>6 DEF QueryCounter, Broadcasts
      <4>2. QED
        BY <4>1
    <3>7. CASE broadcast[w].write = n /\ Emit(w)
      <4>1. viewer'[v].newest >= broadcast[w].asOf
        BY <1>5, <2>1, <3>7
      <4>2. QED
        BY <1>9, <3>2, <3>7, <4>1
    <3>8. CASE broadcast[w].write = n /\ BroadcastFails(w)
      BY <3>8 DEF BroadcastFails
    <3>9. QED
      BY <3>1, <3>3, <3>4, <3>5, <3>6, <3>7, <3>8 DEF Accounted
  <2>4. viewer'[v].shown # Unknown /\ viewer'[v].last = writes
          => viewer'[v].shown = remainingQuantity
    BY <1>5, <1>9, <2>2
  <2>5. QED
    BY <2>3, <2>4
<1>12. QED
  BY <1>6, <1>7, <1>8, <1>10, <1>11 DEF ViewInv

\* A new hold is announced once it is made, the end of a hold if its writer does.
LEMMA HoldStep ==
  ASSUME ViewInv, [AvailabilityNext]_availabilityVars, NEW c \in Callers,
         LeaveWithHold(c) \/ EndHold(c) \/ EndHoldSilently(c)
  PROVE  ViewInv'
<1>1. /\ phase \in [Callers -> Phases]
      /\ remainingQuantity \in Nat /\ writes \in Nat
      /\ hold \in [Callers -> {"none", "held", "ended"}]
      /\ viewer \in [Viewers -> Views]
  BY DEF ViewInv, Counters
<1>2. remainingQuantity' \in Nat /\ writes' = writes + 1 /\ UNCHANGED viewer
  BY <1>1 DEF LeaveWithHold, SeatLeft, EndHold, EndHoldSilently
<1>3. \A d \in Callers : <<"create", d>> \in Writers /\ <<"end", d>> \in Writers
  BY DEF Writers
<1>4. CASE LeaveWithHold(c)
  <2>1. /\ phase[c] = "inside" /\ phase' = [phase EXCEPT ![c] = "releasing"]
        /\ hold' = [hold EXCEPT ![c] = "held"]
        /\ BroadcastNext(<<"create", c>>) /\ UNCHANGED unannounced
    BY <1>4 DEF LeaveWithHold, Leave, Goto
  <2>2. /\ hold[c] = "none"
        /\ broadcast[<<"create", c>>].at = "idle"
    BY <2>1 DEF ViewInv, OneBroadcastEach
  <2>3. /\ broadcast' \in [Writers -> Broadcasts]
        /\ \A u \in Writers : u # <<"create", c>> => broadcast'[u] = broadcast[u]
        /\ ReadAfterWrite' /\ NothingInvented' /\ ViewersAreCurrent'
    BY <1>2, <1>3, <2>1, <2>2, NewWrite
  <2>4. Counters'
    BY <1>1, <1>2, <2>1, <2>3 DEF Counters, Phases
  <2>5. OneBroadcastEach'
    <3> SUFFICES ASSUME NEW d \in Callers
                 PROVE  /\ phase'[d] \in {"trying", "inside"} => hold'[d] = "none"
                        /\ hold'[d] = "none" => broadcast'[<<"create", d>>].at = "idle"
                        /\ hold'[d] # "ended" => broadcast'[<<"end", d>>].at = "idle"
      BY DEF OneBroadcastEach
    <3>1. /\ phase[d] \in {"trying", "inside"} => hold[d] = "none"
          /\ hold[d] = "none" => broadcast[<<"create", d>>].at = "idle"
          /\ hold[d] # "ended" => broadcast[<<"end", d>>].at = "idle"
      BY DEF ViewInv, OneBroadcastEach
    <3>2. broadcast'[<<"end", d>>] = broadcast[<<"end", d>>]
      BY <1>3, <2>3
    <3>3. d # c => broadcast'[<<"create", d>>] = broadcast[<<"create", d>>]
      BY <1>3, <2>3
    <3>4. QED
      BY <1>1, <2>1, <2>2, <3>1, <3>2, <3>3
  <2>6. QED
    BY <2>3, <2>4, <2>5 DEF ViewInv
<1>5. CASE EndHold(c) \/ EndHoldSilently(c)
  <2>1. /\ hold[c] = "held" /\ hold' = [hold EXCEPT ![c] = "ended"]
        /\ UNCHANGED phase
        /\ \/ BroadcastNext(<<"end", c>>) /\ UNCHANGED unannounced
           \/ UNCHANGED broadcast /\ unannounced' = unannounced \cup {writes'}
    BY <1>5 DEF EndHold, EndHoldSilently, vars
  <2>2. broadcast[<<"end", c>>].at = "idle"
    BY <2>1 DEF ViewInv, OneBroadcastEach
  <2>3. /\ broadcast' \in [Writers -> Broadcasts]
        /\ \A u \in Writers : u # <<"end", c>> => broadcast'[u] = broadcast[u]
        /\ ReadAfterWrite' /\ NothingInvented' /\ ViewersAreCurrent'
    BY <1>2, <1>3, <2>1, <2>2, NewWrite
  <2>4. Counters'
    BY <1>1, <1>2, <2>1, <2>3 DEF Counters, Phases
  <2>5. OneBroadcastEach'
    <3> SUFFICES ASSUME NEW d \in Callers
                 PROVE  /\ phase'[d] \in {"trying", "inside"} => hold'[d] = "none"
                        /\ hold'[d] = "none" => broadcast'[<<"create", d>>].at = "idle"
                        /\ hold'[d] # "ended" => broadcast'[<<"end", d>>].at = "idle"
      BY DEF OneBroadcastEach
    <3>1. /\ phase[d] \in {"trying", "inside"} => hold[d] = "none"
          /\ hold[d] = "none" => broadcast[<<"create", d>>].at = "idle"
          /\ hold[d] # "ended" => broadcast[<<"end", d>>].at = "idle"
      BY DEF ViewInv, OneBroadcastEach
    <3>2. broadcast'[<<"create", d>>] = broadcast[<<"create", d>>]
      BY <1>3, <2>3
    <3>3. d # c => broadcast'[<<"end", d>>] = broadcast[<<"end", d>>]
      BY <1>3, <2>3
    <3>4. QED
      BY <1>1, <2>1, <3>1, <3>2, <3>3
  <2>6. QED
    BY <2>3, <2>4, <2>5 DEF ViewInv
<1>6. QED
  BY <1>4, <1>5

\* A viewer that enters has missed nothing yet; one that leaves need not know.
LEMMA RoomStep ==
  ASSUME ViewInv, NEW v \in Viewers, JoinEventRoom(v) \/ LeaveEventRoom(v)
  PROVE  ViewInv'
<1>1. viewer \in [Viewers -> Views] /\ writes \in Nat
  BY DEF ViewInv, Counters
<1>2. UNCHANGED <<phase, remainingQuantity, writes, hold, broadcast, unannounced>>
  BY DEF JoinEventRoom, LeaveEventRoom, vars
<1>3. /\ Away \in Views
      /\ Away.newest = 0 /\ Away.last = 0 /\ Away.shown = Unknown /\ Away.inRoom = FALSE
  BY DEF Away, Views
<1>4. PICK away \in Views :
        /\ viewer' = [viewer EXCEPT ![v] = away]
        /\ away.newest = 0 /\ away.last = 0 /\ away.shown = Unknown
        /\ away.inRoom => away.since = writes
  <2>1. CASE JoinEventRoom(v)
    <3>1. \A a \in Views, n \in Nat :
            /\ [a EXCEPT !.inRoom = TRUE, !.since = n] \in Views
            /\ [a EXCEPT !.inRoom = TRUE, !.since = n].newest = a.newest
            /\ [a EXCEPT !.inRoom = TRUE, !.since = n].last = a.last
            /\ [a EXCEPT !.inRoom = TRUE, !.since = n].shown = a.shown
            /\ [a EXCEPT !.inRoom = TRUE, !.since = n].since = n
      BY DEF Views
    <3>2. viewer' = [viewer EXCEPT ![v] = [Away EXCEPT !.inRoom = TRUE, !.since = writes]]
      BY <2>1 DEF JoinEventRoom
    <3> DEFINE entered == [Away EXCEPT !.inRoom = TRUE, !.since = writes]
    <3>3. /\ entered \in Views /\ entered.newest = 0 /\ entered.last = 0
          /\ entered.shown = Unknown /\ entered.since = writes
      BY <1>1, <1>3, <3>1, Zenon
    <3> HIDE DEF entered
    <3>4. viewer' = [viewer EXCEPT ![v] = entered]
      BY <3>2 DEF entered
    <3>5. QED
      BY <3>3, <3>4
  <2>2. CASE LeaveEventRoom(v)
    BY <1>3, <2>2 DEF LeaveEventRoom
  <2>3. QED
    BY <2>1, <2>2
<1>5. viewer' \in [Viewers -> Views] /\ \A u \in Viewers : viewer'[u] = IF u = v THEN away ELSE viewer[u]
  BY <1>1, <1>4
<1>6. Counters' /\ OneBroadcastEach' /\ ReadAfterWrite'
  BY <1>2, <1>5 DEF ViewInv, Counters, OneBroadcastEach, ReadAfterWrite
<1>7. NothingInvented'
  BY <1>1, <1>2, <1>4, <1>5 DEF ViewInv, NothingInvented
<1>8. ViewersAreCurrent'
  <2> SUFFICES ASSUME NEW u \in Viewers, viewer'[u].inRoom
               PROVE  /\ \A n \in (viewer'[u].since + 1)..writes :
                           \/ n <= viewer'[u].newest
                           \/ n \in unannounced
                           \/ \E w \in Writers : broadcast[w].at # "idle" /\ broadcast[w].write = n
                      /\ viewer'[u].shown # Unknown /\ viewer'[u].last = writes
                           => viewer'[u].shown = remainingQuantity
    BY <1>2 DEF ViewersAreCurrent
  <2>1. CASE u = v
    <3>1. viewer'[u].since = writes /\ viewer'[u].shown = Unknown
      BY <1>4, <1>5, <2>1
    <3>2. (writes + 1)..writes = {}
      BY <1>1
    <3>3. QED
      BY <3>1, <3>2
  <2>2. CASE u # v
    BY <1>5, <2>2 DEF ViewInv, ViewersAreCurrent
  <2>3. QED
    BY <2>1, <2>2
<1>9. QED
  BY <1>6, <1>7, <1>8 DEF ViewInv

\* A call of the lock that writes nothing goes forward through its phases.
LEMMA LockOnly ==
  ASSUME ViewInv, [Next]_vars, UNCHANGED availability
  PROVE  ViewInv'
<1>1. UNCHANGED <<remainingQuantity, writes, hold, broadcast, viewer, unannounced>>
  BY DEF availability, seen
<1>2. phase \in [Callers -> Phases]
  BY DEF ViewInv, Counters
<1>3. /\ phase' \in [Callers -> Phases]
      /\ \A c \in Callers : phase'[c] \in {"trying", "inside"} => phase[c] \in {"trying", "inside"}
  <2>1. CASE UNCHANGED phase
    BY <1>2, <2>1
  <2>2. ASSUME NEW c \in Callers,
               \/ phase[c] = "trying" /\ phase' = [phase EXCEPT ![c] = "inside"]
               \/ phase' = [phase EXCEPT ![c] = "releasing"]
               \/ phase' = [phase EXCEPT ![c] = "ended"]
        PROVE  /\ phase' \in [Callers -> Phases]
               /\ \A d \in Callers : phase'[d] \in {"trying", "inside"}
                                     => phase[d] \in {"trying", "inside"}
    BY <1>2, <2>2 DEF Phases
  <2>3. QED
    BY <2>1, <2>2 DEF Next, vars, CallStep, CallFails, Acquire, AcquireUnanswered, Retry,
       GiveUp, Leave, Release, Abandon, KeyExpires, Goto
<1>4. Counters' /\ OneBroadcastEach'
  BY <1>1, <1>3 DEF ViewInv, Counters, OneBroadcastEach
<1>5. ReadAfterWrite' /\ NothingInvented' /\ ViewersAreCurrent'
  BY <1>1 DEF ViewInv, ReadAfterWrite, NothingInvented, ViewersAreCurrent
<1>6. QED
  BY <1>4, <1>5 DEF ViewInv

\* No viewer has missed anything before the first write.
LEMMA ViewInvInit == AvailabilityInit => ViewInv
<1> SUFFICES ASSUME AvailabilityInit PROVE ViewInv
  OBVIOUS
<1>1. Silent \in Broadcasts /\ Silent.at = "idle"
  BY DEF Silent, Broadcasts
<1>2. Away \in Views /\ Away.newest = 0 /\ Away.last = 0 /\ Away.inRoom = FALSE
  BY DEF Away, Views
<1>3. Counters
  BY SeatsAssumption, <1>1, <1>2 DEF AvailabilityInit, Init, Counters, Phases
<1>4. OneBroadcastEach
  BY <1>1 DEF AvailabilityInit, OneBroadcastEach, Writers
<1>5. ReadAfterWrite
  BY <1>1 DEF AvailabilityInit, ReadAfterWrite
<1>6. NothingInvented
  BY <1>2 DEF AvailabilityInit, NothingInvented
<1>7. ViewersAreCurrent
  BY <1>2 DEF AvailabilityInit, ViewersAreCurrent
<1>8. QED
  BY <1>3, <1>4, <1>5, <1>6, <1>7 DEF ViewInv

\* Every step keeps the viewers accounted for.
LEMMA ViewInvStep == ViewInv /\ [AvailabilityNext]_availabilityVars => ViewInv'
<1> SUFFICES ASSUME ViewInv, [AvailabilityNext]_availabilityVars
             PROVE  ViewInv'
  OBVIOUS
<1>1. [Next]_vars
  BY LockOfAvailability
<1>2. CASE UNCHANGED availability
  BY <1>1, <1>2, LockOnly
<1>3. QED
  BY <1>2, HoldStep, BroadcastStep, RoomStep
     DEF AvailabilityNext, availabilityVars, CreateStep, LeaveWithout

\* For any number of viewers, seats and reservations: whoever stays on the page
\* is told of every write that is announced, by a message at least as new, and a
\* message that tells of the last write has the right number.
THEOREM ViewersStayCurrent == AvailabilitySpec => []ViewersAreCurrent
<1>1. ViewInv => ViewersAreCurrent
  BY DEF ViewInv
<1>2. QED
  BY <1>1, ViewInvInit, ViewInvStep, PTL DEF AvailabilitySpec

-----------------------------------------------------------------------------
(* The bounds: seats and writes are counted by the holds.                  *)

\* The calls whose hold is in one of these states.
InState(S) == {c \in Callers : hold[c] \in S}

\* A hold has one seat and one write, its end another write.
HoldsCounted ==
    /\ remainingQuantity + Cardinality(InState({"held"})) = Seats
    /\ writes = Cardinality(InState({"held", "ended"})) + Cardinality(InState({"ended"}))

\* Numbers of writes are of writes that were made, numbers of seats within Seats.
NumbersBounded ==
    /\ \A w \in Writers :
         /\ broadcast[w].at # "idle" => broadcast[w].write >= 1
         /\ broadcast[w].write <= writes
         /\ broadcast[w].asOf <= writes
         /\ broadcast[w].value <= Seats
    /\ \A v \in Viewers :
         /\ viewer[v].since <= writes
         /\ viewer[v].shown # Unknown => viewer[v].shown <= Seats
    /\ unannounced \subseteq 1..writes

BoundInv == HoldsCounted /\ NumbersBounded

\* The counts are counts of finite sets.
LEMMA StateSize ==
  ASSUME NEW S
  PROVE  /\ IsFiniteSet(InState(S))
         /\ Cardinality(InState(S)) \in Nat
         /\ Cardinality(InState(S)) <= Cardinality(Callers)
         /\ Cardinality(Callers) \in Nat
  BY CallersAssumption, FS_Subset, FS_CardinalityType DEF InState

\* Nothing is held or written to begin with.
LEMMA BoundInit == AvailabilityInit => BoundInv
<1> SUFFICES ASSUME AvailabilityInit  PROVE BoundInv
  OBVIOUS
<1> USE DEF AvailabilityInit, Silent, Away
<1>1. InState({"held"}) = {} /\ InState({"held", "ended"}) = {} /\ InState({"ended"}) = {}
  BY DEF InState
<1>2. HoldsCounted
  BY <1>1, FS_EmptySet, SeatsAssumption DEF HoldsCounted
<1>3. NumbersBounded
  BY SeatsAssumption DEF NumbersBounded
<1>4. QED
  BY <1>2, <1>3 DEF BoundInv

\* The counter goes down with a new hold and up with the end of one.
LEMMA HoldsStep ==
  ASSUME Counters, HoldsCounted, NEW c \in Callers, writes' = writes + 1,
         \/ /\ hold[c] = "none" /\ hold' = [hold EXCEPT ![c] = "held"]
            /\ remainingQuantity' = remainingQuantity - 1
         \/ /\ hold[c] = "held" /\ hold' = [hold EXCEPT ![c] = "ended"]
            /\ remainingQuantity' = remainingQuantity + 1
  PROVE  HoldsCounted'
<1>1. hold \in [Callers -> {"none", "held", "ended"}]
  BY DEF Counters
<1>2. remainingQuantity \in Nat /\ writes \in Nat
  BY DEF Counters
<1> DEFINE Held == InState({"held"})
           Made == InState({"held", "ended"})
           Over == InState({"ended"})
<1>3. /\ IsFiniteSet(Held) /\ Cardinality(Held) \in Nat
      /\ IsFiniteSet(Made) /\ Cardinality(Made) \in Nat
      /\ IsFiniteSet(Over) /\ Cardinality(Over) \in Nat
  BY StateSize
<1>4. CASE hold[c] = "none" /\ hold' = [hold EXCEPT ![c] = "held"]
           /\ remainingQuantity' = remainingQuantity - 1
  <2>1. /\ Held' = Held \cup {c} /\ Made' = Made \cup {c} /\ Over' = Over
        /\ c \notin Held /\ c \notin Made
    BY <1>1, <1>4 DEF InState
  <2>2. /\ Cardinality(Held') = Cardinality(Held) + 1
        /\ Cardinality(Made') = Cardinality(Made) + 1
    BY <1>3, <2>1, FS_AddElement
  <2>3. QED
    BY <1>2, <1>3, <1>4, <2>1, <2>2 DEF HoldsCounted
<1>5. CASE hold[c] = "held" /\ hold' = [hold EXCEPT ![c] = "ended"]
           /\ remainingQuantity' = remainingQuantity + 1
  <2>1. /\ Held' = Held \ {c} /\ Made' = Made /\ Over' = Over \cup {c}
        /\ c \in Held /\ c \notin Over
    BY <1>1, <1>5 DEF InState
  <2>2. Cardinality(Held') = Cardinality(Held) - 1
    BY <1>3, <2>1, FS_RemoveElement
  <2>3. Cardinality(Over') = Cardinality(Over) + 1
    BY <1>3, <2>1, FS_AddElement
  <2>4. QED
    BY <1>2, <1>3, <1>5, <2>1, <2>2, <2>3 DEF HoldsCounted
<1>6. QED
  BY <1>4, <1>5

\* A write leaves every number within the larger number of writes.
LEMMA WriteBounded ==
  ASSUME ViewInv, NumbersBounded, writes' = writes + 1, UNCHANGED viewer, NEW w \in Writers,
         \/ BroadcastNext(w) /\ UNCHANGED unannounced
         \/ UNCHANGED broadcast /\ unannounced' = unannounced \cup {writes'}
  PROVE  NumbersBounded'
<1>1. /\ broadcast \in [Writers -> Broadcasts] /\ viewer \in [Viewers -> Views]
      /\ writes \in Nat
  BY DEF ViewInv, Counters
<1>2. ASSUME NEW u \in Writers
      PROVE  /\ broadcast'[u].at # "idle" => broadcast'[u].write >= 1
             /\ broadcast'[u].write <= writes + 1
             /\ broadcast'[u].asOf <= writes + 1
             /\ broadcast'[u].value <= Seats
  <2>0. /\ broadcast[u].at # "idle" => broadcast[u].write >= 1
        /\ broadcast[u].write <= writes + 1
        /\ broadcast[u].asOf <= writes + 1
        /\ broadcast[u].value <= Seats
    BY <1>1 DEF NumbersBounded, Broadcasts
  <2>1. CASE broadcast'[u] = broadcast[u]
    BY <2>0, <2>1
  <2>2. CASE u = w /\ BroadcastNext(w)
    <3>1. broadcast'[u] = [Silent EXCEPT !.at = "query", !.write = writes + 1]
      BY <1>1, <2>2 DEF BroadcastNext
    <3>2. QED
      BY <1>1, <3>1, SeatsAssumption DEF Silent
  <2>3. QED
    BY <1>1, <2>1, <2>2 DEF BroadcastNext
<1>3. ASSUME NEW v \in Viewers
      PROVE  viewer[v].since <= writes + 1 /\ (viewer[v].shown # Unknown => viewer[v].shown <= Seats)
  BY <1>1 DEF NumbersBounded, Views
<1>4. unannounced' \subseteq 1..(writes + 1)
  <2>1. 1..writes \subseteq 1..(writes + 1) /\ writes + 1 \in 1..(writes + 1)
    BY <1>1
  <2>2. unannounced \subseteq 1..writes
    BY DEF NumbersBounded
  <2>3. unannounced' \subseteq unannounced \cup {writes + 1}
    OBVIOUS
  <2>4. QED
    BY <2>1, <2>2, <2>3
<1>5. QED
  BY <1>2, <1>3, <1>4 DEF NumbersBounded

\* A broadcast reads a number of seats that there are, and tells it.
LEMMA BroadcastBounded ==
  ASSUME ViewInv, BoundInv, NEW w \in Writers, QueryCounter(w) \/ Emit(w) \/ BroadcastFails(w)
  PROVE  BoundInv'
<1>1. /\ broadcast \in [Writers -> Broadcasts] /\ viewer \in [Viewers -> Views]
      /\ writes \in Nat /\ remainingQuantity \in Nat
      /\ broadcast[w] \in Broadcasts
  BY DEF ViewInv, Counters
<1>2. UNCHANGED <<remainingQuantity, writes, hold>> /\ broadcast[w].at # "idle"
  BY DEF QueryCounter, Emit, BroadcastFails
<1>3. HoldsCounted'
  BY <1>2 DEF BoundInv, HoldsCounted, InState
<1>4. remainingQuantity <= Seats
  BY <1>1, StateSize, SeatsAssumption DEF BoundInv, HoldsCounted
<1>5. ASSUME NEW u \in Writers
      PROVE  /\ broadcast'[u].at # "idle" => broadcast'[u].write >= 1
             /\ broadcast'[u].write <= writes
             /\ broadcast'[u].asOf <= writes
             /\ broadcast'[u].value <= Seats
  <2>1. CASE broadcast'[u] = broadcast[u]
    BY <2>1 DEF BoundInv, NumbersBounded
  <2>2. CASE u = w /\ QueryCounter(w)
    <3>1. /\ broadcast'[w].write = broadcast[w].write
          /\ broadcast'[w].asOf = writes
          /\ broadcast'[w].value = remainingQuantity
      BY <1>1, <2>2 DEF QueryCounter, Broadcasts
    <3>2. QED
      BY <1>1, <1>2, <1>4, <2>2, <3>1 DEF BoundInv, NumbersBounded
  <2>3. CASE broadcast'[u] = Silent
    BY <1>1, <2>3, SeatsAssumption DEF Silent
  <2>4. QED
    BY <1>1, <2>1, <2>2, <2>3 DEF QueryCounter, Emit, BroadcastFails
<1>6. ASSUME NEW v \in Viewers
      PROVE  /\ viewer'[v].since <= writes
             /\ viewer'[v].shown # Unknown => viewer'[v].shown <= Seats
  <2>0. viewer[v].since <= writes /\ (viewer[v].shown # Unknown => viewer[v].shown <= Seats)
    BY DEF BoundInv, NumbersBounded
  <2>1. CASE viewer'[v] = viewer[v]
    BY <2>0, <2>1
  <2>2. CASE Emit(w) /\ viewer'[v] = Told(v, w)
    <3>1. Told(v, w).since = viewer[v].since /\ Told(v, w).shown = broadcast[w].value
      BY <1>1 DEF Told, Views
    <3>2. QED
      BY <2>0, <2>2, <3>1 DEF BoundInv, NumbersBounded
  <2>3. QED
    BY <2>1, <2>2 DEF QueryCounter, Emit, BroadcastFails
<1>7. unannounced' \subseteq 1..writes
  <2>1. broadcast[w].write \in 1..writes
    BY <1>1, <1>2 DEF BoundInv, NumbersBounded, Broadcasts
  <2>2. QED
    BY <2>1 DEF BoundInv, NumbersBounded, QueryCounter, Emit, BroadcastFails
<1>8. QED
  BY <1>2, <1>3, <1>5, <1>6, <1>7 DEF BoundInv, NumbersBounded

\* Every step keeps the numbers within their bounds.
LEMMA BoundStep ==
  ASSUME ViewInv, BoundInv, [AvailabilityNext]_availabilityVars
  PROVE  BoundInv'
<1>1. CASE UNCHANGED availability
  BY <1>1 DEF availability, seen, BoundInv, HoldsCounted, InState, NumbersBounded
<1>2. ASSUME NEW c \in Callers, LeaveWithHold(c)
      PROVE  BoundInv'
  <2>1. hold[c] = "none" /\ Counters
    BY <1>2 DEF LeaveWithHold, Leave, ViewInv, OneBroadcastEach
  <2>2. HoldsCounted'
    BY <1>2, <2>1, HoldsStep DEF LeaveWithHold, BoundInv
  <2>3. NumbersBounded'
    BY <1>2, WriteBounded DEF LeaveWithHold, BoundInv, Writers
  <2>4. QED
    BY <2>2, <2>3 DEF BoundInv
<1>3. ASSUME NEW c \in Callers, EndHold(c) \/ EndHoldSilently(c)
      PROVE  BoundInv'
  <2>1. HoldsCounted'
    BY <1>3, HoldsStep DEF EndHold, EndHoldSilently, BoundInv, ViewInv
  <2>2. NumbersBounded'
    BY <1>3, WriteBounded DEF EndHold, EndHoldSilently, BoundInv, Writers
  <2>3. QED
    BY <2>1, <2>2 DEF BoundInv
<1>4. ASSUME NEW v \in Viewers, JoinEventRoom(v) \/ LeaveEventRoom(v)
      PROVE  BoundInv'
  <2>1. /\ viewer \in [Viewers -> Views] /\ writes \in Nat
        /\ UNCHANGED <<remainingQuantity, writes, hold, broadcast, unannounced>>
    BY <1>4 DEF ViewInv, Counters, JoinEventRoom, LeaveEventRoom
  <2>2. ASSUME NEW u \in Viewers
        PROVE  /\ viewer'[u].since <= writes
               /\ viewer'[u].shown # Unknown => viewer'[u].shown <= Seats
    <3>1. CASE viewer'[u] = viewer[u]
      BY <3>1 DEF BoundInv, NumbersBounded
    <3>2. CASE viewer'[u] = Away
      BY <2>1, <3>2 DEF Away
    <3>3. CASE viewer'[u] = [Away EXCEPT !.inRoom = TRUE, !.since = writes]
      <4>1. \A n \in Nat : /\ [Away EXCEPT !.inRoom = TRUE, !.since = n].since = n
                          /\ [Away EXCEPT !.inRoom = TRUE, !.since = n].shown = Unknown
        BY DEF Away
      <4>2. viewer'[u].since = writes /\ viewer'[u].shown = Unknown
        BY <2>1, <3>3, <4>1, Zenon
      <4>3. QED
        BY <2>1, <4>2
    <3>4. QED
      BY <1>4, <2>1, <3>1, <3>2, <3>3 DEF JoinEventRoom, LeaveEventRoom
  <2>3. QED
    BY <2>1, <2>2 DEF BoundInv, HoldsCounted, InState, NumbersBounded
<1>5. QED
  BY <1>1, <1>2, <1>3, <1>4, BroadcastBounded
     DEF AvailabilityNext, availabilityVars, CreateStep, LeaveWithout

\* For any finite number of calls: the counter stays between 0 and Seats, no
\* message carries a number outside those bounds, and there are at most two
\* writes for a call.
THEOREM AvailabilityTypeCorrect == AvailabilitySpec => []AvailabilityTypeOK
<1>1. LockTypeOK /\ ViewInv /\ BoundInv => AvailabilityTypeOK
  <2> SUFFICES ASSUME LockTypeOK, ViewInv, BoundInv  PROVE AvailabilityTypeOK
    OBVIOUS
  <2>1. /\ remainingQuantity \in Nat /\ writes \in Nat
        /\ hold \in [Callers -> {"none", "held", "ended"}]
        /\ broadcast \in [Writers -> Broadcasts]
        /\ viewer \in [Viewers -> Views]
    BY DEF ViewInv, Counters
  <2>2. remainingQuantity \in 0..Seats
    BY <2>1, StateSize, SeatsAssumption DEF BoundInv, HoldsCounted
  <2>3. writes \in 0..MaxWrites /\ MaxWrites \in Nat
    BY <2>1, StateSize DEF BoundInv, HoldsCounted, MaxWrites
  <2>4. ASSUME NEW w \in Writers
        PROVE  broadcast[w] \in [at: {"idle", "query", "emit"}, write: 0..MaxWrites,
                                 value: 0..Seats, asOf: 0..MaxWrites]
    <3>1. /\ broadcast[w].write <= writes /\ broadcast[w].asOf <= writes
          /\ broadcast[w].value <= Seats
      BY DEF BoundInv, NumbersBounded
    <3>2. broadcast[w] \in Broadcasts
      BY <2>1
    <3>3. /\ broadcast[w].write \in 0..MaxWrites /\ broadcast[w].asOf \in 0..MaxWrites
          /\ broadcast[w].value \in 0..Seats
      BY <2>3, <3>1, <3>2, SeatsAssumption DEF Broadcasts
    <3>4. QED
      BY <3>2, <3>3 DEF Broadcasts
  <2>5. ASSUME NEW v \in Viewers
        PROVE  viewer[v] \in [inRoom: BOOLEAN, since: 0..MaxWrites,
                              newest: 0..MaxWrites, last: 0..MaxWrites,
                              shown: (0..Seats) \cup {Unknown}]
    <3>1. /\ viewer[v].since <= writes /\ viewer[v].newest <= writes
          /\ viewer[v].last <= writes
          /\ viewer[v].shown # Unknown => viewer[v].shown <= Seats
      BY DEF BoundInv, NumbersBounded, ViewInv, NothingInvented
    <3>2. viewer[v] \in Views
      BY <2>1
    <3>3. /\ viewer[v].since \in 0..MaxWrites /\ viewer[v].newest \in 0..MaxWrites
          /\ viewer[v].last \in 0..MaxWrites
          /\ viewer[v].shown \in (0..Seats) \cup {Unknown}
      BY <2>3, <3>1, <3>2, SeatsAssumption DEF Views
    <3>4. QED
      BY <3>2, <3>3 DEF Views
  <2>6. unannounced \subseteq 1..MaxWrites
    BY <2>1, <2>3 DEF BoundInv, NumbersBounded
  <2>7. QED
    BY <2>1, <2>2, <2>3, <2>4, <2>5, <2>6 DEF AvailabilityTypeOK
<1>2. AvailabilitySpec => []ViewInv
  BY ViewInvInit, ViewInvStep, PTL DEF AvailabilitySpec
<1>3. QED
  BY <1>1, <1>2, BoundInit, BoundStep, LockHeldByCreate, PTL DEF AvailabilitySpec
=============================================================================
