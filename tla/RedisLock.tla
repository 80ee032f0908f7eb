------------------------------ MODULE RedisLock ------------------------------
(***************************************************************************)
(* RedisLockService.withLock for one lock key.  Each element of Callers is *)
(* one call of withLock, and stands for the random token of that call as   *)
(* well.  The critical section fn is left open: it is what the caller runs *)
(* between the acquisition and the release.  Time is not modelled; the key *)
(* may expire at any moment after it was set, also while fn is running,    *)
(* because nothing renews it and fn is not bounded by the TTL.             *)
(***************************************************************************)
EXTENDS Naturals

CONSTANTS Callers, MaxRetries, NoToken

ASSUME MaxRetriesAssumption == MaxRetries \in Nat \ {0}
ASSUME NoTokenAssumption == NoToken \notin Callers

VARIABLES
    key,        \* the value of the lock key in Redis
    phase,      \* where each call of withLock is
    attempts,   \* the loop counter of acquireWithRetry
    overrun     \* history: the calls whose key expired while fn was running

vars == <<key, phase, attempts, overrun>>

Phases == {"trying", "inside", "releasing", "ended"}

LockTypeOK ==
    /\ key \in Callers \cup {NoToken}
    /\ phase \in [Callers -> Phases]
    /\ attempts \in [Callers -> 0..MaxRetries]
    /\ overrun \subseteq Callers

Init ==
    /\ key = NoToken
    /\ phase = [c \in Callers |-> "trying"]
    /\ attempts = [c \in Callers |-> 0]
    /\ overrun = {}

Goto(c, p) == phase' = [phase EXCEPT ![c] = p]

\* SET key token PX ttl NX.
Acquire(c) ==
    /\ phase[c] = "trying"
    /\ attempts[c] < MaxRetries
    /\ key = NoToken
    /\ key' = c
    /\ Goto(c, "inside")
    /\ UNCHANGED <<attempts, overrun>>

\* The key is set but the answer is lost: the call throws before its try block,
\* and only the TTL will free the key.
AcquireUnanswered(c) ==
    /\ phase[c] = "trying"
    /\ attempts[c] < MaxRetries
    /\ key = NoToken
    /\ key' = c
    /\ Goto(c, "ended")
    /\ UNCHANGED <<attempts, overrun>>

\* The key is taken: sleep and try again.
Retry(c) ==
    /\ phase[c] = "trying"
    /\ attempts[c] < MaxRetries
    /\ key # NoToken
    /\ attempts' = [attempts EXCEPT ![c] = @ + 1]
    /\ UNCHANGED <<key, phase, overrun>>

\* Mutant: the caller is told one attempt too late.
GiveUpLate(c) ==
    /\ phase[c] = "trying"
    /\ attempts[c] > MaxRetries
    /\ Goto(c, "ended")
    /\ UNCHANGED <<key, attempts, overrun>>

GiveUp(c) ==
    /\ phase[c] = "trying"
    /\ attempts[c] = MaxRetries
    /\ Goto(c, "ended")
    /\ UNCHANGED <<key, attempts, overrun>>

\* fn returns or throws: the finally block releases either way.
Leave(c) ==
    /\ phase[c] = "inside"
    /\ Goto(c, "releasing")
    /\ UNCHANGED <<key, attempts, overrun>>

\* Mutant: DEL without comparing the token.
Delete(c) == NoToken

\* The Lua script: DEL only if the value is the caller's token.
CompareAndDelete(c) == IF key = c THEN NoToken ELSE key

Release(c) ==
    /\ phase[c] = "releasing"
    /\ key' = CompareAndDelete(c)
    /\ Goto(c, "ended")
    /\ UNCHANGED <<attempts, overrun>>

\* The script does not reach Redis (the error is logged and swallowed), or the
\* process dies: the call is over and the key is left to its TTL.
Abandon(c) ==
    /\ phase[c] \in {"trying", "inside", "releasing"}
    /\ Goto(c, "ended")
    /\ UNCHANGED <<key, attempts, overrun>>

KeyExpires ==
    /\ key # NoToken
    /\ key' = NoToken
    /\ overrun' = overrun \cup {c \in Callers : key = c /\ phase[c] = "inside"}
    /\ UNCHANGED <<phase, attempts>>

CallStep(c) ==
    \/ Acquire(c)
    \/ Retry(c)
    \/ GiveUp(c)
    \/ Leave(c)
    \/ Release(c)

CallFails(c) ==
    \/ AcquireUnanswered(c)
    \/ Abandon(c)

Next == (\E c \in Callers : CallStep(c) \/ CallFails(c)) \/ KeyExpires

Spec == Init /\ [][Next]_vars

\* Each call keeps running (its loop, its critical section and its release), and
\* a key that is set expires in the end.  Failures may happen but need not.
Fairness ==
    /\ \A c \in Callers : WF_vars(CallStep(c))
    /\ WF_vars(KeyExpires)

FairSpec == Spec /\ Fairness

-----------------------------------------------------------------------------
(* Properties. *)

\* While the TTL has not run out, the caller in its critical section owns the
\* key: in particular the late release of a call whose key expired does not
\* delete the key of the call that holds the lock now.
HolderKeepsKey ==
    \A c \in Callers : phase[c] = "inside" /\ c \notin overrun => key = c

\* Every call ends, with or without the lock and without relying on a failure,
\* and no key stays for ever, also when its holder is gone.
EveryCallEnds ==
    \A c \in Callers : /\ <>(phase[c] = "ended")
                       /\ key = c ~> key # c
=============================================================================
