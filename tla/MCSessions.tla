------------------------------ MODULE MCSessions ------------------------------
(* A small instance of Sessions for TLC. *)
EXTENDS Sessions, TLC

CONSTANT MaxTimedTokens

MCSymmetry == Permutations(Tokens) \cup Permutations(Requests) \cup Permutations(Sockets)

\* With more tokens than this the sessions are followed alone, within the first
\* second: a socket and the clock concern one token and its entry at a time.
TimedTokensBound ==
    \/ Cardinality({k \in Tokens : Issued(k)}) <= MaxTimedTokens
    \/ Second = 0 /\ \A s \in Sockets : socket[s] = Away
=============================================================================
