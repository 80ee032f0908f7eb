SPECIFICATION Spec
CONSTANTS
    None = None
    Tokens = {k1, k2, k3}
    Requests = {q1, q2}
    Sockets = {s1}
    Ticks = 2
    Life = 1
    MaxTime = 3
    MaxPassword = 1
    MaxTimedTokens = 2
SYMMETRY MCSymmetry
CONSTRAINT TimedTokensBound
INVARIANTS SessionsTypeOK OneLiveTokenPerLogin PasswordChangeEndsSessions LogoutReachesGateway
CHECK_DEADLOCK FALSE
