------------------------------- MODULE Sessions -------------------------------
(***************************************************************************)
(* The sessions of one user: AuthService (register, login, refreshToken,   *)
(* logout, revokeAllUserTokens), UsersService.changePassword and the       *)
(* connection of a socket, AppGateway.handleConnection.                    *)
(*                                                                         *)
(* Every issue of tokens makes one row of refresh_tokens and one access    *)
(* token, and both have the same identity here.  Signatures and hashes are *)
(* library calls; a request that fails them changes nothing and is left    *)
(* out, so that a password is its number in the order of its changes.      *)
(* Refresh tokens outlive the access tokens by days: their expiry is not   *)
(* modelled.  Time counts in ticks, several of which make a second, because*)
(* the tokens and Redis count whole seconds.                               *)
(***************************************************************************)
EXTENDS Naturals, FiniteSets

CONSTANTS
    Tokens,         \* the ids of the tokens that may be issued
    Requests,       \* the HTTP requests that may be in flight at once
    Sockets,        \* the connections of the user to the gateway
    None,
    Ticks,          \* the ticks of a second
    Life,           \* JWT_EXPIRES_IN, in seconds
    MaxTime,        \* bound on the clock, in ticks
    MaxPassword     \* bound on the changes of the password

ASSUME SessionsAssumption ==
    /\ None \notin Tokens
    /\ Ticks \in Nat \ {0}
    /\ Life \in Nat \ {0}
    /\ MaxTime \in Nat
    /\ MaxPassword \in Nat

VARIABLES
    now,
    accounts,       \* the users with this email
    password,       \* the password the user's passwordHash belongs to
    session,        \* refresh_tokens, and the access token issued with the row
    denied,         \* when the entry revoked-access-token:<jti> expires
    request,        \* what each in-flight request awaits
    socket,         \* how far handleConnection is with each socket
    loggedOut,      \* history: the access tokens of completed logouts
    forked,         \* history: the logins of which a token was refreshed twice at once
    interrupted     \* history: a change of password failed before its last step

store == <<accounts, password, session, denied>>
history == <<loggedOut, forked, interrupted>>
sessionVars == <<now, store, request, socket, history>>

Waits == {"insertUser", "revokeOld", "insertToken", "revokeAll", "denyAccess",
          "writePassword", "revokeForPassword"}

\* login: the token a login began with; password: the one it was made with;
\* late: a request in flight at the revocation of a changed password made it.
NoSession == [status |-> "none", login |-> None, password |-> 0, late |-> FALSE, exp |-> 0]

Idle == [at |-> "idle", token |-> None, password |-> 0, late |-> FALSE]

\* revoked: the token had been logged out when its entry was looked up.
Away == [at |-> "away", token |-> None, revoked |-> FALSE]
InRoom == [Away EXCEPT !.at = "joined"]

SessionsTypeOK ==
    /\ now \in 0..MaxTime
    /\ accounts \in 0..1
    /\ password \in 0..MaxPassword
    /\ session \in [Tokens -> [status: {"none", "live", "revoked"},
                               login: Tokens \cup {None}, password: 0..MaxPassword,
                               late: BOOLEAN, exp: Nat]]
    /\ denied \in [Tokens -> Nat]
    /\ request \in [Requests -> [at: Waits \cup {"idle"}, token: Tokens \cup {None},
                                 password: 0..MaxPassword, late: BOOLEAN]]
    /\ socket \in [Sockets -> [at: {"away", "verified", "cleared", "joined"},
                               token: Tokens \cup {None}, revoked: BOOLEAN]]
    /\ loggedOut \subseteq Tokens
    /\ forked \subseteq Tokens
    /\ interrupted \in BOOLEAN

Init ==
    /\ now = 0
    /\ accounts = 0
    /\ password = 0
    /\ session = [k \in Tokens |-> NoSession]
    /\ denied = [k \in Tokens |-> 0]
    /\ request = [q \in Requests |-> Idle]
    /\ socket = [s \in Sockets |-> Away]
    /\ loggedOut = {}
    /\ forked = {}
    /\ interrupted = FALSE

-----------------------------------------------------------------------------

At(q, wait) == request[q].at = wait
Respond(q) == request' = [request EXCEPT ![q] = Idle]
Goto(q, wait) == request' = [request EXCEPT ![q].at = wait]
Await(q, wait, k) ==
    request' = [request EXCEPT ![q] = [Idle EXCEPT !.at = wait, !.token = k]]

Issued(k) == session[k].status # "none"
Live(k) == session[k].status = "live"

\* The clock of Date.now() and of Redis, in whole seconds.
Second == now \div Ticks

RevokeEach(S) ==
    session' = [k \in Tokens |-> IF k \in S /\ Live(k)
                                 THEN [session[k] EXCEPT !.status = "revoked"]
                                 ELSE session[k]]

-----------------------------------------------------------------------------
(* POST /auth/register and POST /auth/login. *)

BeginRegister(q) ==
    /\ At(q, "idle")
    /\ accounts = 0
    /\ Await(q, "insertUser", None)
    /\ UNCHANGED <<now, store, history, socket>>

\* Mutant: the email is not unique.
InsertAnyUser(q) ==
    /\ At(q, "insertUser")
    /\ accounts' = accounts + 1
    /\ Goto(q, "insertToken")
    /\ UNCHANGED <<now, password, session, denied, history, socket>>

\* The check made before is not relied on: the email is unique.
InsertUser(q) ==
    /\ At(q, "insertUser")
    /\ accounts = 0
    /\ accounts' = 1
    /\ Goto(q, "insertToken")
    /\ UNCHANGED <<now, password, session, denied, history, socket>>

\* The password is compared with the row as it was read.
BeginLogin(q) ==
    /\ At(q, "idle")
    /\ accounts = 1
    /\ request' = [request EXCEPT ![q] = [Idle EXCEPT !.at = "insertToken",
                                                      !.password = password]]
    /\ UNCHANGED <<now, store, history, socket>>

\* BuildTokenPayload, for a login or for the refresh of an old token.
InsertToken(q, k) ==
    LET old == request[q].token
    IN  /\ At(q, "insertToken")
        /\ ~Issued(k)
        /\ session' = [session EXCEPT
                         ![k] = [status |-> "live",
                                 login |-> IF old = None THEN k ELSE session[old].login,
                                 password |-> request[q].password,
                                 late |-> request[q].late,
                                 exp |-> Second + Life]]
        /\ Respond(q)
        /\ UNCHANGED <<now, accounts, password, denied, history, socket>>

-----------------------------------------------------------------------------
(* POST /auth/refresh. *)

\* A refresh of the same token has read it as live and not finished.
Overlaps(q, k) ==
    \E p \in Requests \ {q} : request[p].at \in {"revokeOld", "insertToken"}
                              /\ request[p].token = k

BeginRefresh(q, k) ==
    /\ At(q, "idle")
    /\ Live(k)
    /\ request' = [request EXCEPT ![q] = [at |-> "revokeOld", token |-> k,
                                          password |-> session[k].password,
                                          late |-> session[k].late]]
    /\ forked' = IF Overlaps(q, k) THEN forked \cup {session[k].login} ELSE forked
    /\ UNCHANGED <<now, store, loggedOut, interrupted, socket>>

\* Mutant: the old token is not revoked.
KeepOld(q) ==
    /\ At(q, "revokeOld")
    /\ Goto(q, "insertToken")
    /\ UNCHANGED <<now, store, history, socket>>

\* By id alone, whatever happened to the row since it was read.
RevokeOld(q) ==
    /\ At(q, "revokeOld")
    /\ RevokeEach({request[q].token})
    /\ Goto(q, "insertToken")
    /\ UNCHANGED <<now, accounts, password, denied, history, socket>>

\* A token that was revoked is used again.
BeginReuse(q, k) ==
    /\ At(q, "idle")
    /\ session[k].status = "revoked"
    /\ Await(q, "revokeAll", None)
    /\ UNCHANGED <<now, store, history, socket>>

RevokeAll(q) ==
    /\ At(q, "revokeAll")
    /\ RevokeEach(Tokens)
    /\ Respond(q)
    /\ UNCHANGED <<now, accounts, password, denied, history, socket>>

-----------------------------------------------------------------------------
(* POST /auth/logout. *)

\* a: the access token in the header x-access-token.
Logout(q, k, a) ==
    /\ At(q, "idle")
    /\ Issued(k)
    /\ Issued(a)
    /\ RevokeEach({k})
    /\ Await(q, "denyAccess", a)
    /\ UNCHANGED <<now, accounts, password, denied, history, socket>>

LogoutWithoutAccessToken(q, k) ==
    /\ At(q, "idle")
    /\ Live(k)
    /\ RevokeEach({k})
    /\ UNCHANGED <<now, accounts, password, denied, request, history, socket>>

\* Mutant: the seconds left are rounded down.
SecondsLeftDown(a) == session[a].exp - ((now + Ticks - 1) \div Ticks)

\* decoded.exp - Math.floor(Date.now() / 1000)
SecondsLeft(a) == session[a].exp - Second

\* The entry may be set later than its time to live was computed, and then it
\* only lasts longer.
DenyAccess(q) ==
    LET a == request[q].token
    IN  /\ At(q, "denyAccess")
        /\ denied' = IF session[a].exp > Second
                     THEN [denied EXCEPT ![a] = now + Ticks * SecondsLeft(a)] ELSE denied
        /\ loggedOut' = loggedOut \cup {a}
        /\ Respond(q)
        /\ UNCHANGED <<now, accounts, password, session, forked, interrupted, socket>>

-----------------------------------------------------------------------------
(* PATCH /users/me/password. *)

BeginChangePassword(q) ==
    /\ At(q, "idle")
    /\ accounts = 1
    /\ Await(q, "writePassword", None)
    /\ UNCHANGED <<now, store, history, socket>>

\* Mutant: the tokens are left as they are.
WritePasswordOnly(q) ==
    /\ At(q, "writePassword")
    /\ password < MaxPassword
    /\ password' = password + 1
    /\ Respond(q)
    /\ UNCHANGED <<now, accounts, session, denied, history, socket>>

\* By id alone; every new password is a different one.
WritePassword(q) ==
    /\ At(q, "writePassword")
    /\ password < MaxPassword
    /\ password' = password + 1
    /\ Goto(q, "revokeForPassword")
    /\ UNCHANGED <<now, accounts, session, denied, history, socket>>

RevokeForPassword(q) ==
    /\ At(q, "revokeForPassword")
    /\ RevokeEach(Tokens)
    /\ request' = [p \in Requests |->
                     IF p = q THEN Idle
                     ELSE IF request[p].at \in {"revokeOld", "insertToken"}
                          THEN [request[p] EXCEPT !.late = TRUE] ELSE request[p]]
    /\ UNCHANGED <<now, accounts, password, denied, history, socket>>

\* The database or Redis throws, or the process dies.
Fail(q) ==
    /\ ~At(q, "idle")
    /\ interrupted' = (interrupted \/ At(q, "revokeForPassword"))
    /\ Respond(q)
    /\ UNCHANGED <<now, store, loggedOut, forked, socket>>

-----------------------------------------------------------------------------
(* AppGateway.handleConnection: the token is verified, then the answer of    *)
(* Redis is awaited, and only then the socket joins.  WsJwtGuard makes the   *)
(* same two steps.                                                           *)

\* jwtService.verify accepts the access token.
Valid(k) == Issued(k) /\ Second < session[k].exp

\* The entry of the token is in Redis.
Denied(k) == now < denied[k]

Connect(s, k) ==
    /\ socket[s].at = "away"
    /\ Valid(k)
    /\ socket' = [socket EXCEPT ![s] = [Away EXCEPT !.at = "verified", !.token = k]]
    /\ UNCHANGED <<now, store, request, history>>

\* What Redis answers; the token is not verified again.
LookUp(s) ==
    LET k == socket[s].token
    IN  /\ socket[s].at = "verified"
        /\ socket' = [socket EXCEPT
                        ![s] = IF Denied(k) THEN Away
                               ELSE [at |-> "cleared", token |-> k,
                                     revoked |-> k \in loggedOut]]
        /\ UNCHANGED <<now, store, request, history>>

\* The gateway keeps the user's id, and forgets the token.
JoinUserRoom(s) ==
    /\ socket[s].at = "cleared"
    /\ socket' = [socket EXCEPT ![s] = InRoom]
    /\ UNCHANGED <<now, store, request, history>>

\* The client leaves, or Redis throws and the gateway drops the socket.
Disconnect(s) ==
    /\ socket[s].at # "away"
    /\ socket' = [socket EXCEPT ![s] = Away]
    /\ UNCHANGED <<now, store, request, history>>

-----------------------------------------------------------------------------

Tick ==
    /\ now < MaxTime
    /\ now' = now + 1
    /\ UNCHANGED <<store, request, socket, history>>

-----------------------------------------------------------------------------

RequestStep(q) ==
    \/ BeginRegister(q)
    \/ InsertUser(q)
    \/ BeginLogin(q)
    \/ RevokeOld(q)
    \/ RevokeAll(q)
    \/ DenyAccess(q)
    \/ BeginChangePassword(q)
    \/ WritePassword(q)
    \/ RevokeForPassword(q)
    \/ Fail(q)
    \/ \E k \in Tokens :
         \/ InsertToken(q, k)
         \/ BeginRefresh(q, k)
         \/ BeginReuse(q, k)
         \/ LogoutWithoutAccessToken(q, k)
         \/ \E a \in Tokens : Logout(q, k, a)

SocketStep(s) ==
    \/ LookUp(s)
    \/ JoinUserRoom(s)
    \/ Disconnect(s)
    \/ \E k \in Tokens : Connect(s, k)

Next ==
    \/ \E q \in Requests : RequestStep(q)
    \/ \E s \in Sockets : SocketStep(s)
    \/ Tick

Spec == Init /\ [][Next]_sessionVars

-----------------------------------------------------------------------------
(* Properties. *)

\* However often the tokens of a login are rotated, reused and revoked, at most
\* one of them is live - unless the same token was refreshed by two requests at
\* once, which read it one after the other before either revoked it.
OneLiveTokenPerLogin ==
    \A j, k \in Tokens :
      /\ Live(j) /\ Live(k) /\ j # k
      /\ session[j].login = session[k].login
      => session[k].login \in forked

\* Once a change of password is complete, no session made with an older one is
\* left, unless the change failed half-way or the session comes from a login or
\* a refresh that was itself in flight when the tokens were revoked.
PasswordChangeEndsSessions ==
    \A k \in Tokens :
      Live(k) /\ session[k].password < password
        => \/ session[k].late
           \/ interrupted
           \/ \E q \in Requests : At(q, "revokeForPassword")

\* A socket whose token was logged out before its entry was looked up passes
\* the lookup only when the token itself is over by then: it ran out after its
\* verification.  As long as the token is valid the entry of the logout is there,
\* though both count whole seconds from different moments.
LogoutReachesGateway ==
    \A s \in Sockets :
      socket[s].at = "cleared" /\ socket[s].revoked => ~Valid(socket[s].token)
=============================================================================
