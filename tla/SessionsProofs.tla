---------------------------- MODULE SessionsProofs ----------------------------
(***************************************************************************)
(* Proofs about Sessions, for any number of tokens, requests, sockets and  *)
(* changes of the password, any life of a token and any precision of the   *)
(* clock.                                                                  *)
(***************************************************************************)
EXTENDS Sessions, TLAPS

USE DEF store, history

-----------------------------------------------------------------------------
(* The clock. *)

\* Ticks and whole seconds.
LEMMA SecondBounds ==
  ASSUME NEW t \in Nat, NEW T \in Nat \ {0}
  PROVE  /\ t \div T \in Nat
         /\ T * (t \div T) <= t
         /\ t < T * (t \div T) + T
  OBVIOUS

\* The clock of whole seconds does not go back.
LEMMA SecondGrows ==
  ASSUME NEW t \in Nat, NEW T \in Nat \ {0}
  PROVE  t \div T <= (t + 1) \div T
  OBVIOUS

\* A token that is valid has not reached its last tick.
LEMMA ValidityInTicks ==
  ASSUME NEW t \in Nat, NEW T \in Nat \ {0}, NEW exp \in Nat, t \div T < exp
  PROVE  t < T * exp
<1>1. PICK s \in Nat : s = t \div T
  BY SecondBounds
<1>2. t < T * s + T /\ s + 1 <= exp
  BY <1>1, SecondBounds
<1>3. PICK d \in Nat : exp = s + 1 + d
  BY <1>2
<1>4. T * exp = T * s + T + T * d /\ T * d \in Nat
  BY <1>3
<1>5. QED
  BY <1>2, <1>4

\* The seconds left, counted from a tick that is at or after a whole second,
\* reach to the end of the token's life.
LEMMA EntryOutlivesToken ==
  ASSUME NEW t \in Nat, NEW T \in Nat \ {0}, NEW exp \in Nat, t \div T < exp
  PROVE  /\ t + T * (exp - (t \div T)) \in Nat
         /\ T * exp <= t + T * (exp - (t \div T))
<1>1. PICK s \in Nat : s = t \div T
  BY SecondBounds
<1>2. T * s <= t /\ s < exp
  BY <1>1, SecondBounds
<1>3. PICK d \in Nat : exp = s + d
  BY <1>2
<1>4. T * exp = T * s + T * d /\ T * d \in Nat /\ exp - s = d
  BY <1>3
<1>5. QED
  BY <1>1, <1>2, <1>4

-----------------------------------------------------------------------------
(* Type correctness. *)

SessionRecords == [status: {"none", "live", "revoked"}, login: Tokens \cup {None},
                   password: 0..MaxPassword, late: BOOLEAN, exp: Nat]
RequestRecords == [at: Waits \cup {"idle"}, token: Tokens \cup {None},
                   password: 0..MaxPassword, late: BOOLEAN]

SocketRecords == [at: {"away", "verified", "cleared", "joined"},
                  token: Tokens \cup {None}, revoked: BOOLEAN]

\* A handler works on the tokens it has found, and nobody is logged in before
\* the user exists.
HandlersFit ==
  /\ \A k \in Tokens : Issued(k) => session[k].login \in Tokens /\ Issued(session[k].login)
  /\ \A q \in Requests :
       /\ At(q, "revokeOld") \/ At(q, "denyAccess") => request[q].token \in Tokens
       /\ request[q].token \in Tokens => Issued(request[q].token)
       /\ At(q, "insertUser") => request[q].password = 0 /\ request[q].token = None
  /\ accounts = 0 =>
       /\ password = 0
       /\ \A k \in Tokens : ~Issued(k)
       /\ \A q \in Requests : At(q, "idle") \/ At(q, "insertUser")

TypeInv == SessionsTypeOK /\ HandlersFit

\* The requests and the sockets are handled apart from each other.
LEMMA RequestsLeaveSockets ==
  ASSUME NEW q \in Requests, RequestStep(q)
  PROVE  UNCHANGED socket
  BY DEF RequestStep, BeginRegister, InsertUser, BeginLogin, RevokeOld, RevokeAll,
         DenyAccess, BeginChangePassword, WritePassword, RevokeForPassword, Fail,
         InsertToken, BeginRefresh, BeginReuse, LogoutWithoutAccessToken, Logout

\* What a step of a socket changes.
LEMMA SocketsLeaveRest ==
  ASSUME NEW s \in Sockets, SocketStep(s)
  PROVE  UNCHANGED <<now, store, request, history>>
  BY DEF SocketStep, Connect, LookUp, JoinUserRoom, Disconnect

\* What has been verified or looked up for a socket is one of the tokens.
LEMMA SocketTypes ==
  ASSUME SessionsTypeOK, NEW s \in Sockets, SocketStep(s)
  PROVE  socket' \in [Sockets -> SocketRecords]
<1>1. socket \in [Sockets -> SocketRecords]
  BY DEF SessionsTypeOK, SocketRecords
<1>2. Away \in SocketRecords /\ InRoom \in SocketRecords
  BY DEF Away, InRoom, SocketRecords
<1>3. ASSUME NEW k \in Tokens, Connect(s, k)  PROVE socket' \in [Sockets -> SocketRecords]
  <2>1. [Away EXCEPT !.at = "verified", !.token = k] \in SocketRecords
    BY DEF Away, SocketRecords
  <2>2. QED
    BY <1>1, <1>3, <2>1 DEF Connect
<1>4. CASE LookUp(s)
  <2> DEFINE k == socket[s].token
             rec == [at |-> "cleared", token |-> k, revoked |-> k \in loggedOut]
  <2>1. rec \in SocketRecords
    BY <1>1 DEF SocketRecords
  <2>2. socket' = [socket EXCEPT ![s] = IF Denied(k) THEN Away ELSE rec]
    BY <1>4 DEF LookUp
  <2> HIDE DEF rec
  <2>3. QED
    BY <1>1, <1>2, <2>1, <2>2
<1>5. CASE JoinUserRoom(s) \/ Disconnect(s)
  BY <1>1, <1>2, <1>5 DEF JoinUserRoom, Disconnect
<1>6. QED
  BY <1>3, <1>4, <1>5 DEF SocketStep

\* Revoking changes nothing but the status of live tokens.
LEMMA RevokeEachEffect ==
  ASSUME SessionsTypeOK, NEW S, RevokeEach(S)
  PROVE  /\ session' \in [Tokens -> SessionRecords]
         /\ \A k \in Tokens :
              /\ Issued(k)' <=> Issued(k)
              /\ Live(k)' <=> Live(k) /\ k \notin S
              /\ session'[k].login = session[k].login
              /\ session'[k].password = session[k].password
              /\ session'[k].late = session[k].late
              /\ session'[k].exp = session[k].exp
<1>1. session \in [Tokens -> SessionRecords]
  BY DEF SessionsTypeOK, SessionRecords
<1>2. ASSUME NEW k \in Tokens
      PROVE  /\ session'[k] \in SessionRecords
             /\ Issued(k)' <=> Issued(k)
             /\ Live(k)' <=> Live(k) /\ k \notin S
             /\ session'[k].login = session[k].login
             /\ session'[k].password = session[k].password
             /\ session'[k].late = session[k].late
             /\ session'[k].exp = session[k].exp
  <2>1. CASE k \in S /\ Live(k)
    <3>1. session'[k] = [session[k] EXCEPT !.status = "revoked"]
      BY <2>1 DEF RevokeEach
    <3>2. QED
      BY <1>1, <2>1, <3>1 DEF SessionRecords, Issued, Live
  <2>2. CASE ~(k \in S /\ Live(k))
    <3>1. session'[k] = session[k]
      BY <2>2 DEF RevokeEach
    <3>2. QED
      BY <1>1, <2>2, <3>1 DEF SessionRecords, Issued, Live
  <2>3. QED
    BY <2>1, <2>2
<1>3. session' = [k \in Tokens |-> session'[k]]
  BY DEF RevokeEach
<1>4. QED
  BY <1>2, <1>3

\* The token a login or a refresh inserts.
LEMMA InsertTokenEffect ==
  ASSUME TypeInv, NEW q \in Requests, NEW k \in Tokens, InsertToken(q, k)
  PROVE  /\ session' \in [Tokens -> SessionRecords]
         /\ ~Issued(k)
         /\ \A j \in Tokens \ {k} : session'[j] = session[j]
         /\ session'[k].status = "live"
         /\ request[q].token = None => session'[k].login = k
         /\ request[q].token # None => /\ request[q].token \in Tokens
                                       /\ request[q].token # k
                                       /\ session'[k].login = session[request[q].token].login
         /\ session'[k].password = request[q].password
         /\ session'[k].late = request[q].late
         /\ At(q, "insertToken")
         /\ request' = [request EXCEPT ![q] = Idle]
<1> DEFINE old == request[q].token
           rec == [status |-> "live",
                   login |-> IF old = None THEN k ELSE session[old].login,
                   password |-> request[q].password, late |-> request[q].late,
                   exp |-> Second + Life]
<1>1. /\ session \in [Tokens -> SessionRecords] /\ request[q] \in RequestRecords
      /\ now \in Nat
  BY DEF TypeInv, SessionsTypeOK, SessionRecords, RequestRecords
<1>2. session' = [session EXCEPT ![k] = rec] /\ ~Issued(k) /\ At(q, "insertToken")
      /\ request' = [request EXCEPT ![q] = Idle]
  BY DEF InsertToken, Respond
<1>3. old # None => old \in Tokens /\ old # k
  BY <1>1, <1>2 DEF TypeInv, HandlersFit, RequestRecords
<1>4. Second + Life \in Nat
  BY <1>1, SessionsAssumption, SecondBounds DEF Second
<1>5. rec.login \in Tokens \cup {None}
  BY <1>1, <1>3 DEF SessionRecords
<1>6. rec \in SessionRecords
  <2> HIDE DEF rec
  <2>1. rec = [status |-> "live", login |-> rec.login,
               password |-> request[q].password, late |-> request[q].late,
               exp |-> Second + Life]
    BY DEF rec
  <2>2. QED
    BY <1>1, <1>4, <1>5, <2>1 DEF SessionRecords, RequestRecords
<1>7. session'[k] = rec
  BY <1>1, <1>2
<1>8. rec.login = IF old = None THEN k ELSE session[old].login
  OBVIOUS
<1>9. rec.status = "live" /\ rec.password = request[q].password /\ rec.late = request[q].late
  OBVIOUS
<1> HIDE DEF rec
<1>10. session' \in [Tokens -> SessionRecords]
  BY <1>1, <1>2, <1>6
<1>11. \A j \in Tokens \ {k} : session'[j] = session[j]
  BY <1>1, <1>2
<1>12. QED
  BY <1>2, <1>3, <1>7, <1>8, <1>9, <1>10, <1>11

\* Nobody is registered, nothing is issued.
LEMMA TypeInit == Init => TypeInv
<1> SUFFICES ASSUME Init  PROVE TypeInv
  OBVIOUS
<1>1. SessionsTypeOK
  <2>1. session \in [Tokens -> SessionRecords]
    BY SessionsAssumption DEF Init, NoSession, SessionRecords
  <2>2. request \in [Requests -> RequestRecords]
    BY SessionsAssumption DEF Init, Idle, Waits, RequestRecords
  <2>3. /\ now \in 0..MaxTime /\ accounts \in 0..1 /\ password \in 0..MaxPassword
        /\ denied \in [Tokens -> Nat] /\ loggedOut \subseteq Tokens /\ forked \subseteq Tokens
    BY SessionsAssumption DEF Init
  <2>4. interrupted \in BOOLEAN /\ socket \in [Sockets -> SocketRecords]
    BY DEF Init, Away, SocketRecords
  <2>5. QED
    BY <2>1, <2>2, <2>3, <2>4 DEF SessionsTypeOK, SessionRecords, RequestRecords, SocketRecords
<1>2. HandlersFit
  <2>1. \A k \in Tokens : ~Issued(k)
    BY DEF Init, Issued, NoSession
  <2>2. \A q \in Requests : At(q, "idle") /\ request[q].token = None
    BY DEF Init, Idle, At
  <2>3. QED
    BY <2>1, <2>2, SessionsAssumption DEF Init, HandlersFit, At
<1>3. QED
  BY <1>1, <1>2 DEF TypeInv

\* What one request may have found and read.
Fits(q) ==
  /\ At(q, "revokeOld") \/ At(q, "denyAccess") => request[q].token \in Tokens
  /\ request[q].token \in Tokens => Issued(request[q].token)
  /\ At(q, "insertUser") => request[q].password = 0 /\ request[q].token = None
  /\ accounts = 0 => At(q, "idle") \/ At(q, "insertUser")

\* HandlersFit, one request at a time.
LEMMA FitsAll ==
  HandlersFit <=>
    /\ \A k \in Tokens : Issued(k) => session[k].login \in Tokens /\ Issued(session[k].login)
    /\ \A q \in Requests : Fits(q)
    /\ accounts = 0 => password = 0 /\ \A k \in Tokens : ~Issued(k)
  BY DEF HandlersFit, Fits

\* Rows that are only revoked stay issued, with their logins.
IssuedStay ==
  /\ \A k \in Tokens : Issued(k)' <=> Issued(k)
  /\ \A k \in Tokens : session'[k].login = session[k].login

\* What has to be shown of a request that goes on.
LEMMA OneRequest ==
  ASSUME TypeInv, NEW q \in Requests, NEW rec \in RequestRecords,
         request' = [request EXCEPT ![q] = rec], IssuedStay,
         accounts' \in 0..1, accounts' = 0 => accounts = 0 /\ password' = 0, Fits(q)'
  PROVE  HandlersFit' /\ request' \in [Requests -> RequestRecords] /\ request'[q] = rec
<1>1. request \in [Requests -> RequestRecords]
  BY DEF TypeInv, SessionsTypeOK, RequestRecords
<1>2. request'[q] = rec /\ \A p \in Requests \ {q} : request'[p] = request[p]
  BY <1>1
<1>3. \A p \in Requests : Fits(p)'
  <2> TAKE p \in Requests
  <2>1. CASE p # q
    <3>1. request'[p] = request[p] /\ Fits(p)
      BY <1>2, <2>1, FitsAll DEF TypeInv
    <3>2. QED
      BY <3>1 DEF Fits, At, IssuedStay
  <2>2. CASE p = q
    BY <2>2
  <2>3. QED
    BY <2>1, <2>2
<1>4. \A k \in Tokens : Issued(k)' => session'[k].login \in Tokens /\ Issued(session[k].login)'
  <2> TAKE k \in Tokens
  <2> HAVE Issued(k)'
  <2>1. session[k].login \in Tokens /\ Issued(session[k].login) /\ session'[k].login = session[k].login
    BY FitsAll DEF IssuedStay, TypeInv
  <2>2. Issued(session[k].login)'  <=> session'[session'[k].login].status # "none"
    BY DEF Issued
  <2>3. session'[session[k].login].status # "none"
    BY <2>1 DEF IssuedStay, Issued
  <2>4. QED
    BY <2>1, <2>2, <2>3
<1>5. HandlersFit'
  <2>1. accounts' = 0 => \A k \in Tokens : ~Issued(k)'
    BY DEF TypeInv, HandlersFit, IssuedStay
  <2>2. QED
    BY <1>3, <1>4, <2>1 DEF HandlersFit, Fits
<1>6. QED
  BY <1>1, <1>2, <1>5

\* A request that answers has nothing left to fit.
LEMMA Responds ==
  ASSUME TypeInv, NEW q \in Requests, Respond(q), IssuedStay, UNCHANGED <<accounts, password>>
  PROVE  HandlersFit' /\ request' \in [Requests -> RequestRecords]
<1>1. Idle \in RequestRecords
  BY SessionsAssumption DEF Idle, RequestRecords
<1>2. request' = [request EXCEPT ![q] = Idle]
  BY DEF Respond
<1>3. request'[q] = Idle
  BY <1>2 DEF TypeInv, SessionsTypeOK
<1>4. Fits(q)'
  BY <1>3, SessionsAssumption DEF Fits, At, Idle
<1>5. accounts \in 0..1 /\ (accounts = 0 => password = 0)
  BY DEF TypeInv, SessionsTypeOK, HandlersFit
<1>6. QED
  BY <1>1, <1>2, <1>4, <1>5, OneRequest

\* The next wait of a request keeps what the request has read.
LEMMA Goes ==
  ASSUME TypeInv, NEW q \in Requests, NEW wait \in Waits, Goto(q, wait)
  PROVE  /\ [request[q] EXCEPT !.at = wait] \in RequestRecords
         /\ request' = [request EXCEPT ![q] = [request[q] EXCEPT !.at = wait]]
         /\ request'[q].at = wait
         /\ request'[q].token = request[q].token
         /\ request'[q].password = request[q].password
         /\ request'[q].late = request[q].late
         /\ \A p \in Requests \ {q} : request'[p] = request[p]
<1>1. request \in [Requests -> RequestRecords]
  BY DEF TypeInv, SessionsTypeOK, RequestRecords
<1>2. request' = [request EXCEPT ![q] = [request[q] EXCEPT !.at = wait]]
  BY <1>1 DEF Goto, RequestRecords
<1>3. request[q] \in RequestRecords
  BY <1>1
<1>4. QED
  BY <1>1, <1>2, <1>3 DEF RequestRecords

\* The types, variable by variable.
LEMMA TypeParts ==
  SessionsTypeOK <=>
    /\ now \in 0..MaxTime /\ accounts \in 0..1 /\ password \in 0..MaxPassword
    /\ session \in [Tokens -> SessionRecords]
    /\ denied \in [Tokens -> Nat]
    /\ request \in [Requests -> RequestRecords]
    /\ socket \in [Sockets -> SocketRecords]
    /\ loggedOut \subseteq Tokens /\ forked \subseteq Tokens
    /\ interrupted \in BOOLEAN
  BY DEF SessionsTypeOK, SessionRecords, RequestRecords, SocketRecords

\* The same of the next state.
LEMMA NextParts ==
  ASSUME now' \in 0..MaxTime, accounts' \in 0..1, password' \in 0..MaxPassword,
         session' \in [Tokens -> SessionRecords], denied' \in [Tokens -> Nat],
         request' \in [Requests -> RequestRecords], socket' \in [Sockets -> SocketRecords],
         loggedOut' \subseteq Tokens, forked' \subseteq Tokens, interrupted' \in BOOLEAN,
         HandlersFit'
  PROVE  TypeInv'
  BY DEF TypeInv, SessionsTypeOK, SessionRecords, RequestRecords, SocketRecords

\* Every step keeps the types and leaves each handler with tokens that exist.
LEMMA TypeStep == TypeInv /\ [Next]_sessionVars => TypeInv'
<1> SUFFICES ASSUME TypeInv, [Next]_sessionVars  PROVE TypeInv'
  OBVIOUS
<1>0. /\ now \in 0..MaxTime /\ accounts \in 0..1 /\ password \in 0..MaxPassword
      /\ session \in [Tokens -> SessionRecords]
      /\ denied \in [Tokens -> Nat]
      /\ request \in [Requests -> RequestRecords]
      /\ socket \in [Sockets -> SocketRecords]
      /\ loggedOut \subseteq Tokens /\ forked \subseteq Tokens
      /\ interrupted \in BOOLEAN
      /\ HandlersFit /\ SessionsTypeOK
  BY TypeParts DEF TypeInv
<1>00. \A q \in Requests : Fits(q) /\ request[q] \in RequestRecords
  BY <1>0, FitsAll
<1>1. ASSUME NEW q \in Requests, RequestStep(q)  PROVE TypeInv'
  <2>0. socket' \in [Sockets -> SocketRecords]
    BY <1>0, <1>1, RequestsLeaveSockets
  <2> USE <2>0
  <2>1. ASSUME UNCHANGED session  PROVE IssuedStay
    BY <2>1 DEF IssuedStay, Issued
  <2>2. ASSUME NEW S, RevokeEach(S)  PROVE IssuedStay /\ session' \in [Tokens -> SessionRecords]
    BY <1>0, <2>2, RevokeEachEffect DEF IssuedStay
  <2>3. CASE BeginRegister(q) \/ BeginChangePassword(q)
    <3>1. PICK wait \in {"insertUser", "writePassword"} :
            /\ Await(q, wait, None) /\ UNCHANGED <<now, store, history>>
            /\ wait = "writePassword" => accounts # 0
      BY <2>3 DEF BeginRegister, BeginChangePassword
    <3> DEFINE rec == [Idle EXCEPT !.at = wait, !.token = None]
    <3>2. rec \in RequestRecords
      <4>1. wait \in Waits /\ 0 \in 0..MaxPassword
        BY SessionsAssumption DEF Waits
      <4>2. QED
        BY <4>1, SessionsAssumption DEF RequestRecords, Idle
    <3>3. request' = [request EXCEPT ![q] = rec] /\ request'[q] = rec
      BY <1>0, <3>1 DEF Await
    <3>4. Fits(q)'
      BY <3>1, <3>3, SessionsAssumption DEF Fits, At, Idle
    <3>5. QED
      BY <1>0, <2>1, <3>1, <3>2, <3>3, <3>4, OneRequest, NextParts DEF TypeInv, HandlersFit
  <2>4. CASE BeginLogin(q)
    <3> DEFINE rec == [Idle EXCEPT !.at = "insertToken", !.password = password]
    <3>1. accounts = 1 /\ request' = [request EXCEPT ![q] = rec] /\ UNCHANGED <<now, store, history>>
      BY <2>4 DEF BeginLogin
    <3>2. rec \in RequestRecords /\ rec.at = "insertToken" /\ rec.token = None
      BY <1>0 DEF Idle, RequestRecords, Waits
    <3> HIDE DEF rec
    <3>3. request'[q] = rec
      BY <1>0, <3>1
    <3>4. Fits(q)'
      BY <3>1, <3>2, <3>3, SessionsAssumption DEF Fits, At
    <3>5. QED
      BY <1>0, <2>1, <3>1, <3>2, <3>3, <3>4, OneRequest, NextParts DEF TypeInv, HandlersFit
  <2>5. CASE InsertUser(q)
    <3>1. /\ At(q, "insertUser") /\ accounts' = 1 /\ Goto(q, "insertToken")
          /\ UNCHANGED <<now, password, session, denied, history>>
      BY <2>5 DEF InsertUser
    <3> DEFINE rec == [request[q] EXCEPT !.at = "insertToken"]
    <3>2. /\ rec \in RequestRecords /\ request' = [request EXCEPT ![q] = rec]
          /\ request'[q].at = "insertToken" /\ request'[q].token = request[q].token
      BY <3>1, Goes DEF Waits
    <3> HIDE DEF rec
    <3>3. IssuedStay
      BY <2>1, <3>1
    <3>4. Fits(q)'
      BY <1>00, <3>1, <3>2, <3>3 DEF Fits, At, IssuedStay
    <3>5. HandlersFit' /\ request' \in [Requests -> RequestRecords]
      <4>1. accounts' \in 0..1 /\ accounts' # 0
        BY <3>1
      <4>2. QED
        BY <3>2, <3>3, <3>4, <4>1, OneRequest
    <3>6. QED
      BY <1>0, <3>1, <3>5, NextParts
  <2>6. CASE RevokeOld(q)
    <3>1. /\ At(q, "revokeOld") /\ RevokeEach({request[q].token}) /\ Goto(q, "insertToken")
          /\ UNCHANGED <<now, accounts, password, denied, history>>
      BY <2>6 DEF RevokeOld
    <3>2. Fits(q)'
      BY <1>00, <2>2, <3>1, Goes DEF Fits, At, Waits, IssuedStay
    <3>3. QED
      BY <1>0, <2>2, <3>1, <3>2, Goes, OneRequest, NextParts DEF TypeInv, Waits, HandlersFit
  <2>7. CASE RevokeAll(q)
    <3>1. /\ RevokeEach(Tokens) /\ Respond(q)
          /\ UNCHANGED <<now, accounts, password, denied, history>>
      BY <2>7 DEF RevokeAll
    <3>2. QED
      BY <1>0, <2>2, <3>1, Responds, NextParts DEF TypeInv
  <2>8. CASE DenyAccess(q)
    <3> DEFINE a == request[q].token
    <3>1. /\ At(q, "denyAccess") /\ Respond(q) /\ loggedOut' = loggedOut \cup {a}
          /\ denied' = IF session[a].exp > Second
                       THEN [denied EXCEPT ![a] = now + Ticks * SecondsLeft(a)] ELSE denied
          /\ UNCHANGED <<now, accounts, password, session, forked, interrupted>>
      BY <2>8 DEF DenyAccess
    <3>2. a \in Tokens
      BY <1>00, <3>1 DEF Fits
    <3>3. denied' \in [Tokens -> Nat]
      <4>1. session[a].exp \in Nat /\ now \in Nat
        BY <1>0, <3>2 DEF SessionRecords
      <4>2. Second \in Nat
        BY <4>1, SessionsAssumption, SecondBounds DEF Second
      <4>3. session[a].exp > Second => now + Ticks * SecondsLeft(a) \in Nat
        BY <4>1, <4>2, SessionsAssumption, EntryOutlivesToken DEF Second, SecondsLeft
      <4>4. QED
        BY <1>0, <3>1, <4>3
    <3>4. QED
      BY <1>0, <2>1, <3>1, <3>2, <3>3, Responds, NextParts DEF TypeInv
  <2>9. CASE WritePassword(q)
    <3>1. /\ At(q, "writePassword") /\ password < MaxPassword /\ password' = password + 1
          /\ Goto(q, "revokeForPassword") /\ UNCHANGED <<now, accounts, session, denied, history>>
      BY <2>9 DEF WritePassword
    <3>2. accounts # 0
      BY <1>00, <3>1 DEF Fits, At
    <3>3. Fits(q)'
      BY <1>00, <2>1, <3>1, <3>2, Goes DEF Fits, At, Waits, IssuedStay
    <3>4. password' \in 0..MaxPassword
      BY <1>0, <3>1, SessionsAssumption
    <3>5. QED
      BY <1>0, <2>1, <3>1, <3>2, <3>3, <3>4, Goes, OneRequest, NextParts DEF TypeInv, Waits
  <2>10. CASE RevokeForPassword(q)
    <3>1. /\ RevokeEach(Tokens) /\ UNCHANGED <<now, accounts, password, denied, history>>
          /\ request' = [p \in Requests |->
                           IF p = q THEN Idle
                           ELSE IF request[p].at \in {"revokeOld", "insertToken"}
                                THEN [request[p] EXCEPT !.late = TRUE] ELSE request[p]]
      BY <2>10 DEF RevokeForPassword
    <3>2. Idle \in RequestRecords
      BY SessionsAssumption DEF Idle, RequestRecords
    <3>3. ASSUME NEW p \in Requests
          PROVE  request'[p] \in RequestRecords /\ Fits(p)'
      <4>1. CASE p = q
        BY <3>1, <3>2, <4>1, SessionsAssumption DEF Fits, At, Idle
      <4>2. CASE p # q
        <5>1. /\ request'[p] \in RequestRecords /\ request'[p].at = request[p].at
              /\ request'[p].token = request[p].token
              /\ request'[p].password = request[p].password
          BY <1>0, <3>1, <4>2 DEF RequestRecords
        <5>2. QED
          BY <1>00, <2>2, <3>1, <5>1 DEF Fits, At, IssuedStay
      <4>3. QED
        BY <4>1, <4>2
    <3>4. request' = [p \in Requests |-> request'[p]]
      BY <3>1
    <3>5. request' \in [Requests -> RequestRecords]
      BY <3>3, <3>4
    <3>6. HandlersFit'
      <4>1. \A k \in Tokens : Issued(k)' => session'[k].login \in Tokens /\ Issued(session[k].login)'
        BY <1>0, <2>2, <3>1 DEF HandlersFit, IssuedStay, Issued
      <4>2. accounts' = 0 => \A k \in Tokens : ~Issued(k)'
        BY <1>0, <2>2, <3>1 DEF HandlersFit, IssuedStay
      <4>3. QED
        BY <1>0, <3>1, <3>3, <4>1, <4>2 DEF HandlersFit, Fits
    <3>7. QED
      BY <1>0, <2>2, <3>1, <3>5, <3>6, NextParts DEF TypeInv
  <2>11. CASE Fail(q)
    <3>1. /\ interrupted' = (interrupted \/ At(q, "revokeForPassword")) /\ Respond(q)
          /\ UNCHANGED <<now, store, loggedOut, forked>>
      BY <2>11 DEF Fail
    <3>2. interrupted' \in BOOLEAN
      BY <3>1
    <3>3. QED
      BY <1>0, <2>1, <3>1, <3>2, Responds, NextParts DEF TypeInv
  <2>12. ASSUME NEW k \in Tokens, InsertToken(q, k)  PROVE TypeInv'
    <3>1. UNCHANGED <<now, accounts, password, denied, history>>
      BY <2>12 DEF InsertToken
    <3>2. \A j \in Tokens : Issued(j) => Issued(j)' /\ session'[j] = session[j]
      BY <1>0, <2>12, InsertTokenEffect DEF Issued, TypeInv
    <3>3. \A j \in Tokens : Issued(j)' => session'[j].login \in Tokens /\ Issued(session[j].login)'
      <4> TAKE j \in Tokens
      <4> HAVE Issued(j)'
      <4>1. CASE j # k
        <5>1. session'[j] = session[j]
          BY <2>12, <4>1, InsertTokenEffect
        <5>2. session[j].login \in Tokens /\ Issued(session[j].login)
          BY <1>0, <5>1 DEF HandlersFit, Issued
        <5>3. QED
          BY <3>2, <5>1, <5>2 DEF Issued
      <4>2. CASE j = k /\ request[q].token = None
        BY <2>12, <4>2, InsertTokenEffect DEF Issued
      <4>3. CASE j = k /\ request[q].token # None
        <5> DEFINE old == request[q].token
        <5>1. old \in Tokens /\ session'[k].login = session[old].login
          BY <2>12, <4>3, InsertTokenEffect
        <5>2. session[old].login \in Tokens /\ Issued(session[old].login)
          BY <1>0, <1>00, <5>1 DEF HandlersFit, Fits
        <5>3. QED
          BY <3>2, <4>3, <5>1, <5>2 DEF Issued
      <4>4. QED
        BY <4>1, <4>2, <4>3
    <3>4. \A p \in Requests : request'[p] \in RequestRecords /\ Fits(p)'
      <4> TAKE p \in Requests
      <4>1. CASE p = q
        <5>1. request'[p] = Idle
          BY <1>0, <2>12, <4>1, InsertTokenEffect
        <5>2. QED
          BY <5>1, SessionsAssumption DEF Fits, At, Idle, RequestRecords
      <4>2. CASE p # q
        <5>1. request'[p] = request[p]
          BY <1>0, <2>12, <4>2, InsertTokenEffect
        <5>2. QED
          BY <1>00, <3>1, <3>2, <5>1 DEF Fits, At
      <4>3. QED
        BY <4>1, <4>2
    <3>5. HandlersFit'
      <4>1. accounts # 0
        BY <1>00, <2>12, InsertTokenEffect DEF Fits, At
      <4>2. QED
        BY <3>1, <3>3, <3>4, <4>1 DEF HandlersFit, Fits
    <3>6. request' \in [Requests -> RequestRecords]
      BY <1>0, <2>12, <3>4, InsertTokenEffect
    <3>7. session' \in [Tokens -> SessionRecords]
      BY <2>12, InsertTokenEffect
    <3>8. QED
      BY <1>0, <3>1, <3>5, <3>6, <3>7, NextParts DEF TypeInv
  <2>13. ASSUME NEW k \in Tokens, BeginRefresh(q, k)  PROVE TypeInv'
    <3> DEFINE rec == [at |-> "revokeOld", token |-> k, password |-> session[k].password,
                       late |-> session[k].late]
    <3>1. /\ Live(k) /\ request' = [request EXCEPT ![q] = rec]
          /\ forked' = (IF Overlaps(q, k) THEN forked \cup {session[k].login} ELSE forked)
          /\ UNCHANGED <<now, store, loggedOut, interrupted>>
      BY <2>13 DEF BeginRefresh
    <3>2. rec \in RequestRecords
      BY <1>0 DEF SessionRecords, RequestRecords, Waits
    <3>3. Issued(k) /\ accounts # 0
      BY <1>0, <3>1 DEF Live, Issued, HandlersFit
    <3>4. request'[q] = rec /\ IssuedStay
      BY <1>0, <2>1, <3>1
    <3>5. Fits(q)'
      BY <3>1, <3>3, <3>4, SessionsAssumption DEF Fits, At, IssuedStay
    <3>6. forked' \subseteq Tokens
      BY <1>0, <3>1, <3>3 DEF HandlersFit
    <3> HIDE DEF rec
    <3>7. HandlersFit' /\ request' \in [Requests -> RequestRecords]
      BY <1>0, <3>1, <3>2, <3>3, <3>4, <3>5, OneRequest
    <3>8. QED
      BY <1>0, <3>1, <3>6, <3>7, NextParts
  <2>14. ASSUME NEW wait \in {"revokeAll", "denyAccess"}, NEW a \in Tokens \cup {None},
                Await(q, wait, a), IssuedStay, accounts # 0, a = None => wait # "denyAccess",
                a # None => Issued(a), UNCHANGED <<accounts, password>>
         PROVE  HandlersFit' /\ request' \in [Requests -> RequestRecords]
    <3> DEFINE rec == [Idle EXCEPT !.at = wait, !.token = a]
    <3>1. rec \in RequestRecords
      <4>1. wait \in Waits /\ 0 \in 0..MaxPassword
        BY SessionsAssumption DEF Waits
      <4>2. QED
        BY <4>1, SessionsAssumption DEF RequestRecords, Idle
    <3>2. request' = [request EXCEPT ![q] = rec] /\ request'[q] = rec
      BY <1>0, <2>14 DEF Await
    <3>3. Fits(q)'
      <4>1. rec.at = wait /\ rec.token = a
        BY DEF Idle
      <4>2. request'[q].at = wait /\ request'[q].token = a /\ accounts' # 0
        BY <2>14, <3>2, <4>1
      <4>3. a \in Tokens => Issued(a)'
        BY <2>14, SessionsAssumption DEF IssuedStay
      <4>4. wait = "denyAccess" => a \in Tokens
        BY <2>14
      <4>5. QED
        BY <4>2, <4>3, <4>4 DEF Fits, At
    <3> HIDE DEF rec
    <3>4. QED
      BY <1>0, <2>14, <3>1, <3>2, <3>3, OneRequest
  <2>15. ASSUME NEW k \in Tokens, BeginReuse(q, k)  PROVE TypeInv'
    <3>1. Await(q, "revokeAll", None) /\ UNCHANGED <<now, store, history>> /\ Issued(k)
      BY <2>15 DEF BeginReuse, Issued
    <3>2. IssuedStay /\ accounts # 0
      BY <1>0, <2>1, <3>1 DEF HandlersFit
    <3>3. QED
      BY <1>0, <2>14, <3>1, <3>2, NextParts
  <2>16. ASSUME NEW k \in Tokens, NEW a \in Tokens, Logout(q, k, a)  PROVE TypeInv'
    <3>1. /\ RevokeEach({k}) /\ Await(q, "denyAccess", a) /\ Issued(a)
          /\ UNCHANGED <<now, accounts, password, denied, history>>
      BY <2>16 DEF Logout
    <3>2. IssuedStay /\ session' \in [Tokens -> SessionRecords] /\ accounts # 0 /\ a # None
      BY <1>0, <2>2, <3>1, SessionsAssumption DEF HandlersFit
    <3>3. QED
      BY <1>0, <2>14, <3>1, <3>2, NextParts
  <2>17. ASSUME NEW k \in Tokens, LogoutWithoutAccessToken(q, k)  PROVE TypeInv'
    <3>1. RevokeEach({k}) /\ UNCHANGED <<now, accounts, password, denied, request, history>>
      BY <2>17 DEF LogoutWithoutAccessToken
    <3>2. IssuedStay /\ session' \in [Tokens -> SessionRecords]
      BY <2>2, <3>1
    <3>3. HandlersFit'
      BY <1>0, <3>1, <3>2 DEF HandlersFit, IssuedStay, At, Issued
    <3>4. QED
      BY <1>0, <3>1, <3>2, <3>3, NextParts
  <2>18. QED
    BY <1>1, <2>3, <2>4, <2>5, <2>6, <2>7, <2>8, <2>9, <2>10, <2>11, <2>12, <2>13, <2>15,
       <2>16, <2>17 DEF RequestStep
<1>2. CASE (\E s \in Sockets : SocketStep(s)) \/ Tick \/ UNCHANGED sessionVars
  <2>1. UNCHANGED <<store, request, history>> /\ now' \in 0..MaxTime
    BY <1>0, <1>2, SocketsLeaveRest, SessionsAssumption DEF Tick, sessionVars
  <2>2. socket' \in [Sockets -> SocketRecords]
    BY <1>0, <1>2, SocketTypes DEF Tick, sessionVars
  <2>3. HandlersFit'
    BY <1>0, <2>1 DEF HandlersFit, At, Issued
  <2>4. QED
    BY <1>0, <2>1, <2>2, <2>3, NextParts
<1>3. QED
  BY <1>1, <1>2 DEF Next

\* The user, the password, the tokens and the requests keep their types.
THEOREM SessionsTypeCorrect == Spec => []SessionsTypeOK
<1>1. TypeInv => SessionsTypeOK
  BY DEF TypeInv
<1>2. QED
  BY <1>1, TypeInit, TypeStep, PTL DEF Spec

-----------------------------------------------------------------------------
(* Logout. *)

\* The entry of a logout lasts as long as the token, or the token is over.
LogoutInv ==
  \A k \in loggedOut :
    /\ Issued(k)
    /\ Ticks * session[k].exp <= denied[k] \/ session[k].exp <= Second

\* Nothing shortens an entry, and the clock only makes tokens end.
LEMMA LogoutStep == TypeInv /\ LogoutInv /\ [Next]_sessionVars => LogoutInv'
<1> SUFFICES ASSUME TypeInv, LogoutInv, [Next]_sessionVars  PROVE LogoutInv'
  OBVIOUS
<1>0. /\ now \in Nat /\ session \in [Tokens -> SessionRecords] /\ denied \in [Tokens -> Nat]
      /\ request \in [Requests -> RequestRecords] /\ loggedOut \subseteq Tokens
      /\ HandlersFit /\ SessionsTypeOK /\ Ticks \in Nat \ {0}
  BY SessionsAssumption, TypeParts DEF TypeInv
<1>1. ASSUME UNCHANGED <<now, denied, loggedOut>>,
             \A k \in Tokens : Issued(k) => Issued(k)' /\ session'[k].exp = session[k].exp
      PROVE  LogoutInv'
  BY <1>0, <1>1 DEF LogoutInv, Second
<1>2. ASSUME UNCHANGED <<now, denied, loggedOut, session>>  PROVE LogoutInv'
  BY <1>1, <1>2 DEF Issued
<1>3. ASSUME NEW S, RevokeEach(S), UNCHANGED <<now, denied, loggedOut>>  PROVE LogoutInv'
  BY <1>0, <1>1, <1>3, RevokeEachEffect
<1>4. ASSUME NEW q \in Requests, RequestStep(q)  PROVE LogoutInv'
  <2>1. CASE BeginRegister(q) \/ BeginLogin(q) \/ BeginChangePassword(q) \/ Fail(q)
             \/ InsertUser(q) \/ WritePassword(q)
             \/ \E k \in Tokens : BeginRefresh(q, k) \/ BeginReuse(q, k)
    BY <1>2, <2>1 DEF BeginRegister, BeginLogin, BeginChangePassword, Fail, InsertUser,
                      WritePassword, BeginRefresh, BeginReuse
  <2>2. CASE RevokeOld(q) \/ RevokeAll(q) \/ RevokeForPassword(q)
             \/ \E k \in Tokens : \/ LogoutWithoutAccessToken(q, k)
                                  \/ \E a \in Tokens : Logout(q, k, a)
    BY <1>3, <2>2 DEF RevokeOld, RevokeAll, RevokeForPassword, LogoutWithoutAccessToken, Logout
  <2>3. ASSUME NEW k \in Tokens, InsertToken(q, k)  PROVE LogoutInv'
    <3>1. UNCHANGED <<now, denied, loggedOut>>
      BY <2>3 DEF InsertToken
    <3>2. \A j \in Tokens : Issued(j) => Issued(j)' /\ session'[j].exp = session[j].exp
      BY <2>3, InsertTokenEffect DEF Issued
    <3>3. QED
      BY <1>1, <3>1, <3>2
  <2>4. CASE DenyAccess(q)
    <3> DEFINE a == request[q].token
    <3>1. /\ At(q, "denyAccess") /\ loggedOut' = loggedOut \cup {a}
          /\ denied' = IF session[a].exp > Second
                       THEN [denied EXCEPT ![a] = now + Ticks * SecondsLeft(a)] ELSE denied
          /\ UNCHANGED <<now, session>>
      BY <2>4 DEF DenyAccess
    <3>2. a \in Tokens /\ Issued(a)
      BY <1>0, <3>1 DEF HandlersFit
    <3>3. session[a].exp \in Nat /\ Second \in Nat
      BY <1>0, <3>2, SecondBounds DEF SessionRecords, Second
    <3>4. CASE session[a].exp > Second
      <4>1. Ticks * session[a].exp <= now + Ticks * SecondsLeft(a)
        BY <1>0, <3>3, <3>4, EntryOutlivesToken DEF Second, SecondsLeft
      <4>2. denied'[a] = now + Ticks * SecondsLeft(a)
            /\ \A k \in Tokens \ {a} : denied'[k] = denied[k]
        BY <1>0, <3>1, <3>2, <3>4
      <4>3. QED
        BY <1>0, <3>1, <3>2, <4>1, <4>2 DEF LogoutInv, Issued, Second
    <3>5. CASE session[a].exp <= Second
      BY <1>0, <3>1, <3>2, <3>3, <3>5 DEF LogoutInv, Issued, Second
    <3>6. QED
      BY <3>3, <3>4, <3>5
  <2>5. QED
    BY <1>4, <2>1, <2>2, <2>3, <2>4 DEF RequestStep
<1>5. CASE Tick
  <2>1. now' = now + 1 /\ UNCHANGED <<store, history>>
    BY <1>5 DEF Tick
  <2>2. Second <= Second' /\ Second \in Nat /\ Second' \in Nat
    BY <1>0, <2>1, SecondGrows, SecondBounds DEF Second
  <2>3. \A k \in Tokens : session[k].exp \in Nat
    BY <1>0 DEF SessionRecords
  <2>4. QED
    BY <1>0, <2>1, <2>2, <2>3 DEF LogoutInv, Issued
<1>6. CASE (\E s \in Sockets : SocketStep(s)) \/ UNCHANGED sessionVars
  BY <1>2, <1>6, SocketsLeaveRest DEF sessionVars
<1>7. QED
  BY <1>4, <1>5, <1>6 DEF Next

\* What is known of the token of a socket on its way in: it was issued, and if
\* its lookup came after its logout, then it is over.
Entering(s) ==
  /\ socket[s].at \in {"verified", "cleared"} => /\ socket[s].token \in Tokens
                                                 /\ Issued(socket[s].token)
  /\ socket[s].at = "cleared" /\ socket[s].revoked => session[socket[s].token].exp <= Second

SocketInv == \A s \in Sockets : Entering(s)

\* Redis finds no entry of a token that was logged out: the entry has come to
\* its end, and the token with it.
LEMMA NoEntryLeft ==
  ASSUME TypeInv, LogoutInv, NEW k \in loggedOut, ~Denied(k)
  PROVE  session[k].exp <= Second
<1> SUFFICES ASSUME ~(session[k].exp <= Second)  PROVE FALSE
  OBVIOUS
<1>1. /\ now \in Nat /\ session \in [Tokens -> SessionRecords] /\ denied \in [Tokens -> Nat]
      /\ k \in Tokens /\ Ticks \in Nat \ {0}
  BY SessionsAssumption, TypeParts DEF TypeInv
<1>2. session[k].exp \in Nat /\ denied[k] \in Nat /\ denied[k] <= now
  BY <1>1 DEF SessionRecords, Denied
<1>3. Second \in Nat /\ Second < session[k].exp
  BY <1>1, <1>2, SecondBounds DEF Second
<1>4. now < Ticks * session[k].exp /\ Ticks * session[k].exp \in Nat
  BY <1>1, <1>2, <1>3, ValidityInTicks DEF Second
<1>5. QED
  BY <1>1, <1>2, <1>4 DEF LogoutInv

\* The expiry of an issued token is fixed, and time does not go back.
LEMMA ExpiryIsFixed ==
  ASSUME TypeInv, [Next]_sessionVars
  PROVE  /\ Second \in Nat /\ Second' \in Nat /\ Second <= Second'
         /\ \A k \in Tokens : Issued(k) => /\ Issued(k)'
                                           /\ session[k].exp \in Nat
                                           /\ session'[k].exp = session[k].exp
<1>1. /\ now \in Nat /\ session \in [Tokens -> SessionRecords] /\ SessionsTypeOK
      /\ Ticks \in Nat \ {0}
  BY SessionsAssumption, TypeParts DEF TypeInv
<1>2. \A k \in Tokens : session[k].exp \in Nat
  BY <1>1 DEF SessionRecords
<1>3. ASSUME NEW q \in Requests, RequestStep(q)
      PROVE  UNCHANGED now /\ \A k \in Tokens : Issued(k) => /\ Issued(k)'
                                                             /\ session'[k].exp = session[k].exp
  <2>1. CASE UNCHANGED <<now, session>>
    BY <2>1 DEF Issued
  <2>2. ASSUME NEW S, RevokeEach(S), UNCHANGED now
        PROVE  UNCHANGED now /\ \A k \in Tokens : Issued(k) => /\ Issued(k)'
                                                               /\ session'[k].exp = session[k].exp
    BY <1>1, <2>2, RevokeEachEffect
  <2>3. ASSUME NEW j \in Tokens, InsertToken(q, j)
        PROVE  UNCHANGED now /\ \A k \in Tokens : Issued(k) => /\ Issued(k)'
                                                               /\ session'[k].exp = session[k].exp
    <3>1. UNCHANGED now
      BY <2>3 DEF InsertToken
    <3>2. QED
      BY <2>3, <3>1, InsertTokenEffect DEF Issued
  <2>4. \/ UNCHANGED <<now, session>>
        \/ \E S \in {{request[q].token}, Tokens} : RevokeEach(S) /\ UNCHANGED now
        \/ \E k \in Tokens : RevokeEach({k}) /\ UNCHANGED now
        \/ \E k \in Tokens : InsertToken(q, k)
    BY <1>3 DEF RequestStep, BeginRegister, InsertUser, BeginLogin, RevokeOld, RevokeAll,
                DenyAccess, BeginChangePassword, WritePassword, RevokeForPassword, Fail,
                BeginRefresh, BeginReuse, LogoutWithoutAccessToken, Logout
  <2>5. QED
    BY <2>1, <2>2, <2>3, <2>4
<1>4. CASE (\E s \in Sockets : SocketStep(s)) \/ Tick \/ UNCHANGED sessionVars
  <2>1. UNCHANGED session /\ (now' = now \/ now' = now + 1)
    BY <1>4, SocketsLeaveRest DEF Tick, sessionVars
  <2>2. QED
    BY <1>1, <1>2, <2>1, SecondGrows, SecondBounds DEF Second, Issued
<1>5. ASSUME UNCHANGED now  PROVE Second' \in Nat /\ Second' = Second
  BY <1>1, <1>5, SecondBounds DEF Second
<1>6. Second \in Nat
  BY <1>1, SecondBounds DEF Second
<1>7. QED
  BY <1>2, <1>3, <1>4, <1>5, <1>6 DEF Next

\* A socket enters through a verification and a lookup, and what they found
\* stays true while time passes.
LEMMA SocketInvStep == TypeInv /\ LogoutInv /\ SocketInv /\ [Next]_sessionVars => SocketInv'
<1> SUFFICES ASSUME TypeInv, LogoutInv, SocketInv, [Next]_sessionVars,
                    NEW s \in Sockets
             PROVE  Entering(s)'
  BY DEF SocketInv
<1>0. socket \in [Sockets -> SocketRecords] /\ Entering(s)
  BY TypeParts DEF TypeInv, SocketInv
<1>1. CASE socket'[s] = socket[s]
  BY <1>0, <1>1, ExpiryIsFixed DEF Entering
<1>2. CASE socket'[s] = Away \/ socket'[s] = InRoom
  BY <1>2 DEF Entering, Away, InRoom
<1>3. ASSUME NEW k \in Tokens, Connect(s, k)  PROVE Entering(s)'
  <2>1. socket'[s] = [Away EXCEPT !.at = "verified", !.token = k] /\ Issued(k)
    BY <1>0, <1>3 DEF Connect, Valid
  <2>2. socket'[s].at = "verified" /\ socket'[s].token = k
    BY <2>1 DEF Away
  <2>3. QED
    BY <2>1, <2>2, ExpiryIsFixed DEF Entering
<1>4. ASSUME LookUp(s), NEW k, k = socket[s].token, ~Denied(k)  PROVE Entering(s)'
  <2>1. socket[s].at = "verified" /\ UNCHANGED <<now, session>>
    BY <1>4 DEF LookUp
  <2>2. socket'[s] = [at |-> "cleared", token |-> k, revoked |-> k \in loggedOut]
    BY <1>0, <1>4 DEF LookUp
  <2>3. k \in Tokens /\ Issued(k)
    BY <1>0, <1>4, <2>1 DEF Entering
  <2>4. k \in loggedOut => session[k].exp <= Second
    BY <1>4, NoEntryLeft
  <2>5. socket'[s].at = "cleared" /\ socket'[s].token = k
    BY <2>2
  <2>6. socket'[s].revoked => k \in loggedOut
    <3>1. CASE k \in loggedOut
      BY <3>1
    <3>2. CASE k \notin loggedOut
      <4>1. (k \in loggedOut) = FALSE
        BY <3>2
      <4>2. socket'[s] = [at |-> "cleared", token |-> k, revoked |-> FALSE]
        BY <2>2, <4>1, Zenon
      <4>3. QED
        BY <4>2
    <3>3. QED
      BY <3>1, <3>2
  <2>7. session' = session /\ Second' = Second
    BY <2>1 DEF Second
  <2>8. QED
    BY <2>3, <2>4, <2>5, <2>6, <2>7 DEF Entering, Issued
<1>5. ASSUME NEW r \in Sockets \ {s}, SocketStep(r)  PROVE socket'[s] = socket[s]
  BY <1>0, <1>5 DEF SocketStep, Connect, LookUp, JoinUserRoom, Disconnect
<1>6. ASSUME SocketStep(s)
      PROVE  \/ socket'[s] = Away \/ socket'[s] = InRoom
             \/ \E k \in Tokens : Connect(s, k)
             \/ LookUp(s) /\ ~Denied(socket[s].token)
  BY <1>0, <1>6 DEF SocketStep, LookUp, JoinUserRoom, Disconnect
<1>7. ASSUME (\E q \in Requests : RequestStep(q)) \/ Tick \/ UNCHANGED sessionVars
      PROVE  socket'[s] = socket[s]
  BY <1>7, RequestsLeaveSockets DEF Tick, sessionVars
<1>8. QED
  BY <1>1, <1>2, <1>3, <1>4, <1>5, <1>6, <1>7 DEF Next

\* Whatever the clock's precision, the token's life and the time between the two
\* awaits of a connection: a lookup after the logout lets a socket pass only with
\* a token that is over.
THEOREM LoggedOutStaysOut == Spec => []LogoutReachesGateway
<1>1. Init => LogoutInv /\ SocketInv
  BY DEF Init, LogoutInv, SocketInv, Entering, Away
<1>2. TypeInv /\ SocketInv => LogoutReachesGateway
  <2> SUFFICES ASSUME TypeInv, SocketInv, NEW s \in Sockets,
                      socket[s].at = "cleared", socket[s].revoked
               PROVE  ~Valid(socket[s].token)
    BY DEF LogoutReachesGateway
  <2> DEFINE k == socket[s].token
  <2>1. k \in Tokens /\ session[k].exp <= Second
    BY DEF SocketInv, Entering
  <2>2. session[k].exp \in Nat /\ Second \in Nat
    <3>1. /\ now \in Nat /\ session \in [Tokens -> SessionRecords] /\ Ticks \in Nat \ {0}
      BY SessionsAssumption, TypeParts DEF TypeInv
    <3>2. QED
      BY <2>1, <3>1, SecondBounds DEF SessionRecords, Second
  <2>3. QED
    BY <2>1, <2>2 DEF Valid
<1>3. QED
  BY <1>1, <1>2, TypeInit, TypeStep, LogoutStep, SocketInvStep, PTL DEF Spec

-----------------------------------------------------------------------------
(* Rotation. *)

Rotating(q) ==
  \/ At(q, "revokeOld")
  \/ At(q, "insertToken") /\ request[q].token # None
LoginOf(q) == session[request[q].token].login

\* Of the tokens of a login that was never refreshed twice at once, one is live
\* or one request is about to insert the next one.
RotationInv ==
  /\ OneLiveTokenPerLogin
  /\ \A p, q \in Requests :
       Rotating(p) /\ Rotating(q) /\ LoginOf(p) = LoginOf(q) /\ LoginOf(q) \notin forked => p = q
  /\ \A q \in Requests, k \in Tokens :
       Rotating(q) /\ Live(k) /\ session[k].login = LoginOf(q) /\ LoginOf(q) \notin forked
         => At(q, "revokeOld") /\ request[q].token = k

\* Nobody has logged in.
LEMMA RotationInit == Init => RotationInv
<1> SUFFICES ASSUME Init  PROVE RotationInv
  OBVIOUS
<1>1. \A k \in Tokens : ~Live(k)
  BY DEF Init, Live, NoSession
<1>2. \A q \in Requests : ~Rotating(q)
  BY DEF Init, Rotating, At, Idle
<1>3. QED
  BY <1>1, <1>2 DEF RotationInv, OneLiveTokenPerLogin

\* A rotation revokes before it inserts, and a token can only be refreshed while
\* it is live.
LEMMA RotationStep == TypeInv /\ RotationInv /\ [Next]_sessionVars => RotationInv'
<1> SUFFICES ASSUME TypeInv, RotationInv, [Next]_sessionVars  PROVE RotationInv'
  OBVIOUS
<1>0. /\ session \in [Tokens -> SessionRecords] /\ request \in [Requests -> RequestRecords]
      /\ HandlersFit /\ SessionsTypeOK
  BY TypeParts DEF TypeInv
<1>00. \A q \in Requests : Rotating(q) => request[q].token \in Tokens
  BY <1>0 DEF Rotating, HandlersFit, RequestRecords
<1>1. ASSUME \A k \in Tokens : session'[k].login = session[k].login /\ (Live(k)' => Live(k)),
             forked \subseteq forked',
             \A p \in Requests : Rotating(p)' =>
               /\ Rotating(p) /\ request'[p].token = request[p].token
               /\ At(p, "revokeOld") => At(p, "revokeOld")'
      PROVE  RotationInv'
  <2>1. \A p \in Requests : Rotating(p)' => Rotating(p) /\ LoginOf(p)' = LoginOf(p)
    BY <1>00, <1>1 DEF LoginOf
  <2>2. OneLiveTokenPerLogin'
    BY <1>1 DEF RotationInv, OneLiveTokenPerLogin
  <2>3. \A p, q \in Requests :
          Rotating(p)' /\ Rotating(q)' /\ LoginOf(p)' = LoginOf(q)' /\ LoginOf(q)' \notin forked'
            => p = q
    BY <1>1, <2>1 DEF RotationInv
  <2>4. ASSUME NEW q \in Requests, NEW k \in Tokens, Rotating(q)', Live(k)',
               session'[k].login = LoginOf(q)', LoginOf(q)' \notin forked'
        PROVE  At(q, "revokeOld")' /\ request'[q].token = k
    BY <1>1, <2>1, <2>4 DEF RotationInv
  <2>5. QED
    BY <2>2, <2>3, <2>4 DEF RotationInv
<1>2. ASSUME NEW q \in Requests, NEW rec, rec \in RequestRecords,
             request' = [request EXCEPT ![q] = rec],
             rec.at # "revokeOld", rec.at = "insertToken" => rec.token = None,
             \A k \in Tokens : session'[k].login = session[k].login /\ (Live(k)' => Live(k)),
             forked' = forked
      PROVE  RotationInv'
  <2>1. request'[q] = rec /\ \A p \in Requests \ {q} : request'[p] = request[p]
    BY <1>0, <1>2
  <2>2. ~Rotating(q)'
    BY <1>2, <2>1 DEF Rotating, At
  <2>3. \A p \in Requests \ {q} : /\ Rotating(p)' => Rotating(p)
                                  /\ At(p, "revokeOld") => At(p, "revokeOld")'
    BY <2>1 DEF Rotating, At
  <2>4. QED
    BY <1>1, <1>2, <2>1, <2>2, <2>3
<1>3. ASSUME UNCHANGED session
      PROVE  \A k \in Tokens : session'[k].login = session[k].login /\ (Live(k)' => Live(k))
  BY <1>3 DEF Live
<1>4. ASSUME NEW S, RevokeEach(S)
      PROVE  \A k \in Tokens : session'[k].login = session[k].login /\ (Live(k)' => Live(k))
  BY <1>0, <1>4, RevokeEachEffect
<1>5. ASSUME NEW q \in Requests, RequestStep(q)  PROVE RotationInv'
  <2>1. Idle \in RequestRecords /\ Idle.at = "idle"
    BY SessionsAssumption DEF Idle, RequestRecords
  <2>2. ASSUME NEW wait \in Waits \ {"revokeOld", "insertToken"}, NEW k \in Tokens \cup {None},
               Await(q, wait, k), forked' = forked,
               \A j \in Tokens : session'[j].login = session[j].login /\ (Live(j)' => Live(j))
        PROVE  RotationInv'
    <3> DEFINE rec == [Idle EXCEPT !.at = wait, !.token = k]
    <3>1. rec \in RequestRecords /\ rec.at = wait
      <4>1. wait \in Waits /\ 0 \in 0..MaxPassword
        BY SessionsAssumption
      <4>2. QED
        BY <4>1 DEF Idle, RequestRecords
    <3>2. request' = [request EXCEPT ![q] = rec]
      BY <2>2 DEF Await
    <3> HIDE DEF rec
    <3>3. QED
      BY <1>2, <2>2, <3>1, <3>2
  <2>3. CASE BeginRegister(q) \/ BeginChangePassword(q) \/ \E k \in Tokens : BeginReuse(q, k)
    <3>1. \E wait \in {"insertUser", "writePassword", "revokeAll"} : Await(q, wait, None)
      BY <2>3 DEF BeginRegister, BeginChangePassword, BeginReuse
    <3>2. forked' = forked /\ UNCHANGED session
      BY <2>3 DEF BeginRegister, BeginChangePassword, BeginReuse
    <3>3. QED
      BY <1>3, <2>2, <3>1, <3>2 DEF Waits
  <2>4. CASE BeginLogin(q)
    <3> DEFINE rec == [Idle EXCEPT !.at = "insertToken", !.password = password]
    <3>1. rec \in RequestRecords /\ rec.at = "insertToken" /\ rec.token = None
      BY <1>0 DEF Idle, RequestRecords, Waits, SessionsTypeOK
    <3>2. request' = [request EXCEPT ![q] = rec] /\ forked' = forked /\ UNCHANGED session
      BY <2>4 DEF BeginLogin
    <3> HIDE DEF rec
    <3>3. QED
      BY <1>2, <1>3, <3>1, <3>2
  <2>5. CASE InsertUser(q)
    <3> DEFINE rec == [request[q] EXCEPT !.at = "insertToken"]
    <3>1. At(q, "insertUser") /\ Goto(q, "insertToken") /\ forked' = forked /\ UNCHANGED session
      BY <2>5 DEF InsertUser
    <3>2. rec \in RequestRecords /\ request' = [request EXCEPT ![q] = rec]
      BY <3>1, Goes DEF Waits
    <3>3. rec.at = "insertToken" /\ rec.token = None
      BY <1>0, <3>1 DEF HandlersFit, RequestRecords
    <3> HIDE DEF rec
    <3>4. QED
      BY <1>2, <1>3, <3>1, <3>2, <3>3
  <2>6. CASE RevokeAll(q)
    BY <1>2, <1>4, <2>1, <2>6 DEF RevokeAll, Respond
  <2>7. CASE DenyAccess(q) \/ Fail(q)
    BY <1>2, <1>3, <2>1, <2>7 DEF DenyAccess, Fail, Respond
  <2>8. CASE WritePassword(q)
    <3> DEFINE rec == [request[q] EXCEPT !.at = "revokeForPassword"]
    <3>1. Goto(q, "revokeForPassword") /\ forked' = forked /\ UNCHANGED session
      BY <2>8 DEF WritePassword
    <3>2. rec \in RequestRecords /\ request' = [request EXCEPT ![q] = rec]
      BY <3>1, Goes DEF Waits
    <3>3. rec.at = "revokeForPassword"
      BY <1>0 DEF RequestRecords
    <3> HIDE DEF rec
    <3>4. QED
      BY <1>2, <1>3, <3>1, <3>2, <3>3
  <2>9. CASE RevokeForPassword(q)
    <3>1. /\ RevokeEach(Tokens) /\ forked' = forked
          /\ request' = [p \in Requests |->
                           IF p = q THEN Idle
                           ELSE IF request[p].at \in {"revokeOld", "insertToken"}
                                THEN [request[p] EXCEPT !.late = TRUE] ELSE request[p]]
      BY <2>9 DEF RevokeForPassword
    <3>2. \A p \in Requests \ {q} : request'[p].at = request[p].at
                                    /\ request'[p].token = request[p].token
      BY <1>0, <3>1 DEF RequestRecords
    <3>3. request'[q].at = "idle"
      BY <2>1, <3>1
    <3>4. ~Rotating(q)'
      BY <3>3 DEF Rotating, At
    <3>5. \A p \in Requests : Rotating(p)' =>
            /\ Rotating(p) /\ request'[p].token = request[p].token
            /\ At(p, "revokeOld") => At(p, "revokeOld")'
      BY <3>2, <3>4 DEF Rotating, At
    <3>6. QED
      BY <1>1, <1>4, <3>1, <3>5
  <2>10. ASSUME NEW k \in Tokens, LogoutWithoutAccessToken(q, k)  PROVE RotationInv'
    <3>1. RevokeEach({k}) /\ UNCHANGED <<request, forked>>
      BY <2>10 DEF LogoutWithoutAccessToken
    <3>2. QED
      BY <1>1, <1>4, <3>1 DEF Rotating, At
  <2>11. ASSUME NEW k \in Tokens, NEW a \in Tokens, Logout(q, k, a)  PROVE RotationInv'
    BY <1>4, <2>2, <2>11 DEF Logout, Waits
  <2>12. CASE RevokeOld(q)
    <3> DEFINE k == request[q].token
    <3>1. At(q, "revokeOld") /\ RevokeEach({k}) /\ Goto(q, "insertToken") /\ forked' = forked
      BY <2>12 DEF RevokeOld
    <3>2. k \in Tokens /\ Rotating(q) /\ k # None
      BY <1>00, <3>1, SessionsAssumption DEF Rotating
    <3>3. /\ request'[q].at = "insertToken" /\ request'[q].token = k
          /\ \A p \in Requests \ {q} : request'[p] = request[p]
      BY <3>1, Goes DEF Waits
    <3>4. \A j \in Tokens : session'[j].login = session[j].login /\ (Live(j)' <=> Live(j) /\ j # k)
      BY <1>0, <3>1, RevokeEachEffect
    <3>5. \A p \in Requests : /\ Rotating(p)' <=> Rotating(p)
                              /\ p # q => (At(p, "revokeOld")' <=> At(p, "revokeOld"))
                              /\ request'[p].token = request[p].token
      BY <3>2, <3>3 DEF Rotating, At
    <3>6. \A p \in Requests : Rotating(p) => LoginOf(p)' = LoginOf(p)
      BY <1>00, <3>4, <3>5 DEF LoginOf
    <3>7. OneLiveTokenPerLogin'
      BY <3>1, <3>4 DEF RotationInv, OneLiveTokenPerLogin
    <3>8. \A p, r \in Requests :
            Rotating(p)' /\ Rotating(r)' /\ LoginOf(p)' = LoginOf(r)' /\ LoginOf(r)' \notin forked'
              => p = r
      BY <3>1, <3>5, <3>6 DEF RotationInv
    <3>9. ASSUME NEW p \in Requests, NEW j \in Tokens, Rotating(p)', Live(j)',
                 session'[j].login = LoginOf(p)', LoginOf(p)' \notin forked'
          PROVE  At(p, "revokeOld")' /\ request'[p].token = j
      <4>1. At(p, "revokeOld") /\ request[p].token = j
        BY <3>1, <3>4, <3>5, <3>6, <3>9 DEF RotationInv
      <4>2. p # q
        BY <3>4, <3>9, <4>1
      <4>3. QED
        BY <3>5, <4>1, <4>2
    <3>10. QED
      BY <3>7, <3>8, <3>9 DEF RotationInv
  <2>13. ASSUME NEW k \in Tokens, InsertToken(q, k)  PROVE RotationInv'
    <3> DEFINE old == request[q].token
    <3>1. forked' = forked /\ At(q, "insertToken") /\ ~Issued(k)
          /\ request' = [request EXCEPT ![q] = Idle]
          /\ \A j \in Tokens \ {k} : session'[j] = session[j]
      BY <2>13, InsertTokenEffect DEF InsertToken
    <3>2. request'[q] = Idle /\ \A p \in Requests \ {q} : request'[p] = request[p]
      BY <1>0, <3>1
    <3>3. ~Rotating(q)'
      BY <2>1, <3>2 DEF Rotating, At
    <3>4. ASSUME NEW p \in Requests, Rotating(p)'
          PROVE  /\ p # q /\ Rotating(p) /\ request'[p].token = request[p].token
                 /\ At(p, "revokeOld")' <=> At(p, "revokeOld")
                 /\ request[p].token \in Tokens \ {k}
                 /\ LoginOf(p)' = LoginOf(p)
                 /\ LoginOf(p) # k
      <4>1. p # q
        BY <3>3, <3>4
      <4>2. request'[p] = request[p]
        BY <3>2, <4>1
      <4>3. Rotating(p)
        BY <3>4, <4>2 DEF Rotating, At
      <4>4. request[p].token \in Tokens /\ Issued(request[p].token)
        BY <1>0, <1>00, <4>3 DEF HandlersFit
      <4>5. request[p].token # k
        BY <3>1, <4>4
      <4>6. LoginOf(p)' = LoginOf(p)
        BY <3>1, <4>2, <4>4, <4>5 DEF LoginOf
      <4>7. Issued(LoginOf(p))
        BY <1>0, <4>4 DEF HandlersFit, LoginOf
      <4>8. QED
        BY <3>1, <4>1, <4>2, <4>3, <4>4, <4>5, <4>6, <4>7 DEF At
    <3>5. \A j \in Tokens \ {k} : (Live(j)' <=> Live(j)) /\ session'[j].login = session[j].login
      BY <3>1 DEF Live
    <3>6. \A j \in Tokens \ {k} : Live(j) => session[j].login # k
      BY <1>0, <3>1 DEF Live, HandlersFit, Issued
    <3>7. \/ old = None /\ session'[k].login = k
          \/ Rotating(q) /\ session'[k].login = LoginOf(q)
      BY <2>13, <3>1, InsertTokenEffect DEF Rotating, LoginOf
    <3>8. OneLiveTokenPerLogin'
      <4>1. \A j \in Tokens \ {k} : Live(j) /\ session[j].login = session'[k].login
              => session'[k].login \in forked
        BY <3>1, <3>6, <3>7 DEF RotationInv, At
      <4> SUFFICES ASSUME NEW i \in Tokens, NEW j \in Tokens, Live(i)', Live(j)', i # j,
                          session'[i].login = session'[j].login
                   PROVE  session'[j].login \in forked'
        BY DEF OneLiveTokenPerLogin
      <4>2. CASE i # k /\ j # k
        BY <3>1, <3>5, <4>2 DEF RotationInv, OneLiveTokenPerLogin
      <4>3. CASE i = k
        BY <3>1, <3>5, <4>1, <4>3
      <4>4. CASE j = k
        BY <3>1, <3>5, <4>1, <4>4
      <4>5. QED
        BY <4>2, <4>3, <4>4
    <3>9. \A p, r \in Requests :
            Rotating(p)' /\ Rotating(r)' /\ LoginOf(p)' = LoginOf(r)' /\ LoginOf(r)' \notin forked'
              => p = r
      BY <3>1, <3>4 DEF RotationInv
    <3>10. ASSUME NEW p \in Requests, NEW j \in Tokens, Rotating(p)', Live(j)',
                  session'[j].login = LoginOf(p)', LoginOf(p)' \notin forked'
           PROVE  At(p, "revokeOld")' /\ request'[p].token = j
      <4>1. CASE j # k
        BY <3>1, <3>4, <3>5, <3>10, <4>1 DEF RotationInv
      <4>2. CASE j = k
        <5>1. Rotating(q) /\ LoginOf(q) = LoginOf(p)
          BY <3>4, <3>7, <3>10, <4>2
        <5>2. p = q
          BY <3>1, <3>4, <3>10, <5>1 DEF RotationInv
        <5>3. QED
          BY <3>4, <3>10, <5>2
      <4>3. QED
        BY <4>1, <4>2
    <3>11. QED
      BY <3>8, <3>9, <3>10 DEF RotationInv
  <2>14. ASSUME NEW k \in Tokens, BeginRefresh(q, k)  PROVE RotationInv'
    <3> DEFINE rec == [at |-> "revokeOld", token |-> k, password |-> session[k].password,
                       late |-> session[k].late]
    <3>1. /\ At(q, "idle") /\ Live(k) /\ request' = [request EXCEPT ![q] = rec]
          /\ forked' = (IF Overlaps(q, k) THEN forked \cup {session[k].login} ELSE forked)
          /\ UNCHANGED session
      BY <2>14 DEF BeginRefresh
    <3>2. request'[q].at = "revokeOld" /\ request'[q].token = k
          /\ \A p \in Requests \ {q} : request'[p] = request[p]
      BY <1>0, <3>1
    <3> HIDE DEF rec
    <3>3. LoginOf(q)' = session[k].login
      BY <3>1, <3>2 DEF LoginOf
    <3>4. \A p \in Requests \ {q} : /\ Rotating(p)' <=> Rotating(p)
                                    /\ LoginOf(p)' = LoginOf(p)
                                    /\ At(p, "revokeOld")' <=> At(p, "revokeOld")
      BY <3>1, <3>2 DEF Rotating, LoginOf, At
    <3>5. ASSUME NEW p \in Requests \ {q}, Rotating(p), LoginOf(p) = session[k].login
          PROVE  session[k].login \in forked'
      <4>1. CASE session[k].login \in forked
        BY <3>1, <4>1
      <4>2. CASE session[k].login \notin forked
        <5>1. At(p, "revokeOld") /\ request[p].token = k
          BY <3>1, <3>5, <4>2 DEF RotationInv
        <5>2. Overlaps(q, k)
          BY <5>1 DEF Overlaps, At
        <5>3. QED
          BY <3>1, <5>2
      <4>3. QED
        BY <4>1, <4>2
    <3>6. OneLiveTokenPerLogin'
      BY <3>1 DEF RotationInv, OneLiveTokenPerLogin, Live
    <3>7. ASSUME NEW p \in Requests, NEW r \in Requests, Rotating(p)', Rotating(r)',
                 LoginOf(p)' = LoginOf(r)', LoginOf(r)' \notin forked'
          PROVE  p = r
      <4>1. CASE p # q /\ r # q
        BY <3>1, <3>4, <3>7, <4>1 DEF RotationInv
      <4>2. CASE p = q \/ r = q
        BY <3>3, <3>4, <3>5, <3>7, <4>2
      <4>3. QED
        BY <4>1, <4>2
    <3>8. ASSUME NEW p \in Requests, NEW j \in Tokens, Rotating(p)', Live(j)',
                 session'[j].login = LoginOf(p)', LoginOf(p)' \notin forked'
          PROVE  At(p, "revokeOld")' /\ request'[p].token = j
      <4>1. Live(j) /\ session[j].login = LoginOf(p)'
        BY <3>1, <3>8 DEF Live
      <4>2. CASE p # q
        BY <3>1, <3>2, <3>4, <3>8, <4>1, <4>2 DEF RotationInv
      <4>3. CASE p = q
        <5>1. j = k
          BY <3>1, <3>3, <3>8, <4>1, <4>3 DEF RotationInv, OneLiveTokenPerLogin
        <5>2. QED
          BY <3>2, <4>3, <5>1 DEF At
      <4>4. QED
        BY <4>2, <4>3
    <3>9. QED
      BY <3>6, <3>7, <3>8 DEF RotationInv
  <2>15. QED
    BY <1>5, <2>3, <2>4, <2>5, <2>6, <2>7, <2>8, <2>9, <2>10, <2>11, <2>12, <2>13, <2>14
       DEF RequestStep
<1>6. CASE (\E s \in Sockets : SocketStep(s)) \/ Tick \/ UNCHANGED sessionVars
  <2>1. UNCHANGED <<session, request, forked>>
    BY <1>6, SocketsLeaveRest DEF Tick, sessionVars
  <2>2. QED
    BY <1>1, <1>3, <2>1 DEF Rotating, At
<1>7. QED
  BY <1>5, <1>6 DEF Next

\* A login that was never refreshed twice at once has one live token at most,
\* whatever was revoked, reused or failed in between.
THEOREM RotationIsExclusive == Spec => []OneLiveTokenPerLogin
<1>1. RotationInv => OneLiveTokenPerLogin
  BY DEF RotationInv
<1>2. QED
  BY <1>1, TypeInit, TypeStep, RotationInit, RotationStep, PTL DEF Spec

-----------------------------------------------------------------------------
(* Changes of the password. *)

Underway == interrupted \/ \E q \in Requests : At(q, "revokeForPassword")

\* A session of an older password, or a request that will make one, is excused.
PasswordInv ==
  /\ \A k \in Tokens :
       Live(k) /\ session[k].password < password => session[k].late \/ Underway
  /\ \A q \in Requests :
       /\ At(q, "revokeOld") \/ At(q, "insertToken")
       /\ request[q].password < password
       => request[q].late \/ Underway

\* No password has been changed.
LEMMA PasswordInit == Init => PasswordInv
  BY DEF Init, PasswordInv, Live, NoSession, At, Idle

\* A request carries the password and the excuse of what it has read.
Minting(q) == At(q, "revokeOld") \/ At(q, "insertToken")

\* A change of password counts as underway until its tokens are revoked.
LEMMA PasswordStep == TypeInv /\ PasswordInv /\ [Next]_sessionVars => PasswordInv'
<1> SUFFICES ASSUME TypeInv, PasswordInv, [Next]_sessionVars  PROVE PasswordInv'
  OBVIOUS
<1>0. /\ session \in [Tokens -> SessionRecords] /\ request \in [Requests -> RequestRecords]
      /\ HandlersFit /\ SessionsTypeOK /\ password \in Nat
  BY SessionsAssumption, TypeParts DEF TypeInv
<1>00. /\ \A k \in Tokens : session[k].password \in Nat
       /\ \A q \in Requests : request[q].password \in Nat
  BY <1>0, SessionsAssumption DEF SessionRecords, RequestRecords
<1>1. ASSUME password' = password, Underway => Underway',
             \A k \in Tokens : Live(k)' =>
               /\ Live(k) /\ session'[k].password = session[k].password
               /\ session[k].late => session'[k].late,
             \A p \in Requests : Minting(p)' =>
               \/ request'[p].password = password
               \/ /\ Minting(p) /\ request'[p].password = request[p].password
                  /\ request[p].late => request'[p].late
      PROVE  PasswordInv'
  <2>1. \A k \in Tokens :
          Live(k)' /\ session'[k].password < password' => session'[k].late \/ Underway'
    BY <1>1 DEF PasswordInv
  <2>2. \A q \in Requests :
          Minting(q)' /\ request'[q].password < password' => request'[q].late \/ Underway'
    BY <1>0, <1>1 DEF PasswordInv, Minting
  <2>3. QED
    BY <2>1, <2>2 DEF PasswordInv, Minting
<1>2. ASSUME UNCHANGED session
      PROVE  \A k \in Tokens : Live(k)' =>
               /\ Live(k) /\ session'[k].password = session[k].password
               /\ session[k].late => session'[k].late
  BY <1>2 DEF Live
<1>3. ASSUME NEW S, RevokeEach(S)
      PROVE  \A k \in Tokens : Live(k)' =>
               /\ Live(k) /\ session'[k].password = session[k].password
               /\ session[k].late => session'[k].late
  BY <1>0, <1>3, RevokeEachEffect
<1>4. ASSUME NEW q \in Requests, NEW rec, request' = [request EXCEPT ![q] = rec],
             password' = password, interrupted' = interrupted,
             ~At(q, "revokeForPassword"),
             rec.at \in {"revokeOld", "insertToken"} =>
               \/ rec.password = password
               \/ /\ Minting(q) /\ rec.password = request[q].password
                  /\ request[q].late => rec.late,
             \A k \in Tokens : Live(k)' =>
               /\ Live(k) /\ session'[k].password = session[k].password
               /\ session[k].late => session'[k].late
      PROVE  PasswordInv'
  <2>1. request'[q] = rec /\ \A p \in Requests \ {q} : request'[p] = request[p]
    BY <1>0, <1>4
  <2>2. Underway => Underway'
    BY <1>4, <2>1 DEF Underway, At
  <2>3. ASSUME NEW p \in Requests, Minting(p)'
        PROVE  \/ request'[p].password = password
               \/ /\ Minting(p) /\ request'[p].password = request[p].password
                  /\ request[p].late => request'[p].late
    <3>1. CASE p = q
      BY <1>4, <2>1, <2>3, <3>1 DEF Minting, At
    <3>2. CASE p # q
      BY <2>1, <2>3, <3>2 DEF Minting, At
    <3>3. QED
      BY <3>1, <3>2
  <2>4. QED
    BY <1>1, <1>4, <2>2, <2>3
<1>5. ASSUME NEW q \in Requests, RequestStep(q)  PROVE PasswordInv'
  <2>1. ASSUME NEW wait \in Waits \ {"revokeOld", "insertToken"}, NEW k \in Tokens \cup {None},
               Await(q, wait, k), At(q, "idle"), password' = password, interrupted' = interrupted,
               \A j \in Tokens : Live(j)' =>
                 /\ Live(j) /\ session'[j].password = session[j].password
                 /\ session[j].late => session'[j].late
        PROVE  PasswordInv'
    <3> DEFINE rec == [Idle EXCEPT !.at = wait, !.token = k]
    <3>1. rec.at = wait
      BY DEF Idle
    <3>2. request' = [request EXCEPT ![q] = rec]
      BY <2>1 DEF Await
    <3> HIDE DEF rec
    <3>3. QED
      BY <1>4, <2>1, <3>1, <3>2 DEF At
  <2>2. ASSUME Respond(q), ~At(q, "revokeForPassword"), password' = password,
               interrupted' = interrupted,
               \A j \in Tokens : Live(j)' =>
                 /\ Live(j) /\ session'[j].password = session[j].password
                 /\ session[j].late => session'[j].late
        PROVE  PasswordInv'
    <3>1. Idle.at = "idle" /\ request' = [request EXCEPT ![q] = Idle]
      BY <2>2 DEF Idle, Respond
    <3>2. QED
      BY <1>4, <2>2, <3>1
  <2>3. CASE BeginRegister(q) \/ BeginChangePassword(q) \/ \E k \in Tokens : BeginReuse(q, k)
    <3>1. \E wait \in {"insertUser", "writePassword", "revokeAll"} : Await(q, wait, None)
      BY <2>3 DEF BeginRegister, BeginChangePassword, BeginReuse
    <3>2. At(q, "idle") /\ UNCHANGED <<session, password, interrupted>>
      BY <2>3 DEF BeginRegister, BeginChangePassword, BeginReuse
    <3>3. QED
      BY <1>2, <2>1, <3>1, <3>2 DEF Waits
  <2>4. CASE BeginLogin(q)
    <3> DEFINE rec == [Idle EXCEPT !.at = "insertToken", !.password = password]
    <3>1. rec.password = password
      BY DEF Idle
    <3>2. /\ At(q, "idle") /\ request' = [request EXCEPT ![q] = rec]
          /\ UNCHANGED <<session, password, interrupted>>
      BY <2>4 DEF BeginLogin
    <3> HIDE DEF rec
    <3>3. QED
      BY <1>2, <1>4, <3>1, <3>2 DEF At
  <2>5. CASE InsertUser(q)
    <3> DEFINE rec == [request[q] EXCEPT !.at = "insertToken"]
    <3>1. /\ At(q, "insertUser") /\ accounts = 0 /\ Goto(q, "insertToken")
          /\ UNCHANGED <<session, password, interrupted>>
      BY <2>5 DEF InsertUser
    <3>2. request' = [request EXCEPT ![q] = rec]
      BY <3>1, Goes DEF Waits
    <3>3. rec.password = 0 /\ password = 0
      BY <1>0, <3>1 DEF HandlersFit, RequestRecords
    <3> HIDE DEF rec
    <3>4. QED
      BY <1>2, <1>4, <3>1, <3>2, <3>3 DEF At
  <2>6. CASE RevokeAll(q)
    BY <1>3, <2>2, <2>6 DEF RevokeAll, At
  <2>7. CASE DenyAccess(q)
    BY <1>2, <2>2, <2>7 DEF DenyAccess, At
  <2>8. CASE Fail(q)
    <3>1. CASE At(q, "revokeForPassword")
      <4>1. interrupted' /\ UNCHANGED <<session, password>> /\ Respond(q)
        BY <2>8, <3>1 DEF Fail
      <4>2. QED
        BY <4>1 DEF PasswordInv, Underway
    <3>2. CASE ~At(q, "revokeForPassword")
      <4>1. (interrupted' <=> interrupted) /\ UNCHANGED <<session, password>> /\ Respond(q)
        BY <2>8, <3>2 DEF Fail
      <4>2. interrupted' = interrupted
        BY <1>0, <2>8, <3>2 DEF Fail, SessionsTypeOK
      <4>3. QED
        BY <1>2, <2>2, <3>2, <4>1, <4>2
    <3>3. QED
      BY <3>1, <3>2
  <2>9. CASE WritePassword(q)
    <3>1. Goto(q, "revokeForPassword")
      BY <2>9 DEF WritePassword
    <3>2. Underway'
      BY <3>1, Goes DEF Underway, At, Waits
    <3>3. QED
      BY <3>2 DEF PasswordInv
  <2>10. CASE RevokeForPassword(q)
    <3>1. /\ RevokeEach(Tokens)
          /\ request' = [p \in Requests |->
                           IF p = q THEN Idle
                           ELSE IF request[p].at \in {"revokeOld", "insertToken"}
                                THEN [request[p] EXCEPT !.late = TRUE] ELSE request[p]]
      BY <2>10 DEF RevokeForPassword
    <3>2. \A k \in Tokens : ~Live(k)'
      BY <1>0, <3>1, RevokeEachEffect
    <3>3. ASSUME NEW p \in Requests, Minting(p)'  PROVE request'[p].late
      <4>1. p # q
        BY <3>1, <3>3 DEF Minting, At, Idle
      <4>2. Minting(p)
        BY <1>0, <3>1, <3>3, <4>1 DEF Minting, At, RequestRecords
      <4>3. request'[p] = [request[p] EXCEPT !.late = TRUE]
        BY <3>1, <4>1, <4>2 DEF Minting, At
      <4>4. QED
        BY <1>0, <4>3 DEF RequestRecords
    <3>4. QED
      BY <3>2, <3>3 DEF PasswordInv, Minting
  <2>11. ASSUME NEW k \in Tokens, LogoutWithoutAccessToken(q, k)  PROVE PasswordInv'
    <3>1. RevokeEach({k}) /\ UNCHANGED <<request, password, interrupted>>
      BY <2>11 DEF LogoutWithoutAccessToken
    <3>2. QED
      BY <1>1, <1>3, <3>1 DEF Minting, At, Underway
  <2>12. ASSUME NEW k \in Tokens, NEW a \in Tokens, Logout(q, k, a)  PROVE PasswordInv'
    BY <1>3, <2>1, <2>12 DEF Logout, Waits
  <2>13. CASE RevokeOld(q)
    <3> DEFINE rec == [request[q] EXCEPT !.at = "insertToken"]
    <3>1. /\ At(q, "revokeOld") /\ RevokeEach({request[q].token}) /\ Goto(q, "insertToken")
          /\ UNCHANGED <<password, interrupted>>
      BY <2>13 DEF RevokeOld
    <3>2. request' = [request EXCEPT ![q] = rec]
      BY <3>1, Goes DEF Waits
    <3>3. rec.password = request[q].password /\ rec.late = request[q].late
      BY <1>0 DEF RequestRecords
    <3> HIDE DEF rec
    <3>4. Minting(q) /\ ~At(q, "revokeForPassword")
      BY <3>1 DEF Minting, At
    <3>5. QED
      BY <1>3, <1>4, <3>1, <3>2, <3>3, <3>4
  <2>14. ASSUME NEW k \in Tokens, BeginRefresh(q, k)  PROVE PasswordInv'
    <3> DEFINE rec == [at |-> "revokeOld", token |-> k, password |-> session[k].password,
                       late |-> session[k].late]
    <3>1. /\ At(q, "idle") /\ Live(k) /\ request' = [request EXCEPT ![q] = rec]
          /\ UNCHANGED <<session, password, interrupted>>
      BY <2>14 DEF BeginRefresh
    <3>2. /\ request'[q].password = session[k].password /\ request'[q].late = session[k].late
          /\ \A p \in Requests \ {q} : request'[p] = request[p]
      BY <1>0, <3>1
    <3> HIDE DEF rec
    <3>3. Underway => Underway'
      BY <3>1, <3>2 DEF Underway, At
    <3>4. ASSUME NEW p \in Requests, Minting(p)', request'[p].password < password
          PROVE  request'[p].late \/ Underway'
      <4>1. CASE p = q
        BY <3>1, <3>2, <3>3, <3>4, <4>1 DEF PasswordInv
      <4>2. CASE p # q
        BY <3>2, <3>3, <3>4, <4>2 DEF PasswordInv, Minting, At
      <4>3. QED
        BY <4>1, <4>2
    <3>5. \A j \in Tokens :
            Live(j)' /\ session'[j].password < password' => session'[j].late \/ Underway'
      BY <3>1, <3>3 DEF PasswordInv, Live
    <3>6. QED
      BY <3>1, <3>4, <3>5 DEF PasswordInv, Minting
  <2>15. ASSUME NEW k \in Tokens, InsertToken(q, k)  PROVE PasswordInv'
    <3>1. /\ At(q, "insertToken") /\ request' = [request EXCEPT ![q] = Idle]
          /\ \A j \in Tokens \ {k} : session'[j] = session[j]
          /\ session'[k].password = request[q].password /\ session'[k].late = request[q].late
          /\ UNCHANGED <<password, interrupted>>
      BY <2>15, InsertTokenEffect DEF InsertToken
    <3>2. /\ request'[q].at = "idle"
          /\ \A p \in Requests \ {q} : request'[p] = request[p]
      BY <1>0, <3>1 DEF Idle
    <3>3. Underway => Underway'
      BY <3>1, <3>2 DEF Underway, At
    <3>4. ASSUME NEW p \in Requests, Minting(p)', request'[p].password < password
          PROVE  request'[p].late \/ Underway'
      <4>1. p # q /\ request'[p] = request[p]
        BY <3>2, <3>4 DEF Minting, At
      <4>2. QED
        BY <3>3, <3>4, <4>1 DEF PasswordInv, Minting, At
    <3>5. ASSUME NEW j \in Tokens, Live(j)', session'[j].password < password
          PROVE  session'[j].late \/ Underway'
      <4>1. CASE j = k
        BY <3>1, <3>3, <3>5, <4>1 DEF PasswordInv
      <4>2. CASE j # k
        BY <3>1, <3>3, <3>5, <4>2 DEF PasswordInv, Live
      <4>3. QED
        BY <4>1, <4>2
    <3>6. QED
      BY <3>1, <3>4, <3>5 DEF PasswordInv, Minting
  <2>16. QED
    BY <1>5, <2>3, <2>4, <2>5, <2>6, <2>7, <2>8, <2>9, <2>10, <2>11, <2>12, <2>13, <2>14, <2>15
       DEF RequestStep
<1>6. CASE (\E s \in Sockets : SocketStep(s)) \/ Tick \/ UNCHANGED sessionVars
  <2>1. UNCHANGED <<session, request, password, interrupted>>
    BY <1>6, SocketsLeaveRest DEF Tick, sessionVars
  <2>2. QED
    BY <2>1 DEF PasswordInv, Live, At, Underway
<1>7. QED
  BY <1>5, <1>6 DEF Next

\* For any number of changes and requests: a completed change of password leaves
\* no session of an older one but those that were in flight.
THEOREM PasswordChangesEndSessions == Spec => []PasswordChangeEndsSessions
<1>1. PasswordInv => PasswordChangeEndsSessions
  BY DEF PasswordInv, PasswordChangeEndsSessions, Underway
<1>2. QED
  BY <1>1, TypeInit, TypeStep, PasswordInit, PasswordStep, PTL DEF Spec
=============================================================================
