----------------------------- MODULE RowLocksProofs -----------------------------
(***************************************************************************)
(* Proofs about RowLocks, for any number of transactions, reservations and *)
(* ticket types.                                                           *)
(***************************************************************************)
EXTENDS RowLocks, TLAPS

USE DEF tables, stock, locking

-----------------------------------------------------------------------------
(* The inductive invariant. *)

\* Which statements a transaction has executed, by the one that comes next.
Progress(x) ==
  LET kind == tx[x].kind
      next == tx[x].next
      Held(table) == table \in tx[x].held
  IN  /\ kind = "none" => tx[x].held = {}
      /\ kind \in Settlements =>
           /\ Held("payment") <=> next # "payment"
           /\ Held("order") => next \notin {"payment", "order"}
           /\ Held("reservation") => next \in {"ticketType", "commit"}
      /\ kind = "settleSuccess" =>
           /\ next # "ticketType" /\ ~Held("ticketType")
           /\ next \in {"reservation", "commit"} => Held("order")
           /\ next = "commit" => Held("reservation")
      /\ kind = "settleFailure" =>
           /\ next = "ticketType" => Held("reservation")
           /\ next = "commit" /\ Held("reservation") => Held("ticketType")
           /\ Held("ticketType") => Held("reservation") /\ next = "commit"
      /\ kind \in HoldEnders =>
           /\ next \in {"reservation", "ticketType", "commit"}
           /\ Held("reservation") <=> next # "reservation"
           /\ Held("ticketType") <=> next = "commit"
           /\ ~Held("payment") /\ ~Held("order")
      /\ kind = "refund" =>
           /\ next \in {"order", "payment", "commit"}
           /\ Held("order") <=> next # "order"
           /\ Held("payment") <=> next = "commit"
           /\ ~Held("reservation") /\ ~Held("ticketType")
      /\ kind = "create" =>
           /\ next \in {"ticketType", "reservation", "commit"}
           /\ Held("ticketType") <=> next # "ticketType"
           /\ Held("reservation") <=> next = "commit"
           /\ ~Held("payment") /\ ~Held("order")

\* The rows a transaction works on are the ones it read before it began.
Subjects(x) ==
  LET kind == tx[x].kind
      r == tx[x].booking
  IN  /\ kind \notin {"none", "create"} =>
           /\ r \in Reservations
           /\ reservation[r].status # "NONE"
           /\ reservation[r].ticketType = tx[x].ticketType
           /\ reservation[r].quantity = tx[x].quantity
      /\ kind \in Settlements => payment[r] # "NONE"
      /\ kind = "create" =>
           /\ tx[x].ticketType \in TicketTypes
           /\ tx[x].quantity \in Quantities
           /\ tx[x].next = "commit" => r \in Reservations

\* A row that is locked still satisfies the WHERE clause that found it, and a
\* row a failed payment did not find never comes to satisfy it.
HeldRows(x) ==
  LET kind == tx[x].kind
      next == tx[x].next
      r == tx[x].booking
      Held(table) == table \in tx[x].held
  IN  /\ kind \in Settlements =>
           /\ Held("payment") => payment[r] = "PENDING"
           /\ Held("order") => order[r] = "PENDING"
      /\ kind = "refund" /\ Held("order") => order[r] = "PAID"
      /\ kind \notin {"none", "create"} /\ Held("reservation") =>
           reservation[r].status = "HOLDING"
      /\ kind = "settleFailure" =>
           /\ next \notin {"payment", "order"} /\ ~Held("order") => order[r] # "PENDING"
           /\ next = "commit" /\ ~Held("reservation") => reservation[r].status # "HOLDING"
      /\ kind = "create" =>
           /\ Held("reservation") => reservation[r].status = "NONE"
           /\ Held("ticketType") => tx[x].quantity <= remainingQuantity[tx[x].ticketType]

\* No row is locked twice.
Exclusive ==
  \A y, z \in Connections, table \in Tables, id \in Reservations \cup TicketTypes :
    Locks(y, table, id) /\ Locks(z, table, id) => y = z

\* A payment needs an order, an order a reservation, a paid order its money, and
\* a reservation its ticket type.
RowsAgree ==
  \A r \in Reservations :
    /\ payment[r] # "NONE" => order[r] # "NONE"
    /\ order[r] # "NONE" => reservation[r].status # "NONE"
    /\ order[r] = "PAID" => payment[r] = "PAID"
    /\ reservation[r].status # "NONE" => reservation[r].ticketType \in TicketTypes

LockInv ==
  /\ RowLocksTypeOK
  /\ \A x \in Transactions : Progress(x) /\ Subjects(x) /\ HeldRows(x)
  /\ \A r \in ordersHeld : order[r] = "PENDING"
  /\ Exclusive
  /\ RowsAgree

-----------------------------------------------------------------------------
(* Waiting. *)

\* The statement a connection waits at.
Rank(x) ==
  IF x = CancelOrders THEN 3
  ELSE CASE tx[x].next = "payment" -> 1
         [] tx[x].next = "order" -> 2
         [] tx[x].next = "reservation" -> 4
         [] OTHER -> 5

\* A connection waits for one that, if it waits as well, waits further down.
LEMMA WaitsDown ==
  ASSUME LockInv, NEW x \in Connections, NEW y \in Connections, NEW z \in Connections,
         WaitsFor(x, y), WaitsFor(y, z)
  PROVE  Rank(x) < Rank(y)
<1> USE DEF LockInv, RowLocksTypeOK, TxRecords, Kinds, Tables, Settlements, HoldEnders,
            Connections
<1>1. CASE x = CancelOrders
  <2>1. PICK r \in ordersLeft : order[r] = "PENDING" /\ Locks(y, "order", r)
    BY <1>1 DEF WaitsFor
  <2>2. y \in Transactions /\ "order" \in tx[y].held /\ RowOf(y, "order") = r
    BY <1>1, <2>1 DEF WaitsFor, Locks
  <2>3. y # CancelOrders
    BY <1>1 DEF WaitsFor
  <2>4. tx[y].kind \in Settlements
    BY <2>1, <2>2 DEF RowOf, Progress, HeldRows
  <2>5. tx[y].next \in {"reservation", "ticketType"}
    BY <2>2, <2>3, <2>4 DEF WaitsFor, Progress
  <2>6. QED
    BY <1>1, <2>3, <2>5 DEF Rank
<1>2. CASE x # CancelOrders
  <2>1. /\ x \in Transactions /\ tx[x].kind # "none" /\ tx[x].next # "commit"
        /\ ~(tx[x].kind = "create" /\ tx[x].next = "reservation")
        /\ Matches(x)
        /\ Locks(y, tx[x].next, RowOf(x, tx[x].next))
    BY <1>2 DEF WaitsFor, IsOpen
  <2>2. CASE y = CancelOrders
    BY <1>2, <2>1, <2>2 DEF Locks, Rank
  <2>3. CASE y # CancelOrders
    <3>1. /\ y \in Transactions /\ tx[y].kind # "none" /\ tx[y].next # "commit"
          /\ ~(tx[y].kind = "create" /\ tx[y].next = "reservation")
          /\ tx[x].next \in tx[y].held
          /\ RowOf(y, tx[x].next) = RowOf(x, tx[x].next)
      BY <2>1, <2>3 DEF WaitsFor, IsOpen, Locks
    <3>2. Progress(x) /\ Progress(y) /\ HeldRows(x) /\ HeldRows(y) /\ Subjects(x) /\ Subjects(y)
      BY <2>1, <3>1
    <3>3. CASE tx[x].next = "payment"
      <4>1. tx[y].kind \in Settlements
        BY <3>1, <3>2, <3>3 DEF Progress
      <4>2. tx[y].next # "payment"
        BY <3>1, <3>2, <3>3, <4>1 DEF Progress
      <4>3. QED
        BY <1>2, <2>3, <3>3, <4>2 DEF Rank
    <3>4. CASE tx[x].next = "order"
      <4>1. \/ tx[y].kind \in Settlements
            \/ tx[y].kind = "refund" /\ tx[y].next = "payment"
        BY <3>1, <3>2, <3>4 DEF Progress
      <4>2. CASE tx[y].kind \in Settlements
        BY <1>2, <2>3, <3>1, <3>2, <3>4, <4>2 DEF Rank, Progress
      <4>3. CASE tx[y].kind = "refund" /\ tx[y].next = "payment"
        <5> DEFINE r == tx[y].booking
        <5>1. r \in Reservations /\ order[r] = "PAID" /\ payment[r] = "PAID"
          BY <3>1, <3>2, <3>4, <4>3 DEF Progress, Subjects, HeldRows, RowsAgree
        <5>2. Locks(y, "order", r)
          BY <2>3, <3>1, <3>4 DEF Locks, RowOf
        <5>3. Locks(z, "payment", r)
          BY <2>3, <4>3 DEF WaitsFor, RowOf
        <5>4. z # y /\ z # CancelOrders /\ z \in Transactions /\ "payment" \in tx[z].held
              /\ tx[z].booking = r
          BY <2>3, <5>3 DEF WaitsFor, Locks, RowOf
        <5>5. tx[z].kind = "refund"
          BY <5>1, <5>4 DEF Progress, HeldRows
        <5>6. Locks(z, "order", r)
          BY <5>4, <5>5 DEF Progress, Locks, RowOf
        <5>7. QED
          BY <5>1, <5>2, <5>4, <5>6 DEF Exclusive
      <4>4. QED
        BY <4>1, <4>2, <4>3
    <3>5. CASE tx[x].next = "reservation"
      <4>1. tx[y].next = "ticketType"
        BY <3>1, <3>2, <3>5 DEF Progress
      <4>2. QED
        BY <1>2, <2>3, <3>5, <4>1 DEF Rank
    <3>6. CASE tx[x].next = "ticketType"
      BY <3>1, <3>2, <3>6 DEF Progress
    <3>7. QED
      BY <2>1, <3>3, <3>4, <3>5, <3>6
  <2>4. QED
    BY <2>2, <2>3
<1>3. QED
  BY <1>1, <1>2

\* Five steps down there is nobody left to wait for.
LEMMA NobodyWaitsInACircle == LockInv => NoDeadlock
<1> SUFFICES ASSUME LockInv, NEW S \in SUBSET Connections, S # {},
                    \A x \in S : \E y \in S : WaitsFor(x, y)
             PROVE  FALSE
  BY DEF NoDeadlock
<1>1. \A x \in S : Rank(x) \in 1..5
  BY DEF Rank
<1>2. \A x \in S : \E y \in S : Rank(x) < Rank(y)
  <2> TAKE x \in S
  <2>1. PICK y \in S : WaitsFor(x, y)
    OBVIOUS
  <2>2. PICK z \in S : WaitsFor(y, z)
    OBVIOUS
  <2>3. Rank(x) < Rank(y)
    BY <2>1, <2>2, WaitsDown
  <2>4. QED
    BY <2>3
<1>3. PICK a \in S : TRUE
  OBVIOUS
<1>4. PICK b \in S : Rank(a) < Rank(b)
  BY <1>2
<1>5. PICK c \in S : Rank(b) < Rank(c)
  BY <1>2
<1>6. PICK d \in S : Rank(c) < Rank(d)
  BY <1>2
<1>7. PICK e \in S : Rank(d) < Rank(e)
  BY <1>2
<1>8. PICK f \in S : Rank(e) < Rank(f)
  BY <1>2
<1>9. QED
  BY <1>1, <1>4, <1>5, <1>6, <1>7, <1>8

-----------------------------------------------------------------------------
(* Statements: one transaction goes on, the committed rows stay. *)

\* No table has a row, no transaction is open.
LEMMA LockInit == Init => LockInv
<1> SUFFICES ASSUME Init  PROVE LockInv
  OBVIOUS
<1> USE DEF Init, Closed
<1>1. RowLocksTypeOK
  BY RowsAssumption
     DEF RowLocksTypeOK, TxRecords, Core!ReservationStatus, Core!OrderStatus, Core!PaymentStatus
<1>2. \A x \in Transactions : Progress(x) /\ Subjects(x) /\ HeldRows(x)
  BY DEF Progress, Subjects, HeldRows, Settlements, HoldEnders
<1>3. Exclusive
  BY DEF Exclusive, Locks, Connections
<1>4. QED
  BY <1>1, <1>2, <1>3 DEF LockInv, RowsAgree

\* What has to be shown of a transaction that executes a statement.
LEMMA OneTransaction ==
  ASSUME LockInv, NEW x \in Transactions, NEW rec \in TxRecords,
         tx' = [tx EXCEPT ![x] = rec], UNCHANGED <<tables, ordersLeft, ordersHeld>>,
         Progress(x)', Subjects(x)', HeldRows(x)',
         \A table \in Tables, id \in Reservations \cup TicketTypes :
           Locks(x, table, id)' => Locks(x, table, id) \/ ~LockedByAnother(x, table, id)
  PROVE  LockInv'
<1>1. tx'[x] = rec /\ \A y \in Transactions \ {x} : tx'[y] = tx[y]
  BY DEF LockInv, RowLocksTypeOK
<1>2. RowLocksTypeOK'
  BY DEF LockInv, RowLocksTypeOK
<1>3. ASSUME NEW y \in Transactions  PROVE (Progress(y) /\ Subjects(y) /\ HeldRows(y))'
  <2>1. CASE y = x
    BY <2>1
  <2>2. CASE y # x
    <3>1. tx'[y] = tx[y]
      BY <1>1, <2>2
    <3>2. Progress(y) /\ Subjects(y) /\ HeldRows(y)
      BY DEF LockInv
    <3>3. QED
      BY <3>1, <3>2 DEF Progress, Subjects, HeldRows
  <2>3. QED
    BY <2>1, <2>2
<1>4. Exclusive'
  <2> SUFFICES ASSUME NEW y \in Connections, NEW z \in Connections, NEW table \in Tables,
                      NEW id \in Reservations \cup TicketTypes,
                      Locks(y, table, id)', Locks(z, table, id)', y # z
               PROVE  FALSE
    BY DEF Exclusive, Connections, Tables
  <2>1. \A w \in Connections \ {x} : Locks(w, table, id)' => Locks(w, table, id)
    BY <1>1 DEF Locks, RowOf, Connections
  <2>2. CASE y # x /\ z # x
    BY <2>1, <2>2 DEF LockInv, Exclusive
  <2>3. CASE y = x
    BY <2>1, <2>3 DEF LockInv, Exclusive, LockedByAnother
  <2>4. CASE z = x
    BY <2>1, <2>4 DEF LockInv, Exclusive, LockedByAnother
  <2>5. QED
    BY <2>2, <2>3, <2>4
<1>5. QED
  BY <1>2, <1>3, <1>4 DEF LockInv, RowsAgree

\* A transaction that begins or ends holds nothing.
LEMMA NothingHeld ==
  ASSUME LockInv, NEW x \in Transactions, NEW rec \in TxRecords,
         tx' = [tx EXCEPT ![x] = rec], UNCHANGED <<tables, ordersLeft, ordersHeld>>,
         rec.held = {}, rec.kind # "none" => rec.next = First(rec.kind),
         Subjects(x)'
  PROVE  LockInv'
<1> USE DEF Settlements, HoldEnders, Kinds, TxRecords, First
<1>1. tx'[x] = rec
  BY DEF LockInv, RowLocksTypeOK
<1>2. Progress(x)'
  BY <1>1 DEF Progress
<1>3. HeldRows(x)'
  BY <1>1 DEF HeldRows
<1>4. \A table \in Tables, id \in Reservations \cup TicketTypes : ~Locks(x, table, id)'
  BY <1>1, RowsAssumption DEF Locks
<1>5. QED
  BY <1>2, <1>3, <1>4, OneTransaction

\* It begins with the keys of rows that exist.
LEMMA BeginInv ==
  ASSUME LockInv, NEW x \in Transactions,
         NEW r \in Reservations, NEW kind \in Kinds \ {"create"}, Begin(x, kind, r)
  PROVE  LockInv'
<1> DEFINE rec == [kind |-> kind, booking |-> r, ticketType |-> reservation[r].ticketType,
                   quantity |-> reservation[r].quantity, next |-> First(kind), held |-> {}]
<1>1. rec \in TxRecords
  BY DEF LockInv, RowLocksTypeOK, TxRecords, First, Kinds, Settlements, HoldEnders, Tables
<1>2. tx' = [tx EXCEPT ![x] = rec] /\ UNCHANGED <<tables, ordersLeft, ordersHeld>>
  BY DEF Begin, Open
<1>3. Subjects(x)'
  <2>1. tx'[x] = rec
    BY <1>2 DEF LockInv, RowLocksTypeOK
  <2>2. reservation[r].status # "NONE" /\ (kind \in Settlements => payment[r] # "NONE")
    BY DEF Begin, Kinds, LockInv, RowsAgree
  <2>3. QED
    BY <1>2, <2>1, <2>2 DEF Subjects, Kinds, Settlements, HoldEnders
<1>4. QED
  BY <1>1, <1>2, <1>3, NothingHeld

\* A new hold begins without a row.
LEMMA BeginCreateInv ==
  ASSUME LockInv, NEW x \in Transactions,
         NEW t \in TicketTypes, NEW n \in Quantities, BeginCreate(x, t, n)
  PROVE  LockInv'
<1> DEFINE rec == [kind |-> "create", booking |-> None, ticketType |-> t,
                   quantity |-> n, next |-> First("create"), held |-> {}]
<1>1. rec \in TxRecords
  BY RowsAssumption DEF TxRecords, First, Kinds, Settlements, HoldEnders, Tables
<1>2. tx' = [tx EXCEPT ![x] = rec] /\ UNCHANGED <<tables, ordersLeft, ordersHeld>>
  BY DEF BeginCreate, Open
<1>3. Subjects(x)'
  <2>1. tx'[x] = rec
    BY <1>2 DEF LockInv, RowLocksTypeOK
  <2>2. QED
    BY <2>1 DEF Subjects, First, Settlements, HoldEnders
<1>4. QED
  BY <1>1, <1>2, <1>3, NothingHeld

\* It ends without a trace when it is rolled back, or had nothing to write.
LEMMA CloseInv ==
  ASSUME LockInv, NEW x \in Transactions, Close(x),
         UNCHANGED <<tables, ordersLeft, ordersHeld>>
  PROVE  LockInv'
<1>1. Closed \in TxRecords
  BY DEF TxRecords, Closed
<1>2. Subjects(x)'
  BY DEF LockInv, RowLocksTypeOK, Subjects, Close, Closed, Settlements
<1>3. QED
  BY <1>1, <1>2, NothingHeld DEF Close, Closed

\* An update that finds its row locks it, and nobody else has.
LEMMA UpdateInv ==
  ASSUME LockInv, NEW x \in Transactions, Update(x)
  PROVE  LockInv'
<1> DEFINE table == tx[x].next
           rec == [tx[x] EXCEPT !.held = @ \cup {table}, !.next = Following(tx[x].kind, table)]
<1>1. /\ tx[x] \in TxRecords /\ tx[x].kind # "none" /\ table \in Tables
      /\ ~(tx[x].kind = "create" /\ table = "reservation")
      /\ Matches(x) /\ ~LockedByAnother(x, table, RowOf(x, table))
      /\ UNCHANGED <<tables, ordersLeft, ordersHeld>>
  BY DEF Update, LockInv, RowLocksTypeOK, TxRecords, IsOpen
<1>2. rec \in TxRecords
  BY <1>1 DEF TxRecords, Following, Tables
<1>3. tx' = [tx EXCEPT ![x] = rec]
  BY <1>1 DEF Update, LockInv, RowLocksTypeOK, TxRecords
<1>4. tx'[x] = rec
  BY <1>3 DEF LockInv, RowLocksTypeOK
<1>5. /\ rec.kind = tx[x].kind /\ rec.booking = tx[x].booking
      /\ rec.ticketType = tx[x].ticketType /\ rec.quantity = tx[x].quantity
      /\ rec.held = tx[x].held \cup {table} /\ rec.next = Following(tx[x].kind, table)
  BY <1>1 DEF TxRecords
<1>6. Progress(x) /\ Subjects(x) /\ HeldRows(x) /\ tx[x].kind \in Kinds
  BY <1>1 DEF LockInv, TxRecords
<1> HIDE DEF rec
<1>7. Progress(x)'
  <2>1. CASE tx[x].kind \in Settlements
    BY <1>1, <1>4, <1>5, <1>6, <2>1 DEF Progress, Following, Tables, Settlements, HoldEnders
  <2>2. CASE tx[x].kind \in HoldEnders
    BY <1>1, <1>4, <1>5, <1>6, <2>2 DEF Progress, Following, Tables, Settlements, HoldEnders
  <2>3. CASE tx[x].kind \in {"refund", "create"}
    BY <1>1, <1>4, <1>5, <1>6, <2>3 DEF Progress, Following, Tables, Settlements, HoldEnders
  <2>4. QED
    BY <1>6, <2>1, <2>2, <2>3 DEF Kinds
<1>8. Subjects(x)'
  BY <1>1, <1>4, <1>5, <1>6 DEF Subjects, Progress, Following, Settlements, HoldEnders
<1>9. HeldRows(x)'
  <2> DEFINE r == tx[x].booking
  <2>0. /\ table = "payment" => tx[x].kind = "refund" \/ payment[r] = "PENDING"
        /\ table = "order" /\ tx[x].kind = "refund" => order[r] = "PAID"
        /\ table = "order" /\ tx[x].kind # "refund" => order[r] = "PENDING"
        /\ table = "reservation" => reservation[r].status = "HOLDING"
    BY <1>1 DEF Matches, Core!Holding
  <2>1. CASE tx[x].kind = "settleSuccess"
    <3>1. \A held \in Tables : held \in rec.held <=> held \in tx[x].held \/ held = table
      BY <1>5
    <3>2. QED
      BY <1>1, <1>4, <1>5, <1>6, <2>0, <2>1, <3>1
         DEF HeldRows, Settlements, HoldEnders, Tables
  <2>5. CASE tx[x].kind = "settleFailure"
    BY <1>1, <1>4, <1>5, <1>6, <2>0, <2>5
       DEF HeldRows, Progress, Following, Tables, Settlements, HoldEnders
  <2>2. CASE tx[x].kind \in HoldEnders
    BY <1>1, <1>4, <1>5, <1>6, <2>0, <2>2
       DEF HeldRows, Progress, Following, Tables, Settlements, HoldEnders
  <2>3. CASE tx[x].kind = "refund"
    BY <1>1, <1>4, <1>5, <1>6, <2>0, <2>3
       DEF HeldRows, Progress, Following, Tables, Settlements, HoldEnders
  <2>4. CASE tx[x].kind = "create"
    <3>1. table = "ticketType"
      BY <1>1, <1>6, <2>4 DEF Progress, Matches, Tables
    <3>2. tx[x].quantity <= remainingQuantity[tx[x].ticketType]
      <4>1. remainingQuantity[tx[x].ticketType] >= tx[x].quantity
        BY <1>1, <2>4, <3>1 DEF Matches, Core!Fits
      <4>2. remainingQuantity[tx[x].ticketType] \in Nat /\ tx[x].quantity \in Nat
        BY <1>1, <1>6, <2>4 DEF Subjects, LockInv, RowLocksTypeOK, TxRecords
      <4>3. QED
        BY <4>1, <4>2
    <3>3. QED
      BY <1>1, <1>4, <1>5, <1>6, <2>4, <3>1, <3>2
         DEF HeldRows, Progress, Settlements, HoldEnders
  <2>6. QED
    BY <1>6, <2>1, <2>2, <2>3, <2>4, <2>5 DEF Kinds, Settlements
<1>10. ASSUME NEW tbl \in Tables, NEW id \in Reservations \cup TicketTypes, Locks(x, tbl, id)'
       PROVE  Locks(x, tbl, id) \/ ~LockedByAnother(x, tbl, id)
  <2>1. x # CancelOrders
    BY RowsAssumption
  <2>2. tbl \in tx[x].held \cup {table} /\ RowOf(x, tbl) = id
    BY <1>4, <1>5, <1>10, <2>1 DEF Locks, RowOf
  <2>3. QED
    BY <1>1, <2>1, <2>2 DEF Locks
<1>11. QED
  BY <1>1, <1>2, <1>3, <1>7, <1>8, <1>9, <1>10, OneTransaction

\* The id of a new row is used by nobody else.
LEMMA InsertInv ==
  ASSUME LockInv, NEW x \in Transactions, NEW r \in Reservations, Insert(x, r)
  PROVE  LockInv'
<1> DEFINE rec == [tx[x] EXCEPT !.booking = r, !.held = @ \cup {"reservation"},
                                !.next = "commit"]
<1>1. /\ tx[x] \in TxRecords /\ tx[x].kind = "create" /\ tx[x].next = "reservation"
      /\ reservation[r].status = "NONE"
      /\ \A y \in Transactions : tx[y].kind = "create" => tx[y].booking # r
      /\ UNCHANGED <<tables, ordersLeft, ordersHeld>>
  BY DEF Insert, LockInv, RowLocksTypeOK
<1>2. rec \in TxRecords
  BY <1>1 DEF TxRecords, Tables
<1>3. tx' = [tx EXCEPT ![x] = rec]
  BY <1>1 DEF Insert, LockInv, RowLocksTypeOK, TxRecords
<1>4. tx'[x] = rec
  BY <1>3 DEF LockInv, RowLocksTypeOK
<1>5. /\ rec.kind = "create" /\ rec.booking = r
      /\ rec.ticketType = tx[x].ticketType /\ rec.quantity = tx[x].quantity
      /\ rec.held = tx[x].held \cup {"reservation"} /\ rec.next = "commit"
  BY <1>1 DEF TxRecords
<1>6. Progress(x) /\ Subjects(x) /\ HeldRows(x)
  BY DEF LockInv
<1> HIDE DEF rec
<1>7. Progress(x)' /\ Subjects(x)' /\ HeldRows(x)'
  BY <1>1, <1>4, <1>5, <1>6 DEF Progress, Subjects, HeldRows, Settlements, HoldEnders
<1>8. ASSUME NEW table \in Tables, NEW id \in Reservations \cup TicketTypes, Locks(x, table, id)'
      PROVE  Locks(x, table, id) \/ ~LockedByAnother(x, table, id)
  <2>1. x # CancelOrders
    BY RowsAssumption
  <2>2. table \in tx[x].held \cup {"reservation"} /\ RowOf(x, table)' = id
    BY <1>4, <1>5, <1>8, <2>1 DEF Locks
  <2>3. CASE table = "reservation"
    <3>1. id = r
      BY <1>4, <1>5, <2>2, <2>3 DEF RowOf
    <3>2. ASSUME NEW y \in Connections \ {x}, Locks(y, "reservation", r)  PROVE FALSE
      <4>1. y # CancelOrders /\ y \in Transactions /\ "reservation" \in tx[y].held
            /\ tx[y].booking = r
        BY <3>2 DEF Locks, RowOf, Connections
      <4>2. Progress(y) /\ Subjects(y) /\ HeldRows(y)
        BY <4>1 DEF LockInv
      <4>3. tx[y].kind \notin {"none", "create"}
        BY <1>1, <4>1, <4>2 DEF Progress
      <4>4. QED
        BY <1>1, <4>1, <4>2, <4>3 DEF HeldRows
    <3>3. QED
      BY <2>3, <3>1, <3>2 DEF LockedByAnother
  <2>4. CASE table # "reservation"
    BY <1>1, <1>4, <1>5, <1>6, <2>1, <2>2, <2>4 DEF Locks, RowOf, Progress, Tables
  <2>5. QED
    BY <2>3, <2>4
<1>9. QED
  BY <1>1, <1>2, <1>3, <1>7, <1>8, OneTransaction

\* A statement that finds no row locks none.
LEMMA MissInv ==
  ASSUME LockInv, NEW x \in Transactions, Miss(x)
  PROVE  LockInv'
<1>1. /\ tx[x] \in TxRecords /\ tx[x].kind # "none" /\ tx[x].next \in Tables
      /\ ~Matches(x) /\ UNCHANGED <<tables, ordersLeft, ordersHeld>>
  BY DEF Miss, LockInv, RowLocksTypeOK, TxRecords, IsOpen
<1>2. CASE Close(x)
  BY <1>1, <1>2, CloseInv
<1>3. CASE ~Close(x)
  <2> DEFINE nextTable == IF tx[x].next = "order" THEN "reservation" ELSE "commit"
             rec == [tx[x] EXCEPT !.next = nextTable]
  <2>1. tx[x].kind = "settleFailure" /\ tx[x].next \in {"order", "reservation"}
        /\ Goto(x, nextTable)
    BY <1>3 DEF Miss
  <2>2. rec \in TxRecords
    BY <1>1 DEF TxRecords, Tables
  <2>3. tx' = [tx EXCEPT ![x] = rec] /\ tx'[x] = rec
    BY <2>1 DEF Goto, LockInv, RowLocksTypeOK, TxRecords
  <2>4. /\ rec.kind = tx[x].kind /\ rec.booking = tx[x].booking
        /\ rec.ticketType = tx[x].ticketType /\ rec.quantity = tx[x].quantity
        /\ rec.held = tx[x].held /\ rec.next = nextTable
    BY <1>1 DEF TxRecords
  <2>5. Progress(x) /\ Subjects(x) /\ HeldRows(x)
    BY DEF LockInv
  <2> HIDE DEF rec
  <2>6. Progress(x)' /\ Subjects(x)'
    BY <1>1, <2>1, <2>3, <2>4, <2>5 DEF Progress, Subjects, Settlements, HoldEnders
  <2>7. HeldRows(x)'
    BY <1>1, <2>1, <2>3, <2>4, <2>5
       DEF HeldRows, Progress, Settlements, HoldEnders, Matches, Core!Holding
  <2>8. \A table \in Tables, id \in Reservations \cup TicketTypes :
          Locks(x, table, id)' => Locks(x, table, id)
    BY <1>1, <2>3, <2>4 DEF Locks, RowOf
  <2>9. QED
    BY <1>1, <2>2, <2>3, <2>6, <2>7, <2>8, OneTransaction
<1>4. QED
  BY <1>2, <1>3

-----------------------------------------------------------------------------
(* Commits: the rows change, and the other transactions still find theirs. *)

\* What a commit of x, or a single statement (x is None), may do to the rows.
Moves(x) ==
  /\ \A r \in Reservations :
       /\ \/ order'[r] = order[r]
          \/ /\ ~LockedByAnother(x, "order", r)
             /\ order'[r] # "NONE"
             /\ order'[r] = "PENDING" => order[r] = "NONE"
       /\ \/ payment'[r] = payment[r]
          \/ ~LockedByAnother(x, "payment", r) /\ payment'[r] # "NONE"
       /\ \/ reservation'[r] = reservation[r]
          \/ /\ ~LockedByAnother(x, "reservation", r)
             /\ reservation'[r].status # "NONE"
             /\ reservation[r].status # "NONE" =>
                  /\ reservation'[r].status # "HOLDING"
                  /\ reservation'[r].ticketType = reservation[r].ticketType
                  /\ reservation'[r].quantity = reservation[r].quantity
  /\ \A t \in TicketTypes :
       remainingQuantity'[t] = remainingQuantity[t] \/ ~LockedByAnother(x, "ticketType", t)

\* Whatever another transaction has found stays as it found it.
LEMMA OthersKeepTheirRows ==
  ASSUME LockInv, NEW x \in Connections \cup {None}, Moves(x),
         NEW y \in Transactions, y # x, tx'[y] = tx[y]
  PROVE  Progress(y)' /\ Subjects(y)' /\ HeldRows(y)'
<1> DEFINE r == tx[y].booking
<1>1. Progress(y) /\ Subjects(y) /\ HeldRows(y) /\ y # CancelOrders /\ y \in Connections
  BY RowsAssumption DEF LockInv, Connections
<1>2. \A table \in tx[y].held : LockedByAnother(x, table, RowOf(y, table))
  BY <1>1 DEF LockedByAnother, Locks
<1>3. Progress(y)'
  BY <1>1 DEF Progress
<1>4. Subjects(y)'
  BY <1>1 DEF Subjects, Moves, Settlements, Kinds, HoldEnders
<1>5. HeldRows(y)'
  <2>1. CASE tx[y].kind \in {"none", "create"}
    BY <1>1, <1>2, <2>1 DEF HeldRows, Progress, Subjects, Moves, Settlements, RowOf
  <2>2. CASE tx[y].kind \notin {"none", "create"}
    <3>1. r \in Reservations
      BY <1>1, <2>2 DEF Subjects
    <3>2. /\ "payment" \in tx[y].held => payment'[r] = payment[r]
          /\ "order" \in tx[y].held => order'[r] = order[r]
          /\ "reservation" \in tx[y].held => reservation'[r] = reservation[r]
      BY <1>2, <3>1 DEF Moves, RowOf
    <3>3. tx[y].kind \in Settlements => order[r] # "NONE" /\ reservation[r].status # "NONE"
      BY <1>1, <3>1 DEF Subjects, LockInv, RowsAgree
    <3>4. CASE tx[y].kind = "settleFailure"
      <4>1. order[r] # "PENDING" => order'[r] # "PENDING"
        BY <3>1, <3>3, <3>4 DEF Moves, Settlements
      <4>2. reservation[r].status # "HOLDING" => reservation'[r].status # "HOLDING"
        BY <3>1, <3>3, <3>4 DEF Moves, Settlements
      <4>3. QED
        BY <1>1, <3>2, <3>4, <4>1, <4>2 DEF HeldRows, Settlements
    <3>5. CASE tx[y].kind # "settleFailure"
      BY <1>1, <2>2, <3>2, <3>5 DEF HeldRows
    <3>6. QED
      BY <3>4, <3>5
  <2>3. QED
    BY <2>1, <2>2
<1>6. QED
  BY <1>3, <1>4, <1>5

\* What has to be shown of a single statement.
LEMMA SingleRow ==
  ASSUME LockInv, Moves(None), UNCHANGED locking, RowLocksTypeOK', RowsAgree'
  PROVE  LockInv'
<1>1. \A y \in Transactions : Progress(y)' /\ Subjects(y)' /\ HeldRows(y)'
  BY RowsAssumption, OthersKeepTheirRows DEF Connections
<1>2. Exclusive'
  BY DEF LockInv, Exclusive, Locks, RowOf
<1>3. ASSUME NEW r \in ordersHeld  PROVE order'[r] = "PENDING"
  <2>1. r \in Reservations /\ order[r] = "PENDING"
    BY DEF LockInv, RowLocksTypeOK
  <2>2. LockedByAnother(None, "order", r)
    BY RowsAssumption DEF LockedByAnother, Locks, Connections
  <2>3. QED
    BY <2>1, <2>2 DEF Moves
<1>4. QED
  BY <1>1, <1>2, <1>3 DEF LockInv

\* A row that is inserted, or overwritten after the wait for its lock, is nobody's.
LEMMA SingleStatementInv ==
  ASSUME LockInv, NEW r \in Reservations, SingleStatement(r)
  PROVE  LockInv'
<1> USE DEF LockInv, RowLocksTypeOK, Core!OrderStatus, Core!PaymentStatus
<1>1. CASE InsertOrder(r)
  <2>1. Moves(None)
    <3>1. ~LockedByAnother(None, "order", r)
      <4> SUFFICES ASSUME NEW y \in Connections, Locks(y, "order", r)  PROVE FALSE
        BY DEF LockedByAnother
      <4>1. order[r] = "NONE"
        BY <1>1 DEF InsertOrder
      <4>2. CASE y = CancelOrders
        BY <4>1, <4>2 DEF Locks
      <4>3. CASE y # CancelOrders
        <5>1. y \in Transactions /\ "order" \in tx[y].held /\ tx[y].booking = r
          BY <4>3 DEF Locks, RowOf, Connections
        <5>2. tx[y].kind \in Settlements \cup {"refund"}
          BY <5>1 DEF Progress, TxRecords, Kinds
        <5>3. QED
          BY <4>1, <5>1, <5>2 DEF HeldRows
      <4>4. QED
        BY <4>2, <4>3
    <3>2. QED
      BY <1>1, <3>1 DEF InsertOrder, Moves
  <2>2. QED
    BY <1>1, <2>1, SingleRow DEF InsertOrder, RowsAgree
<1>2. CASE InsertPayment(r)
  <2>1. Moves(None)
    <3>1. ~LockedByAnother(None, "payment", r)
      <4> SUFFICES ASSUME NEW y \in Connections, Locks(y, "payment", r)  PROVE FALSE
        BY DEF LockedByAnother
      <4>1. payment[r] = "NONE"
        BY <1>2 DEF InsertPayment
      <4>2. y \in Transactions /\ "payment" \in tx[y].held /\ tx[y].booking = r
        BY DEF Locks, RowOf, Connections
      <4>3. Progress(y) /\ HeldRows(y)
        BY <4>2
      <4>4. CASE tx[y].kind \in Settlements
        BY <4>1, <4>2, <4>3, <4>4 DEF HeldRows
      <4>5. CASE tx[y].kind = "refund"
        BY <4>1, <4>2, <4>3, <4>5 DEF HeldRows, Progress, RowsAgree
      <4>6. tx[y].kind \in Settlements \cup {"refund"}
        BY <4>2, <4>3 DEF Progress, TxRecords, Kinds
      <4>7. QED
        BY <4>4, <4>5, <4>6
    <3>2. QED
      BY <1>2, <3>1 DEF InsertPayment, Moves
  <2>2. QED
    BY <1>2, <2>1, SingleRow DEF InsertPayment, RowsAgree
<1>3. CASE WriteCancelled(r)
  <2>1. Moves(None)
    BY <1>3 DEF WriteCancelled, Moves
  <2>2. QED
    BY <1>3, <2>1, SingleRow DEF WriteCancelled, RowsAgree
<1>4. QED
  BY <1>1, <1>2, <1>3 DEF SingleStatement

\* cancelPendingOrders keeps the orders it has locked pending until it commits.
LEMMA CancelOrdersInv ==
  ASSUME LockInv, CancelOrdersStep
  PROVE  LockInv'
<1> USE DEF LockInv, RowLocksTypeOK, Core!OrderStatus
<1>1. CASE BeginCancelOrders \/ RollbackCancelOrders \/ \E r \in Reservations : SkipOrder(r)
  <2>1. UNCHANGED <<tables, tx>> /\ ordersHeld' \subseteq ordersHeld
        /\ ordersLeft' \subseteq Reservations
    BY <1>1 DEF BeginCancelOrders, RollbackCancelOrders, SkipOrder
  <2>2. \A y \in Transactions : Progress(y)' /\ Subjects(y)' /\ HeldRows(y)'
    BY <2>1 DEF Progress, Subjects, HeldRows
  <2>3. Exclusive'
    BY <2>1 DEF Exclusive, Locks, RowOf
  <2>4. QED
    BY <2>1, <2>2, <2>3 DEF RowsAgree
<1>2. ASSUME NEW r \in Reservations, LockOrder(r)  PROVE LockInv'
  <2>1. UNCHANGED <<tables, tx>> /\ ordersHeld' = ordersHeld \cup {r} /\ order[r] = "PENDING"
        /\ ~LockedByAnother(CancelOrders, "order", r) /\ ordersLeft' \subseteq Reservations
    BY <1>2 DEF LockOrder
  <2>2. \A y \in Transactions : Progress(y)' /\ Subjects(y)' /\ HeldRows(y)'
    BY <2>1 DEF Progress, Subjects, HeldRows
  <2>3. Exclusive'
    <3>1. \A y \in Connections, table \in Tables, id \in Reservations \cup TicketTypes :
            Locks(y, table, id)' =>
              \/ Locks(y, table, id)
              \/ y = CancelOrders /\ table = "order" /\ id = r
      BY <2>1 DEF Locks, RowOf
    <3> SUFFICES ASSUME NEW y \in Connections, NEW z \in Connections, NEW table \in Tables,
                        NEW id \in Reservations \cup TicketTypes,
                        Locks(y, table, id)', Locks(z, table, id)', y # z
                 PROVE  FALSE
      BY DEF Exclusive, Connections, Tables
    <3>2. CASE Locks(y, table, id) /\ Locks(z, table, id)
      BY <3>2 DEF Exclusive
    <3>3. CASE ~Locks(y, table, id)
      <4>1. y = CancelOrders /\ table = "order" /\ id = r /\ Locks(z, table, id)
        BY <3>1, <3>3
      <4>2. QED
        BY <2>1, <4>1 DEF LockedByAnother
    <3>4. CASE ~Locks(z, table, id)
      <4>1. z = CancelOrders /\ table = "order" /\ id = r /\ Locks(y, table, id)
        BY <3>1, <3>4
      <4>2. QED
        BY <2>1, <4>1 DEF LockedByAnother
    <3>5. QED
      BY <3>2, <3>3, <3>4
  <2>4. QED
    BY <2>1, <2>2, <2>3 DEF RowsAgree
<1>3. CASE CommitCancelOrders
  <2>1. /\ order' = [r \in Reservations |-> IF r \in ordersHeld THEN "CANCELLED" ELSE order[r]]
        /\ ordersHeld' = {} /\ UNCHANGED <<stock, reservation, payment, tx, ordersLeft>>
    BY <1>3 DEF CommitCancelOrders
  <2>2. Moves(CancelOrders)
    <3> SUFFICES ASSUME NEW r \in ordersHeld  PROVE ~LockedByAnother(CancelOrders, "order", r)
      BY <2>1 DEF Moves
    <3>1. Locks(CancelOrders, "order", r) /\ r \in Reservations
      BY DEF Locks
    <3>2. Exclusive
      OBVIOUS
    <3> HIDE DEF LockInv
    <3>3. QED
      BY <3>1, <3>2 DEF LockedByAnother, Exclusive, Tables, Connections
  <2>3. \A y \in Transactions : Progress(y)' /\ Subjects(y)' /\ HeldRows(y)'
    BY <2>1, <2>2, RowsAssumption, OthersKeepTheirRows DEF Connections
  <2>4. Exclusive'
    BY <2>1 DEF Exclusive, Locks, RowOf
  <2>5. RowLocksTypeOK'
    BY <2>1
  <2>6. QED
    BY <2>1, <2>3, <2>4, <2>5 DEF RowsAgree
<1>4. QED
  BY <1>1, <1>2, <1>3 DEF CancelOrdersStep

\* The whole transaction is over: what it holds and what it writes.
LEMMA CommitHolds ==
  ASSUME LockInv, NEW x \in Transactions, Commit(x)
  PROVE  /\ tx[x] \in TxRecords
         /\ tx[x].kind \in Kinds
         /\ tx[x].booking \in Reservations
         /\ tx[x].next = "commit"
         /\ Progress(x) /\ Subjects(x) /\ HeldRows(x)
         /\ \A table \in tx[x].held : ~LockedByAnother(x, table, RowOf(x, table))
<1>1. /\ tx[x] \in TxRecords /\ tx[x].kind \in Kinds /\ tx[x].next = "commit"
      /\ Progress(x) /\ Subjects(x) /\ HeldRows(x)
  BY DEF LockInv, RowLocksTypeOK, Commit, IsOpen, TxRecords
<1>2. tx[x].booking \in Reservations
  BY <1>1 DEF Subjects, Kinds, Settlements, HoldEnders
<1>3. ASSUME NEW table \in tx[x].held  PROVE ~LockedByAnother(x, table, RowOf(x, table))
  <2>1. Locks(x, table, RowOf(x, table)) /\ table \in Tables
    BY <1>1, RowsAssumption DEF Locks, TxRecords
  <2>2. RowOf(x, table) \in Reservations \cup TicketTypes
    <3>1. CASE table = "ticketType"
      BY <1>1, <1>2, <3>1
         DEF RowOf, Subjects, LockInv, RowsAgree, Kinds, Settlements, HoldEnders
    <3>2. CASE table # "ticketType"
      BY <1>2, <3>2 DEF RowOf
    <3>3. QED
      BY <3>1, <3>2
  <2>3. QED
    BY <2>1, <2>2 DEF LockInv, Exclusive, LockedByAnother, Connections
<1>4. QED
  BY <1>1, <1>2, <1>3

\* A commit is the step of Booking or EventCancellation that it implements.
LEMMA CommitIsAtomic ==
  ASSUME LockInv, NEW x \in Transactions, Commit(x)
  PROVE  AtomicStep
<1> DEFINE r == tx[x].booking
           t == tx[x].ticketType
           n == tx[x].quantity
<1> USE DEF Settlements, HoldEnders
<1>1. /\ tx[x] \in TxRecords /\ tx[x].kind \in Kinds /\ r \in Reservations
      /\ tx[x].next = "commit" /\ Progress(x) /\ Subjects(x) /\ HeldRows(x)
  BY CommitHolds
<1>2. reservation \in [Reservations -> [status: Core!ReservationStatus,
                                        ticketType: TicketTypes \cup {None},
                                        quantity: Nat]]
  BY DEF LockInv, RowLocksTypeOK
<1>3. ASSUME NEW s, tx[x].kind # "create"
      PROVE  [reservation EXCEPT ![r] = [status |-> s, ticketType |-> t, quantity |-> n]]
               = [reservation EXCEPT ![r].status = s]
  BY <1>1, <1>2, <1>3 DEF Subjects, Kinds
<1>4. CASE tx[x].kind = "settleSuccess"
  <2>1. "payment" \in tx[x].held /\ "order" \in tx[x].held /\ "reservation" \in tx[x].held
        /\ "ticketType" \notin tx[x].held
    BY <1>1, <1>4 DEF Progress
  <2>2. Core!SettleSuccess(r)
    BY <1>1, <1>3, <1>4, <2>1
       DEF Commit, Written, Versioned, HeldRows, Core!SettleSuccess, Core!CanSettle,
           Core!Holding, Core!SetReservation, Core!stock
  <2>3. QED
    BY <1>1, <2>2 DEF AtomicStep
<1>5. CASE tx[x].kind = "settleFailure"
  <2>1. "payment" \in tx[x].held /\ payment[r] = "PENDING"
    BY <1>1, <1>5 DEF Progress, HeldRows
  <2>2. payment' = [payment EXCEPT ![r] = "FAILED"]
    BY <1>5, <2>1 DEF Commit, Written
  <2>3. order' = [order EXCEPT ![r] = IF @ = "PENDING" THEN "CANCELLED" ELSE @]
    <3>1. CASE "order" \in tx[x].held
      BY <1>1, <1>5, <3>1 DEF Commit, Written, HeldRows, LockInv, RowLocksTypeOK
    <3>2. CASE "order" \notin tx[x].held
      BY <1>1, <1>5, <3>2 DEF Commit, Written, HeldRows, LockInv, RowLocksTypeOK
    <3>3. QED
      BY <3>1, <3>2
  <2>4. CASE "reservation" \in tx[x].held
    <3>1. "ticketType" \in tx[x].held /\ Core!Holding(r)
      BY <1>1, <1>5, <2>4 DEF Progress, HeldRows, Core!Holding
    <3>2. Core!SetReservation(r, "CANCELLED")
      BY <1>3, <1>5, <2>4 DEF Commit, Written, Core!SetReservation
    <3>3. Core!RestockUnversioned(r)
      BY <1>1, <1>5, <3>1 DEF Commit, MoveSeats, Versioned, Subjects, Core!RestockUnversioned
    <3>4. Core!SettleFailure(r)
      BY <2>1, <2>2, <2>3, <3>1, <3>2, <3>3 DEF Core!SettleFailure
    <3>5. QED
      BY <1>1, <3>4 DEF AtomicStep
  <2>5. CASE "reservation" \notin tx[x].held
    <3>1. "ticketType" \notin tx[x].held /\ ~Core!Holding(r)
      BY <1>1, <1>5, <2>5 DEF Progress, HeldRows, Core!Holding
    <3>2. UNCHANGED <<stock, reservation>>
      BY <1>5, <2>5, <3>1 DEF Commit
    <3>3. Core!SettleFailure(r)
      BY <2>1, <2>2, <2>3, <3>1, <3>2 DEF Core!SettleFailure, Core!stock
    <3>4. QED
      BY <1>1, <3>3 DEF AtomicStep
  <2>6. QED
    BY <2>4, <2>5
<1>6. CASE tx[x].kind \in HoldEnders
  <2>1. "payment" \notin tx[x].held /\ "order" \notin tx[x].held
        /\ "reservation" \in tx[x].held /\ "ticketType" \in tx[x].held
    BY <1>1, <1>6 DEF Progress
  <2>2. Core!Holding(r) /\ UNCHANGED <<order, payment>>
    BY <1>1, <1>6, <2>1 DEF Commit, HeldRows, Core!Holding
  <2>3. Core!SetReservation(r, Written(tx[x].kind, "reservation"))
    BY <1>3, <1>6, <2>1 DEF Commit, Core!SetReservation
  <2>4. CASE tx[x].kind = "cancelHold"
    <3>1. Core!RestockUnversioned(r)
      BY <1>1, <2>1, <2>4 DEF Commit, MoveSeats, Versioned, Subjects, Core!RestockUnversioned
    <3>2. HoldCancelledByJob(r)
      BY <2>2, <2>3, <2>4, <3>1 DEF HoldCancelledByJob, Written
    <3>3. QED
      BY <1>1, <3>2 DEF AtomicStep
  <2>5. CASE tx[x].kind \in {"expire", "release"}
    <3>1. Core!Restock(r)
      BY <1>1, <2>1, <2>5 DEF Commit, MoveSeats, Versioned, Subjects, Core!Restock
    <3>2. Core!EndHold(r, "EXPIRED") \/ Core!EndHold(r, "CANCELLED")
      BY <2>2, <2>3, <2>5, <3>1 DEF Core!EndHold, Written
    <3>3. QED
      BY <1>1, <3>2 DEF AtomicStep
  <2>6. QED
    BY <1>6, <2>4, <2>5
<1>7. CASE tx[x].kind = "refund"
  <2>1. "payment" \in tx[x].held /\ "order" \in tx[x].held
        /\ "reservation" \notin tx[x].held /\ "ticketType" \notin tx[x].held
    BY <1>1, <1>7 DEF Progress
  <2>2. SaleRefunded(r)
    BY <1>1, <1>7, <2>1 DEF Commit, Written, HeldRows, SaleRefunded
  <2>3. QED
    BY <1>1, <2>2 DEF AtomicStep
<1>8. CASE tx[x].kind = "create"
  <2>1. "payment" \notin tx[x].held /\ "order" \notin tx[x].held
        /\ "reservation" \in tx[x].held /\ "ticketType" \in tx[x].held
        /\ t \in TicketTypes /\ n \in Quantities
    BY <1>1, <1>8 DEF Progress, Subjects
  <2>2. Core!Fits(t, n) /\ reservation[r].status = "NONE"
    <3>1. n <= remainingQuantity[t] /\ remainingQuantity[t] \in Nat /\ n \in Nat
      BY <1>1, <1>8, <2>1, RowsAssumption DEF HeldRows, LockInv, RowLocksTypeOK
    <3>2. QED
      BY <1>1, <1>8, <2>1, <3>1 DEF HeldRows, Core!Fits
  <2>3. NewHold(r)
    BY <1>8, <2>1, <2>2 DEF Commit, Written, MoveSeats, Versioned, NewHold
  <2>4. QED
    BY <1>1, <2>3 DEF AtomicStep
<1>9. QED
  BY <1>1, <1>4, <1>5, <1>6, <1>7, <1>8 DEF Kinds

\* A commit changes its own rows only, to statuses that fit together.
LEMMA CommitInv ==
  ASSUME LockInv, NEW x \in Transactions, Commit(x)
  PROVE  LockInv'
<1> DEFINE r == tx[x].booking
           t == tx[x].ticketType
           n == tx[x].quantity
<1> USE DEF Settlements, HoldEnders, RowLocksTypeOK
<1>1. /\ tx[x] \in TxRecords /\ tx[x].kind \in Kinds /\ r \in Reservations
      /\ tx[x].next = "commit" /\ Progress(x) /\ Subjects(x) /\ HeldRows(x)
      /\ \A table \in tx[x].held : ~LockedByAnother(x, table, RowOf(x, table))
  BY CommitHolds
<1>2. RowLocksTypeOK /\ RowsAgree
  BY DEF LockInv
<1>3. t \in TicketTypes /\ n \in Nat
  <2>1. CASE tx[x].kind = "create"
    BY <1>1, <2>1, RowsAssumption DEF Subjects
  <2>2. CASE tx[x].kind # "create"
    BY <1>1, <1>2, <2>2 DEF Subjects, RowsAgree, Kinds, TxRecords
  <2>3. QED
    BY <2>1, <2>2
<1>4. /\ payment' = IF "payment" \in tx[x].held
                    THEN [payment EXCEPT ![r] = Written(tx[x].kind, "payment")] ELSE payment
      /\ order' = IF "order" \in tx[x].held
                  THEN [order EXCEPT ![r] = Written(tx[x].kind, "order")] ELSE order
      /\ reservation' = IF "reservation" \in tx[x].held
                        THEN [reservation EXCEPT
                                ![r] = [status |-> Written(tx[x].kind, "reservation"),
                                        ticketType |-> t, quantity |-> n]]
                        ELSE reservation
      /\ IF "ticketType" \in tx[x].held THEN MoveSeats(x) ELSE UNCHANGED remainingQuantity
      /\ version' = IF "ticketType" \in tx[x].held /\ Versioned(tx[x].kind)
                    THEN [version EXCEPT ![t] = @ + 1] ELSE version
      /\ tx' = [tx EXCEPT ![x] = Closed]
      /\ UNCHANGED <<totalQuantity, ordersLeft, ordersHeld>>
  BY DEF Commit, Close
<1>5. /\ \A s \in Reservations \ {r} : /\ payment'[s] = payment[s] /\ order'[s] = order[s]
                                       /\ reservation'[s] = reservation[s]
      /\ "payment" \in tx[x].held => payment'[r] = Written(tx[x].kind, "payment")
      /\ "payment" \notin tx[x].held => payment'[r] = payment[r]
      /\ "order" \in tx[x].held => order'[r] = Written(tx[x].kind, "order")
      /\ "order" \notin tx[x].held => order'[r] = order[r]
      /\ "reservation" \in tx[x].held =>
           reservation'[r] = [status |-> Written(tx[x].kind, "reservation"),
                              ticketType |-> t, quantity |-> n]
      /\ "reservation" \notin tx[x].held => reservation'[r] = reservation[r]
  BY <1>1, <1>2, <1>4
<1>6. /\ remainingQuantity' \in [TicketTypes -> Nat]
      /\ \A u \in TicketTypes \ {t} : remainingQuantity'[u] = remainingQuantity[u]
      /\ "ticketType" \notin tx[x].held => remainingQuantity'[t] = remainingQuantity[t]
  <2>1. CASE "ticketType" \notin tx[x].held
    BY <1>2, <1>4, <2>1
  <2>2. CASE "ticketType" \in tx[x].held
    <3>1. tx[x].kind = "create" => n <= remainingQuantity[t]
      BY <1>1, <2>2 DEF HeldRows
    <3>2. QED
      BY <1>2, <1>3, <1>4, <2>2, <3>1 DEF MoveSeats
  <2>3. QED
    BY <2>1, <2>2
<1>7. RowLocksTypeOK'
  <2>1. version' \in [TicketTypes -> Nat]
    BY <1>2, <1>3, <1>4
  <2>2. payment' \in [Reservations -> Core!PaymentStatus]
    BY <1>1, <1>2, <1>4 DEF Written, Progress, Kinds, Core!PaymentStatus
  <2>3. order' \in [Reservations -> Core!OrderStatus]
    BY <1>1, <1>2, <1>4 DEF Written, Progress, Kinds, Core!OrderStatus
  <2>4. reservation' \in [Reservations -> [status: Core!ReservationStatus,
                                           ticketType: TicketTypes \cup {None},
                                           quantity: Nat]]
    <3>1. "reservation" \in tx[x].held => Written(tx[x].kind, "reservation") \in Core!ReservationStatus
      BY <1>1 DEF Written, Progress, Kinds, Core!ReservationStatus
    <3>2. QED
      BY <1>1, <1>2, <1>3, <1>4, <3>1
  <2>5. Closed \in TxRecords
    BY DEF Closed, TxRecords
  <2>6. QED
    BY <1>2, <1>4, <1>6, <2>1, <2>2, <2>3, <2>4, <2>5
<1>8. RowsAgree'
  <2> SUFFICES ASSUME NEW s \in Reservations
               PROVE  /\ payment'[s] # "NONE" => order'[s] # "NONE"
                      /\ order'[s] # "NONE" => reservation'[s].status # "NONE"
                      /\ order'[s] = "PAID" => payment'[s] = "PAID"
                      /\ reservation'[s].status # "NONE" => reservation'[s].ticketType \in TicketTypes
    BY DEF RowsAgree
  <2>1. CASE s # r
    BY <1>2, <1>5, <2>1 DEF RowsAgree
  <2>2. CASE s = r
    <3>1. CASE tx[x].kind = "settleSuccess"
      BY <1>1, <1>3, <1>5, <2>2, <3>1 DEF Progress, Written
    <3>2. CASE tx[x].kind = "settleFailure"
      <4>1. payment[r] = "PENDING" /\ payment'[r] = "FAILED" /\ order[r] # "NONE"
        BY <1>1, <1>2, <1>5, <3>2 DEF Progress, Written, HeldRows, RowsAgree
      <4>2. order'[r] \in {"CANCELLED", order[r]} /\ order'[r] # "PAID"
        BY <1>1, <1>2, <1>5, <3>2, <4>1 DEF Written, RowsAgree
      <4>3. reservation'[r].status \in {"CANCELLED", reservation[r].status}
            /\ reservation'[r].ticketType \in {t, reservation[r].ticketType}
        BY <1>5, <3>2 DEF Written
      <4>4. reservation[r].status # "NONE" /\ reservation[r].ticketType = t
        BY <1>1, <3>2 DEF Subjects
      <4>5. QED
        BY <1>3, <2>2, <4>1, <4>2, <4>3, <4>4
    <3>3. CASE tx[x].kind \in HoldEnders
      <4>1. payment'[r] = payment[r] /\ order'[r] = order[r]
            /\ reservation'[r].status # "NONE" /\ reservation'[r].ticketType = t
        BY <1>1, <1>5, <3>3 DEF Progress, Written
      <4>2. QED
        BY <1>1, <1>2, <1>3, <2>2, <4>1 DEF RowsAgree
    <3>4. CASE tx[x].kind = "refund"
      <4>1. payment'[r] = "REFUNDED" /\ order'[r] = "REFUNDED" /\ reservation'[r] = reservation[r]
            /\ order[r] = "PAID"
        BY <1>1, <1>5, <3>4 DEF Progress, Written, HeldRows
      <4>2. QED
        BY <1>1, <1>2, <2>2, <4>1 DEF RowsAgree
    <3>5. CASE tx[x].kind = "create"
      <4>1. payment'[r] = payment[r] /\ order'[r] = order[r]
            /\ reservation'[r].status = "HOLDING" /\ reservation'[r].ticketType = t
        BY <1>1, <1>5, <3>5 DEF Progress, Written
      <4>2. QED
        BY <1>1, <1>2, <1>3, <2>2, <4>1 DEF RowsAgree
    <3>6. QED
      BY <1>1, <3>1, <3>2, <3>3, <3>4, <3>5 DEF Kinds
  <2>3. QED
    BY <2>1, <2>2
<1>9. Moves(x)
  <2>1. \A u \in TicketTypes :
          remainingQuantity'[u] = remainingQuantity[u] \/ ~LockedByAnother(x, "ticketType", u)
    BY <1>1, <1>6 DEF RowOf
  <2>2. \/ order'[r] = order[r]
        \/ ~LockedByAnother(x, "order", r) /\ order'[r] \notin {"NONE", "PENDING"}
    BY <1>1, <1>5 DEF RowOf, Written, Progress, Kinds
  <2>3. \/ payment'[r] = payment[r]
        \/ ~LockedByAnother(x, "payment", r) /\ payment'[r] # "NONE"
    BY <1>1, <1>5 DEF RowOf, Written, Progress, Kinds
  <2>4. \/ reservation'[r] = reservation[r]
        \/ /\ ~LockedByAnother(x, "reservation", r)
           /\ reservation'[r].status # "NONE"
           /\ reservation[r].status # "NONE" =>
                /\ reservation'[r].status # "HOLDING"
                /\ reservation'[r].ticketType = reservation[r].ticketType
                /\ reservation'[r].quantity = reservation[r].quantity
    <3>1. CASE "reservation" \notin tx[x].held
      BY <1>5, <3>1
    <3>2. CASE "reservation" \in tx[x].held
      <4>1. ~LockedByAnother(x, "reservation", r)
        BY <1>1, <3>2 DEF RowOf
      <4>2. reservation'[r].status = Written(tx[x].kind, "reservation")
            /\ reservation'[r].ticketType = t /\ reservation'[r].quantity = n
        BY <1>5, <3>2
      <4>3. tx[x].kind = "create" => reservation[r].status = "NONE"
        BY <1>1, <3>2 DEF HeldRows
      <4>4. tx[x].kind # "create" =>
              reservation[r].ticketType = t /\ reservation[r].quantity = n
        BY <1>1 DEF Subjects, Kinds
      <4>5. /\ Written(tx[x].kind, "reservation") # "NONE"
            /\ tx[x].kind # "create" => Written(tx[x].kind, "reservation") # "HOLDING"
        BY <1>1 DEF Written, Kinds
      <4>6. QED
        BY <4>1, <4>2, <4>3, <4>4, <4>5
    <3>3. QED
      BY <3>1, <3>2
  <2>5. QED
    BY <1>5, <2>1, <2>2, <2>3, <2>4 DEF Moves
<1>10. \A y \in Transactions : Progress(y)' /\ Subjects(y)' /\ HeldRows(y)'
  <2> TAKE y \in Transactions
  <2>1. CASE y = x
    <3>1. tx'[y] = Closed
      BY <1>2, <1>4, <2>1
    <3>2. QED
      BY <3>1 DEF Closed, Progress, Subjects, HeldRows
  <2>2. CASE y # x
    <3>1. tx'[y] = tx[y]
      BY <1>2, <1>4, <2>2
    <3>2. QED
      BY <1>9, <2>2, <3>1, OthersKeepTheirRows DEF Connections
  <2>3. QED
    BY <2>1, <2>2
<1>11. Exclusive'
  <2>1. \A y \in Connections : \A table, id : Locks(y, table, id)' => Locks(y, table, id)
    BY <1>2, <1>4 DEF Locks, RowOf, Closed, Connections
  <2>2. Exclusive
    BY DEF LockInv
  <2>3. QED
    BY <2>1, <2>2 DEF Exclusive, Connections, Tables
<1>12. ASSUME NEW s \in ordersHeld'  PROVE order'[s] = "PENDING"
  <2>1. s \in Reservations /\ order[s] = "PENDING" /\ s \in ordersHeld
    BY <1>2, <1>4 DEF LockInv
  <2>2. LockedByAnother(x, "order", s)
    BY <2>1, RowsAssumption DEF LockedByAnother, Locks, Connections
  <2>3. QED
    BY <1>9, <2>1, <2>2 DEF Moves
<1>13. QED
  BY <1>7, <1>8, <1>10, <1>11, <1>12 DEF LockInv

-----------------------------------------------------------------------------
(* The theorems. *)

\* Every step of a connection keeps the invariant.
LEMMA LockInvStep == LockInv /\ [Next]_rowVars => LockInv'
<1> SUFFICES ASSUME LockInv, [Next]_rowVars  PROVE LockInv'
  OBVIOUS
<1>1. ASSUME NEW x \in Transactions, TransactionStep(x)  PROVE LockInv'
  <2>1. CASE Rollback(x)
    BY <2>1, CloseInv DEF Rollback
  <2>2. QED
    BY <1>1, <2>1, BeginInv, BeginCreateInv, UpdateInv, InsertInv, MissInv, CommitInv
       DEF TransactionStep
<1>2. ASSUME NEW r \in Reservations, SingleStatement(r)  PROVE LockInv'
  BY <1>2, SingleStatementInv
<1>3. CASE CancelOrdersStep
  BY <1>3, CancelOrdersInv
<1>4. CASE UNCHANGED rowVars
  <2>1. UNCHANGED <<tables, tx, ordersLeft, ordersHeld>>
    BY <1>4 DEF rowVars
  <2>2. \A y \in Transactions : Progress(y)' /\ Subjects(y)' /\ HeldRows(y)'
    BY <2>1 DEF LockInv, Progress, Subjects, HeldRows
  <2>3. Exclusive'
    BY <2>1 DEF LockInv, Exclusive, Locks, RowOf
  <2>4. RowLocksTypeOK' /\ RowsAgree'
    BY <2>1 DEF LockInv, RowLocksTypeOK, RowsAgree
  <2>5. QED
    BY <2>1, <2>2, <2>3, <2>4 DEF LockInv
<1>5. QED
  BY <1>1, <1>2, <1>3, <1>4 DEF Next

\* The rows keep their types, locks are exclusive, and a locked row stays as its
\* WHERE clause found it.
THEOREM LocksProtectRows == Spec => []LockInv
  BY LockInit, LockInvStep, PTL DEF Spec

\* For any number of transactions of any kind in any order: no set of them, with
\* or without the job's update of all pending orders, waits in a circle.
THEOREM NeverDeadlocked == Spec => [](RowLocksTypeOK /\ NoDeadlock)
<1>1. LockInv => RowLocksTypeOK /\ NoDeadlock
  BY NobodyWaitsInACircle DEF LockInv
<1>2. QED
  BY <1>1, LocksProtectRows, PTL

\* Every step of a connection is a stutter for the tables or an atomic step.
LEMMA StepIsAtomic == LockInv /\ [Next]_rowVars => [AtomicStep]_tables
<1> SUFFICES ASSUME LockInv, [Next]_rowVars, ~UNCHANGED tables
             PROVE  AtomicStep
  OBVIOUS
<1>1. ASSUME NEW x \in Transactions, TransactionStep(x)  PROVE AtomicStep
  BY <1>1, CommitIsAtomic
     DEF TransactionStep, Begin, BeginCreate, Update, Insert, Miss, Rollback
<1>2. ASSUME NEW r \in Reservations, SingleStatement(r)  PROVE AtomicStep
  <2>1. order \in [Reservations -> Core!OrderStatus]
    BY DEF LockInv, RowLocksTypeOK
  <2>2. CASE InsertOrder(r)
    BY <2>1, <2>2 DEF InsertOrder, AtomicStep, OrderBecomes
  <2>3. CASE InsertPayment(r)
    BY <2>3 DEF InsertPayment, AtomicStep, PaymentCreated
  <2>4. CASE WriteCancelled(r)
    BY <2>1, <2>4 DEF WriteCancelled, AtomicStep, OrderBecomes
  <2>5. QED
    BY <1>2, <2>2, <2>3, <2>4 DEF SingleStatement
<1>3. CASE CancelOrdersStep
  <2>1. CommitCancelOrders
    BY <1>3 DEF CancelOrdersStep, BeginCancelOrders, LockOrder, SkipOrder, RollbackCancelOrders
  <2>2. ordersHeld \in SUBSET {r \in Reservations : order[r] = "PENDING"}
    BY DEF LockInv, RowLocksTypeOK
  <2>3. QED
    BY <2>1, <2>2 DEF CommitCancelOrders, AtomicStep, OrderBecomes
<1>4. QED
  BY <1>1, <1>2, <1>3 DEF Next, rowVars

\* What Booking and EventCancellation take for one step each is one step each,
\* for any number of transactions that run at once.
THEOREM TransactionsLookAtomic == Spec => TransactionsAreAtomic
  BY StepIsAtomic, LocksProtectRows, PTL DEF Spec, TransactionsAreAtomic

-----------------------------------------------------------------------------
(* The tables of Booking under the transactions.  The lemmas about seats   *)
(* are those of BookingProofs: an atomic step moves seats as a handler of  *)
(* Booking does.                                                           *)

B == INSTANCE BookingProofs WITH
    Requests <- {}, lapsed <- {}, overdue <- {}, request <- [q \in {} |-> Closed],
    expireJob <- [r \in Reservations |-> "none"],
    paymentJob <- [r \in Reservations |-> "none"]

\* The constants are fit for Booking.
LEMMA BookingAssumptions == B!CapacityAssumption /\ B!QuantityAssumption /\ B!NoneAssumption
  BY RowsAssumption DEF B!CapacityAssumption, B!QuantityAssumption, B!NoneAssumption

\* The committed rows are rows of Booking.
LEMMA TablesFit == LockInv => B!TypeOK /\ B!WellFormed
<1> SUFFICES ASSUME LockInv  PROVE B!TypeOK /\ B!WellFormed
  OBVIOUS
<1>1. B!TypeOK
  BY DEF LockInv, RowLocksTypeOK, B!TypeOK, Core!ReservationStatus, Core!OrderStatus,
         Core!PaymentStatus, B!ReservationStatus, B!OrderStatus, B!PaymentStatus,
         B!ExpireJobState, B!PaymentJobState
<1>2. B!WellFormed
  BY DEF LockInv, RowsAgree, B!WellFormed, B!RowsExist, B!HandlersFit
<1>3. QED
  BY <1>1, <1>2

\* The refinement mapping of one instance is that of the other.
LEMMA SameMapping ==
  /\ B!claimed = Core!claimed /\ (B!claimed)' = (Core!claimed)'
  /\ B!captured = Core!captured /\ (B!captured)' = (Core!captured)'
  BY DEF B!claimed, Core!claimed, B!captured, Core!captured,
         B!ClaimStatus, Core!ClaimStatus, B!MoneyStatus, Core!MoneyStatus

\* Each instance has a copy of its own of the library's operator.
LEMMA SameCardinality ==
  ASSUME NEW S
  PROVE  /\ B!Cardinality(S) = Core!Cardinality(S)
         /\ B!Ledger!Cardinality(S) = Core!Ledger!Cardinality(S)
<1>1. B!Cardinality(S) = Core!Cardinality(S)
  BY Zenon DEF B!Cardinality, Core!Cardinality
<1>2. B!Ledger!Cardinality(S) = Core!Ledger!Cardinality(S)
  BY Zenon DEF B!Ledger!Cardinality, Core!Ledger!Cardinality
<1>3. QED
  BY <1>1, <1>2

\* So the ledger of one is the ledger of the other.
LEMMA SameLedger ==
  /\ B!Ledger!Init => Core!Ledger!Init
  /\ B!Ledger!Next => Core!Ledger!Next
  /\ UNCHANGED B!Ledger!vars => UNCHANGED Core!Ledger!vars
<1>1. B!Ledger!Init => Core!Ledger!Init
  BY SameMapping DEF B!Ledger!Init, Core!Ledger!Init
<1>2. ASSUME NEW t  PROVE B!Ledger!Claimed(t) = Core!Ledger!Claimed(t)
  BY SameMapping DEF B!Ledger!Claimed, Core!Ledger!Claimed
<1>3. B!Ledger!Next => Core!Ledger!Next
  BY <1>2, SameMapping, SameCardinality
     DEF B!Ledger!Next, B!Ledger!Hold, B!Ledger!Release, B!Ledger!Sell, B!Ledger!Refund,
         B!Ledger!Resize, Core!Ledger!Next, Core!Ledger!Hold, Core!Ledger!Release,
         Core!Ledger!Sell, Core!Ledger!Refund, Core!Ledger!Resize
<1>4. UNCHANGED B!Ledger!vars => UNCHANGED Core!Ledger!vars
  BY SameMapping DEF B!Ledger!vars, Core!Ledger!vars
<1>5. QED
  BY <1>1, <1>3, <1>4

\* An atomic step moves seats as a handler of Booking does.
LEMMA SeatsOfAtomicStep ==
  ASSUME LockInv, B!SeatsInvariant, AtomicStep
  PROVE  B!SeatsInvariant' /\ (B!Ledger!Next \/ UNCHANGED B!Ledger!vars)
<1> USE BookingAssumptions
<1>0. B!TypeOK /\ B!WellFormed /\ B!NothingOversold
  BY TablesFit, B!ConservedIsEnough
<1>U. ASSUME UNCHANGED <<stock, reservation>>  PROVE B!SeatsInvariant'
  <2>1. UNCHANGED <<B!stock, reservation>>
    BY <1>U DEF B!stock
  <2>2. QED
    BY <2>1, B!SeatsUnchanged
<1>1. ASSUME NEW S \in SUBSET Reservations, NEW status \in {"PENDING", "CANCELLED"},
             OrderBecomes(S, status)
      PROVE  B!SeatsInvariant' /\ UNCHANGED B!Ledger!vars
  BY <1>1, <1>U
     DEF OrderBecomes, B!Ledger!vars, B!claimed, B!captured
<1>2. ASSUME NEW r \in Reservations, NewHold(r)
      PROVE  B!SeatsInvariant' /\ B!Ledger!Next
  <2>1. PICK t \in TicketTypes, n \in Quantities : B!TakeSeats(r, t, n)
    BY <1>2 DEF NewHold, B!TakeSeats, B!Fits, Core!Fits
  <2>2. QED
    BY <1>0, <2>1, B!SeatsOfHold, B!HoldIsLedgerHold
<1>3. ASSUME NEW r \in Reservations, NEW status \in {"EXPIRED", "CANCELLED"},
             Core!Holding(r), Core!SetReservation(r, status),
             Core!Restock(r) \/ Core!RestockUnversioned(r), UNCHANGED B!captured
      PROVE  B!SeatsInvariant' /\ B!Ledger!Next
  <2>1. /\ B!Holding(r) /\ B!SetReservation(r, status)
        /\ B!Restock(r) \/ B!RestockUnversioned(r)
        /\ UNCHANGED totalQuantity
    BY <1>3 DEF B!Holding, B!SetReservation, B!Restock, B!RestockUnversioned,
                Core!Holding, Core!SetReservation, Core!Restock, Core!RestockUnversioned
  <2>2. QED
    BY <1>0, <1>3, <2>1, B!SeatsOfEnd, B!EndIsLedgerRelease
<1>4. ASSUME NEW r \in Reservations, Core!SettleSuccess(r)
      PROVE  B!SeatsInvariant' /\ B!Ledger!Next
  <2>1. B!SettleSuccess(r)
    BY <1>4 DEF B!SettleSuccess, B!CanSettle, B!Holding, B!SetReservation, B!stock,
                Core!SettleSuccess, Core!CanSettle, Core!Holding, Core!SetReservation, Core!stock
  <2>2. QED
    BY <1>0, <2>1, B!SeatsOfSale, B!SettleIsLedgerSell
<1>5. ASSUME NEW r \in Reservations, Core!SettleFailure(r)
      PROVE  B!SeatsInvariant' /\ (B!Ledger!Next \/ UNCHANGED B!Ledger!vars)
  <2>1. UNCHANGED B!captured
    <3>1. B!SettleFailure(r)
      BY <1>5 DEF B!SettleFailure, B!Holding, B!SetReservation, B!RestockUnversioned, B!stock,
                  Core!SettleFailure, Core!Holding, Core!SetReservation,
                  Core!RestockUnversioned, Core!stock
    <3>2. QED
      BY <1>0, <3>1, B!FailureIsNoMoney
  <2>2. CASE Core!Holding(r)
    BY <1>3, <1>5, <2>1, <2>2 DEF Core!SettleFailure
  <2>3. CASE ~Core!Holding(r)
    <3>1. UNCHANGED <<stock, reservation>>
      BY <1>5, <2>3 DEF Core!SettleFailure, Core!stock
    <3>2. QED
      BY <2>1, <3>1, <1>U DEF B!Ledger!vars, B!claimed
  <2>4. QED
    BY <2>2, <2>3
<1>6. ASSUME NEW r \in Reservations, SaleRefunded(r)
      PROVE  B!SeatsInvariant' /\ B!Ledger!Next
  <2>1. payment[r] = "PAID" /\ payment \in [Reservations -> Core!PaymentStatus]
    BY <1>6 DEF SaleRefunded, LockInv, RowsAgree, RowLocksTypeOK
  <2>2. B!captured[r] = "captured" /\ (B!captured)' = [B!captured EXCEPT ![r] = "refunded"]
    BY <1>6, <2>1 DEF SaleRefunded, B!captured, B!MoneyStatus
  <2>3. UNCHANGED <<totalQuantity, B!claimed>>
    BY <1>6 DEF SaleRefunded, B!claimed
  <2>4. B!Ledger!Refund(r)
    BY <2>2, <2>3 DEF B!Ledger!Refund
  <2>5. QED
    BY <1>6, <2>4, <1>U DEF SaleRefunded, B!Ledger!Next
<1>7. ASSUME NEW r \in Reservations, PaymentCreated(r)
      PROVE  B!SeatsInvariant' /\ UNCHANGED B!Ledger!vars
  <2>1. UNCHANGED B!captured
    BY <1>7 DEF PaymentCreated, B!captured, B!MoneyStatus, LockInv, RowLocksTypeOK
  <2>2. QED
    BY <1>7, <2>1, <1>U DEF PaymentCreated, B!Ledger!vars, B!claimed
<1>8. ASSUME NEW r \in Reservations, Core!EndHold(r, "EXPIRED") \/ Core!EndHold(r, "CANCELLED")
      PROVE  B!SeatsInvariant' /\ B!Ledger!Next
  BY <1>3, <1>8 DEF Core!EndHold, B!captured
<1>9. ASSUME NEW r \in Reservations, HoldCancelledByJob(r)
      PROVE  B!SeatsInvariant' /\ B!Ledger!Next
  BY <1>3, <1>9 DEF HoldCancelledByJob, B!captured
<1>10. QED
  BY <1>1, <1>2, <1>4, <1>5, <1>6, <1>7, <1>8, <1>9 DEF AtomicStep

\* The rows of a sale and of a failed payment agree after an atomic step.
LEMMA RowsOfAtomicStep ==
  ASSUME LockInv, Core!SaleIsAtomic, Core!FailedPaymentEndsBooking, AtomicStep
  PROVE  (Core!SaleIsAtomic /\ Core!FailedPaymentEndsBooking)'
<1> DEFINE Agree(r) ==
             /\ payment[r] \in {"PAID", "REFUNDED"} <=> reservation[r].status = "CONFIRMED"
             /\ order[r] \in {"PAID", "REFUNDED"} => payment[r] = order[r]
             /\ payment[r] = "FAILED" => /\ order[r] = "CANCELLED"
                                         /\ reservation[r].status \in {"EXPIRED", "CANCELLED"}
<1>0. /\ reservation \in [Reservations -> [status: Core!ReservationStatus,
                                           ticketType: TicketTypes \cup {None},
                                           quantity: Nat]]
      /\ order \in [Reservations -> Core!OrderStatus]
      /\ payment \in [Reservations -> Core!PaymentStatus]
      /\ RowsAgree
  BY DEF LockInv, RowLocksTypeOK
<1> SUFFICES ASSUME NEW s \in Reservations, Agree(s)  PROVE Agree(s)'
  BY DEF Core!SaleIsAtomic, Core!FailedPaymentEndsBooking
<1> USE DEF Core!ReservationStatus, Core!OrderStatus, Core!PaymentStatus
<1>1. CASE UNCHANGED <<reservation[s], order[s], payment[s]>>
  BY <1>1
<1>2. ASSUME NEW S \in SUBSET Reservations, OrderBecomes(S, "CANCELLED")
      PROVE  Agree(s)'
  BY <1>0, <1>2 DEF OrderBecomes
<1>3. ASSUME NEW r \in Reservations, order[r] = "NONE", OrderBecomes({r}, "PENDING")
      PROVE  Agree(s)'
  BY <1>0, <1>3 DEF OrderBecomes
<1>4. ASSUME NEW r \in Reservations, NewHold(r)
      PROVE  Agree(s)'
  BY <1>0, <1>4 DEF NewHold, RowsAgree
<1>5. ASSUME NEW r \in Reservations, NEW status \in {"EXPIRED", "CANCELLED"},
             Core!Holding(r), Core!SetReservation(r, status), UNCHANGED <<order, payment>>
      PROVE  Agree(s)'
  BY <1>0, <1>5 DEF Core!Holding, Core!SetReservation
<1>6. ASSUME NEW r \in Reservations, Core!SettleSuccess(r)
      PROVE  Agree(s)'
  BY <1>0, <1>6 DEF Core!SettleSuccess, Core!CanSettle, Core!Holding, Core!SetReservation
<1>7. ASSUME NEW r \in Reservations, Core!SettleFailure(r)
      PROVE  Agree(s)'
  BY <1>0, <1>7 DEF Core!SettleFailure, Core!Holding, Core!SetReservation, RowsAgree
<1>8. ASSUME NEW r \in Reservations, SaleRefunded(r)
      PROVE  Agree(s)'
  BY <1>0, <1>8 DEF SaleRefunded, RowsAgree
<1>9. ASSUME NEW r \in Reservations, PaymentCreated(r)
      PROVE  Agree(s)'
  BY <1>0, <1>9 DEF PaymentCreated
<1>10. QED
  BY <1>2, <1>3, <1>4, <1>5, <1>6, <1>7, <1>8, <1>9
     DEF AtomicStep, Core!EndHold, HoldCancelledByJob

\* The invariant of Booking, for the committed rows.
BookingInv == B!SeatsInvariant /\ Core!SaleIsAtomic /\ Core!FailedPaymentEndsBooking

\* At first every seat remains and there is no sale.
LEMMA BookingInvInit == Init => BookingInv /\ Core!Ledger!Init
<1> SUFFICES ASSUME Init  PROVE BookingInv /\ Core!Ledger!Init
  OBVIOUS
<1>1. B!Init
  BY DEF Init, B!Init
<1>2. B!SeatsInvariant /\ B!Ledger!Init
  BY <1>1, BookingAssumptions, B!SeatsInit, B!LedgerInit
<1>3. Core!SaleIsAtomic /\ Core!FailedPaymentEndsBooking
  BY DEF Init, Core!SaleIsAtomic, Core!FailedPaymentEndsBooking
<1>4. QED
  BY <1>2, <1>3, SameLedger DEF BookingInv

\* Every step of a connection is an atomic step, or leaves the rows alone.
LEMMA BookingInvStep ==
  LockInv /\ BookingInv /\ [Next]_rowVars
    => BookingInv' /\ [Core!Ledger!Next]_(Core!Ledger!vars)
<1> SUFFICES ASSUME LockInv, BookingInv, [Next]_rowVars
             PROVE  BookingInv' /\ [Core!Ledger!Next]_(Core!Ledger!vars)
  OBVIOUS
<1>1. CASE UNCHANGED tables
  <2>1. UNCHANGED <<B!stock, reservation>>
    BY <1>1 DEF B!stock
  <2>2. B!SeatsInvariant'
    BY <2>1, BookingAssumptions, B!SeatsUnchanged DEF BookingInv
  <2>3. (Core!SaleIsAtomic /\ Core!FailedPaymentEndsBooking)'
    BY <1>1 DEF BookingInv, Core!SaleIsAtomic, Core!FailedPaymentEndsBooking
  <2>4. UNCHANGED Core!Ledger!vars
    BY <1>1 DEF Core!Ledger!vars, Core!claimed, Core!captured
  <2>5. QED
    BY <2>2, <2>3, <2>4 DEF BookingInv
<1>2. CASE AtomicStep
  <2>1. B!SeatsInvariant' /\ (B!Ledger!Next \/ UNCHANGED B!Ledger!vars)
    BY <1>2, SeatsOfAtomicStep DEF BookingInv
  <2>2. (Core!SaleIsAtomic /\ Core!FailedPaymentEndsBooking)'
    BY <1>2, RowsOfAtomicStep DEF BookingInv
  <2>3. Core!Ledger!Next \/ UNCHANGED Core!Ledger!vars
    BY <2>1, SameLedger
  <2>4. QED
    BY <2>1, <2>2, <2>3 DEF BookingInv
<1>3. QED
  BY <1>1, <1>2, StepIsAtomic

\* Statement by statement, and whatever is rolled back half-way: no committed
\* state loses or oversells a seat, takes money without a confirmed reservation
\* or leaves a booking usable after a failed payment.
THEOREM TransactionsKeepBookings ==
  Spec => [](Core!SeatsConserved /\ Core!SaleIsAtomic /\ Core!FailedPaymentEndsBooking)
<1>1. B!SeatsInvariant => Core!SeatsConserved
  <2>1. \A t \in TicketTypes : B!Claims(t) = Core!Claims(t)
    BY DEF B!Claims, Core!Claims, B!Claimants, Core!Claimants, B!Seats, Core!Seats
  <2>2. QED
    BY <2>1, SameCardinality DEF B!SeatsInvariant, B!SeatsConserved, Core!SeatsConserved
<1>2. BookingInv => Core!SeatsConserved /\ Core!SaleIsAtomic /\ Core!FailedPaymentEndsBooking
  BY <1>1 DEF BookingInv
<1>3. QED
  BY <1>2, BookingInvInit, BookingInvStep, LocksProtectRows, PTL DEF Spec

\* The transactions implement the ledger as the handlers of Booking do, without
\* the assumption that a transaction is one step.
THEOREM TransactionsKeepLedger == Spec => TransactionsImplementLedger
  BY BookingInvInit, BookingInvStep, LocksProtectRows, PTL DEF Spec, TransactionsImplementLedger

\* What no atomic step does to a booking: leave a status it has ended in.
KeepsStatuses(s) ==
  /\ reservation[s].status \in {"CONFIRMED", "EXPIRED", "CANCELLED"}
       => reservation'[s] = reservation[s]
  /\ payment[s] = "FAILED" => payment'[s] = "FAILED"
  /\ payment[s] = "PAID" => payment'[s] \in {"PAID", "REFUNDED"}
  /\ order[s] = "CANCELLED" => order'[s] = "CANCELLED"

\* A refund alone moves a settled payment, and only one that was made.
LEMMA StatusesOfAtomicStep ==
  ASSUME LockInv, AtomicStep, NEW s \in Reservations
  PROVE  KeepsStatuses(s)
<1>0. /\ reservation \in [Reservations -> [status: Core!ReservationStatus,
                                           ticketType: TicketTypes \cup {None},
                                           quantity: Nat]]
      /\ order \in [Reservations -> Core!OrderStatus]
      /\ payment \in [Reservations -> Core!PaymentStatus]
      /\ RowsAgree
  BY DEF LockInv, RowLocksTypeOK
<1> USE DEF KeepsStatuses
<1>1. ASSUME NEW S \in SUBSET Reservations, OrderBecomes(S, "CANCELLED")
      PROVE  KeepsStatuses(s)
  BY <1>0, <1>1 DEF OrderBecomes
<1>2. ASSUME NEW r \in Reservations, order[r] = "NONE", OrderBecomes({r}, "PENDING")
      PROVE  KeepsStatuses(s)
  BY <1>0, <1>2 DEF OrderBecomes
<1>3. ASSUME NEW r \in Reservations, NewHold(r)
      PROVE  KeepsStatuses(s)
  BY <1>0, <1>3 DEF NewHold
<1>4. ASSUME NEW r \in Reservations, NEW status, Core!Holding(r),
             Core!SetReservation(r, status), UNCHANGED <<order, payment>>
      PROVE  KeepsStatuses(s)
  BY <1>0, <1>4 DEF Core!Holding, Core!SetReservation
<1>5. ASSUME NEW r \in Reservations, Core!SettleSuccess(r)
      PROVE  KeepsStatuses(s)
  BY <1>0, <1>5 DEF Core!SettleSuccess, Core!CanSettle, Core!Holding, Core!SetReservation
<1>6. ASSUME NEW r \in Reservations, Core!SettleFailure(r)
      PROVE  KeepsStatuses(s)
  BY <1>0, <1>6 DEF Core!SettleFailure, Core!Holding, Core!SetReservation
<1>7. ASSUME NEW r \in Reservations, SaleRefunded(r)
      PROVE  KeepsStatuses(s)
  BY <1>0, <1>7 DEF SaleRefunded, RowsAgree
<1>8. ASSUME NEW r \in Reservations, PaymentCreated(r)
      PROVE  KeepsStatuses(s)
  BY <1>0, <1>8 DEF PaymentCreated
<1>9. QED
  BY <1>1, <1>2, <1>3, <1>4, <1>5, <1>6, <1>7, <1>8
     DEF AtomicStep, Core!EndHold, HoldCancelledByJob

\* No commit changes a reservation that has ended, a settled payment (a refund
\* apart) or a cancelled order, although each transaction checked the statuses
\* some statements before it commits.
THEOREM TransactionsKeepStatuses == Spec => [][\A s \in Reservations : KeepsStatuses(s)]_tables
<1>1. LockInv /\ [Next]_rowVars => [\A s \in Reservations : KeepsStatuses(s)]_tables
  BY StepIsAtomic, StatusesOfAtomicStep
<1>2. QED
  BY <1>1, LocksProtectRows, PTL DEF Spec

\* The rows and the open transactions keep their types; in particular no commit
\* makes remainingQuantity negative.
THEOREM RowTypesCorrect == Spec => []RowLocksTypeOK
<1>1. LockInv => RowLocksTypeOK
  BY DEF LockInv
<1>2. QED
  BY <1>1, LocksProtectRows, PTL
=============================================================================
