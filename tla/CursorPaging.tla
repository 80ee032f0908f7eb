---------------------------- MODULE CursorPaging ----------------------------
(***************************************************************************)
(* A client walks through its reservations, orders, notifications or       *)
(* events page by page, passing the nextCursor of each page to the next    *)
(* request, while new rows are inserted: the findMine queries (newest      *)
(* first, ids break ties) and buildCursorResponse.  Rows are not deleted.  *)
(*                                                                         *)
(* A page is the set of its rows: which rows it has and which of them the  *)
(* cursor names depend on the order, where they stand on it does not       *)
(* matter to the client's walk.                                            *)
(***************************************************************************)
EXTENDS Naturals, FiniteSets

CONSTANTS
    Ids,        \* the ids of the rows, ordered numbers
    Times,      \* the values of createdAt
    Limit,      \* the page size (Min(1) in the DTO)
    NoCursor

ASSUME IdsAssumption == Ids \subseteq Nat /\ NoCursor \notin Nat
ASSUME TimesAssumption == Times \subseteq Nat
ASSUME LimitAssumption == Limit \in Nat \ {0}

VARIABLES
    rows,       \* the rows of the user: [id, createdAt]
    cursor,     \* the nextCursor of the last page
    shown,      \* how often the pages so far had each id
    old,        \* history: the ids that existed when the walk began
    walk        \* "ready", "walking" or "finished"

vars == <<rows, cursor, shown, old, walk>>

IdsOf(rs) == {row.id : row \in rs}

PagingTypeOK ==
    /\ rows \subseteq [id: Ids, createdAt: Times]
    /\ shown \in [Ids -> Nat]
    /\ cursor \in {i \in Ids : shown[i] > 0} \cup {NoCursor}
    /\ old \subseteq Ids
    /\ walk \in {"ready", "walking", "finished"}

Init ==
    /\ rows = {}
    /\ cursor = NoCursor
    /\ shown = [i \in Ids |-> 0]
    /\ old = {}
    /\ walk = "ready"

\* orderBy: [{ createdAt: 'desc' }, { id: 'desc' }].
Newer(a, b) == a.createdAt > b.createdAt \/ (a.createdAt = b.createdAt /\ a.id > b.id)

\* Mutant: ties are left to the database.
NewerByTime(rs) ==
    LET cursorRow == CHOOSE row \in rs : row.id = cursor
    IN  IF cursor = NoCursor THEN rs ELSE {row \in rs : row.createdAt < cursorRow.createdAt}

\* Mutant: skip is missing.
FromCursor(rs) ==
    LET cursorRow == CHOOSE row \in rs : row.id = cursor
    IN  IF cursor = NoCursor THEN rs ELSE {row \in rs : ~Newer(row, cursorRow)}

\* cursor: { id }, skip: 1: the rows that follow the one of the cursor.
AfterCursor(rs) ==
    LET cursorRow == CHOOSE row \in rs : row.id = cursor
    IN  IF cursor = NoCursor THEN rs ELSE {row \in rs : Newer(cursorRow, row)}

\* orderBy with take: n.
Newest(rs, n) == {row \in rs : Cardinality({other \in rs : Newer(other, row)}) < n}

\* take: limit + 1.
Items == Newest(AfterCursor(rows), Limit + 1)

\* Mutant: a full page counts as having a successor.
HasMoreIfFull(items) == Cardinality(items) >= Limit

HasMore(items) == Cardinality(items) > Limit

Page(items) == IF HasMore(items) THEN Newest(items, Limit) ELSE items

\* Mutant: the cursor names the row that was only fetched to look ahead.
IdOfOldestItem(items) ==
    (CHOOSE row \in items : \A other \in items \ {row} : Newer(other, row)).id

\* result[result.length - 1].id
LastId(items) ==
    (CHOOSE row \in Page(items) : \A other \in Page(items) \ {row} : Newer(other, row)).id

\* createdAt is the start of the inserting transaction: a row may appear below
\* rows that are already visible.
Insert(i, t) ==
    /\ i \notin IdsOf(rows)
    /\ rows' = rows \cup {[id |-> i, createdAt |-> t]}
    /\ UNCHANGED <<cursor, shown, old, walk>>

StartWalk ==
    /\ walk = "ready"
    /\ walk' = "walking"
    /\ old' = IdsOf(rows)
    /\ UNCHANGED <<rows, cursor, shown>>

FetchPage ==
    /\ walk = "walking"
    /\ shown' = [i \in Ids |-> IF i \in IdsOf(Page(Items)) THEN shown[i] + 1 ELSE shown[i]]
    /\ IF HasMore(Items)
       THEN cursor' = LastId(Items) /\ walk' = "walking"
       ELSE cursor' = NoCursor /\ walk' = "finished"
    /\ UNCHANGED <<rows, old>>

Next ==
    \/ \E i \in Ids, t \in Times : Insert(i, t)
    \/ StartWalk
    \/ FetchPage

Spec == Init /\ [][Next]_vars

-----------------------------------------------------------------------------
(* Properties. *)

\* No row is shown on two pages, whatever is inserted between two requests.
EachRowOnce == \A i \in Ids : shown[i] <= 1

\* A finished walk has shown every row that existed when it began, also rows of
\* the same createdAt on both sides of a page boundary.
NothingSkipped == walk = "finished" => \A i \in old : shown[i] > 0

\* A nextCursor is handed out only if a row follows it.
CursorLeadsOn == cursor # NoCursor => AfterCursor(rows) # {}
=============================================================================
